---------------------------- MODULE Registration ----------------------------
(***************************************************************************)
(* EmployeeService and SupplierService: accounts are created by a request, *)
(* by a public registration, or with their supplier, by two saves.         *)
(***************************************************************************)
EXTENDS AccountStore

\* create: a request of an administrator.
Create(w, e) ==
  /\ Accepts(w, "Create")
  /\ Become(w, [Idle EXCEPT !.op = "Create", !.pc = "findByEmail", !.id = e])
  /\ UNCHANGED <<store, audit>>

Marked(kind, e) == IF redis[Key(kind, e)] # "nil" THEN {Key(kind, e)} ELSE {}

\* createPublic: the two marks are read one after the other; one is enough.
CreatePublic(w, e) ==
  /\ Accepts(w, "CreatePublic")
  /\ Become(w, [Idle EXCEPT !.op = "CreatePublic", !.pc = "emailMark", !.id = e,
                            !.got = Marked("smsVerified", e)])
  /\ UNCHANGED <<store, audit>>

ReadEmailMark(w) ==
  /\ At(w, "emailMark")
  /\ LET t == task[w]
         marks == t.got \cup Marked("emailVerified", t.id)
     IN  Become(w, IF marks = {} THEN Idle
                   ELSE [t EXCEPT !.pc = "findByEmail", !.got = marks])
  /\ UNCHANGED <<store, audit>>

\* Where an exception of the creation goes: the supplier's is compensated.
Caught(w) ==
  IF task[w].op = "CreateSupplier" THEN Goto(w, "removeSupplier") ELSE Throw(w)

\* The address must be free; then the password is hashed.
FindAddress(w) ==
  /\ At(w, "findByEmail")
  /\ IF FindByEmail(task[w].id) # {} THEN Caught(w) ELSE Goto(w, "insertEmployee")
  /\ UNCHANGED <<store, audit>>

\* Mutant of InsertEmployee: the credentials are left to a cascade.
InsertEmployee_Cascades(w) ==
  /\ At(w, "insertEmployee")
  /\ LET e == task[w].id
     IN  IF employee[e] = "unused"
         THEN employee' = [employee EXCEPT ![e] = "bare"] /\ Throw(w)
         ELSE Caught(w) /\ UNCHANGED employee
  /\ UNCHANGED <<credentials, redis, supplier, audit>>

\* EmployeeRepository.create: the employee first.  The address is unique.
\* Bound: the address of a removed employee is not registered again.
InsertEmployee(w) ==
  /\ At(w, "insertEmployee")
  /\ LET e == task[w].id
     IN  IF employee[e] = "unused"
         THEN employee' = [employee EXCEPT ![e] = "bare"] /\ Goto(w, "insertCredentials")
         ELSE Caught(w) /\ UNCHANGED employee
  /\ UNCHANGED <<credentials, redis, supplier, audit>>

\* Then its credentials, then the marks are deleted, one by one.
InsertCredentials(w) ==
  /\ At(w, "insertCredentials")
  /\ LET t == task[w]
         public == t.op = "CreatePublic"
     IN  IF employee[t.id] = "bare"
         THEN /\ employee' = [employee EXCEPT ![t.id] = "live"]
              /\ credentials' = [credentials EXCEPT ![t.id] = NewCredentials(public)]
              /\ Become(w, Do(t, [i \in 1..Cardinality(t.got) |->
                   DeleteCommand(IF i = 1 /\ Key("smsVerified", t.id) \in t.got
                                 THEN {Key("smsVerified", t.id)}
                                 ELSE {Key("emailVerified", t.id)})]))
         ELSE Caught(w) /\ UNCHANGED <<employee, credentials>>
  /\ UNCHANGED <<redis, supplier, audit>>

\* update: a new password is hashed and written; the other columns are data.
UpdateEmployee(w, e, password) ==
  /\ Accepts(w, "UpdateEmployee")
  /\ e \in FindById(e)
  /\ Begin(w, "UpdateEmployee", e, <<UpdateCommand(e, [password |-> password])>>)
  /\ UNCHANGED <<store, audit>>

\* remove: the check reads what the deletion needs.
RemoveEmployee(w, e) ==
  /\ Accepts(w, "RemoveEmployee")
  /\ e \in FindById(e)
  /\ DeleteRow(e)
  /\ UNCHANGED <<credentials, redis, supplier, task, workload, audit>>

\* SupplierService.create: the supplier, its subscription, its first employee.
CreateSupplier(w, s, e) ==
  /\ Accepts(w, "CreateSupplier")
  /\ supplier[s] = "unused"
  /\ supplier' = [supplier EXCEPT ![s] = "bare"]
  /\ Become(w, [Idle EXCEPT !.op = "CreateSupplier", !.pc = "insertSubscription",
                            !.id = e, !.arg = s])
  /\ UNCHANGED <<employee, credentials, redis, audit>>

\* The subscription references the supplier, which may be removed by now.
InsertSubscription(w) ==
  /\ At(w, "insertSubscription")
  /\ LET s == task[w].arg
     IN  IF supplier[s] = "bare"
         THEN supplier' = [supplier EXCEPT ![s] = "live"] /\ Goto(w, "findByEmail")
         ELSE Throw(w) /\ UNCHANGED supplier
  /\ UNCHANGED <<employee, credentials, redis, audit>>

\* Repository.remove: a subscription references the supplier without ON DELETE.
Removed(s) == IF supplier[s] = "live" THEN "live" ELSE "removed"

\* The compensation of a failed creation.
CompensateSupplier(w) ==
  /\ At(w, "removeSupplier")
  /\ supplier' = [supplier EXCEPT ![task[w].arg] = Removed(task[w].arg)]
  /\ Throw(w)
  /\ UNCHANGED <<employee, credentials, redis, audit>>

\* remove: refused while the supplier has employees; until it has a
\* subscription it has none.
RemoveSupplier(w, s) ==
  /\ Accepts(w, "RemoveSupplier")
  /\ supplier[s] \in {"bare", "live"}
  /\ supplier' = [supplier EXCEPT ![s] = Removed(s)]
  /\ UNCHANGED <<employee, credentials, redis, task, workload, audit>>

RegistrationNext ==
  \/ \E w \in Workers, e \in Employees :
       \/ Create(w, e)
       \/ CreatePublic(w, e)
       \/ \E p \in {"old", "new"} : UpdateEmployee(w, e, p)
       \/ RemoveEmployee(w, e)
       \/ \E s \in Suppliers : CreateSupplier(w, s, e)
  \/ \E w \in Workers, s \in Suppliers : RemoveSupplier(w, s)
  \/ \E w \in Workers :
       \/ ReadEmailMark(w)
       \/ FindAddress(w)
       \/ InsertEmployee(w)
       \/ InsertCredentials(w)
       \/ InsertSubscription(w)
       \/ CompensateSupplier(w)
=============================================================================
