------------------------- MODULE AccountSafetyProofs -------------------------
(***************************************************************************)
(* The safety properties of the account services, each with its inductive  *)
(* invariant: locks, creations, counters, passwords, second factors and    *)
(* verified addresses.                                                     *)
(***************************************************************************)
EXTENDS AccountsProofs

-----------------------------------------------------------------------------
(* What a step does to the requests.                                       *)

\* An address is proved by a code, or by a link of this employee that was mailed.
Evidence(e) ==
  \/ audit'[e].proved
  \/ \E l \in Links : credentials[e].link = l /\ Sent(l) /\ (l \in audit[e].mailed => audit'[e].proved)

Starts(w, u) ==
  /\ Accepts(w, u.op) /\ u.got = {} /\ u.row = NewCredentials(FALSE)
  /\ u.op \in {"FollowLink", "VerifySmsPublic", "VerifyEmailPublic", "CreateSupplier"}
  /\ u.op # "CreateSupplier" => u.id \in Employees /\ Evidence(u.id)

Carried(w, u) ==
  /\ ~At(w, "idle")
  /\ u.op = task[w].op /\ u.id = task[w].id /\ u.arg = task[w].arg
  /\ u.got = task[w].got /\ u.row = task[w].row
  /\ u.pc \notin {"compare", "googleCredentials"}
  /\ u.op = "CreatePublic" /\ u.pc \in {"findByEmail", "insertEmployee", "insertCredentials"} =>
       At(w, "insertEmployee")
  /\ u.pc = "googleSave" => GoogleCredentials(w)
  /\ At(w, "run") => Run(w)

Moves(w, u) ==
  \/ u = Idle
  \/ (QuietStart(w, u) \/ QuietGoesOn(w, u)) /\ UNCHANGED <<store, audit>>
  \/ Starts(w, u)
  \/ Carried(w, u)

Moved == \E w \in Workers, u \in Tasks : Become(w, u) /\ Moves(w, u)

LEMMA TasksMove ==
  ASSUME TypeInv, StoreStep
  PROVE  Moved \/ (task' = task /\ workload' = workload)
<1> DEFINE Goal == Moved \/ (task' = task /\ workload' = workload)
<1>1. ASSUME NEW w \in Workers,
             LoginSave(w) \/ GoogleInsert(w) \/ GoogleSave(w) \/ MailLink(w) \/ CompensateSupplier(w)
      PROVE  Goal
  <2>1. Become(w, Idle)
    BY <1>1 DEF LoginSave, GoogleInsert, GoogleSave, MailLink, CompensateSupplier, Throw
  <2> QED
    BY <2>1, NewTyped DEF Moved, Moves
<1>2. ASSUME NEW w \in Workers,
             \/ Run(w) \/ GoogleCredentials(w) \/ InsertEmployee(w) \/ InsertCredentials(w)
             \/ InsertSubscription(w)
      PROVE  Goal
  <2>1. ~At(w, "idle")
    BY <1>2 DEF Run, GoogleCredentials, InsertEmployee, InsertCredentials, InsertSubscription, At
  <2>2. \E u \in Tasks :
          /\ GoesOn(w, u)
          /\ u.op = "CreatePublic" /\ u.pc \in {"findByEmail", "insertEmployee", "insertCredentials"} =>
               At(w, "insertEmployee")
          /\ u.pc = "googleSave" => GoogleCredentials(w)
          /\ At(w, "run") => Run(w)
    <3>1. CASE Run(w)
      BY <3>1, RunStep
    <3>2. CASE GoogleCredentials(w)
      BY <3>2, GoogleCredentialsStep DEF At
    <3>3. CASE InsertEmployee(w)
      BY <3>3, InsertEmployeeStep DEF At
    <3>4. CASE InsertCredentials(w)
      BY <3>4, InsertCredentialsStep DEF At
    <3>5. CASE InsertSubscription(w)
      BY <3>5, InsertSubscriptionStep DEF At
    <3> QED
      BY <1>2, <3>1, <3>2, <3>3, <3>4, <3>5
  <2>3. PICK u \in Tasks :
          /\ GoesOn(w, u)
          /\ u.op = "CreatePublic" /\ u.pc \in {"findByEmail", "insertEmployee", "insertCredentials"} =>
               At(w, "insertEmployee")
          /\ u.pc = "googleSave" => GoogleCredentials(w)
          /\ At(w, "run") => Run(w)
    BY <2>2
  <2>4. Become(w, u) /\ (u = Idle \/ Carried(w, u))
    BY <2>1, <2>3 DEF GoesOn, Carried
  <2> QED
    BY <2>4 DEF Moved, Moves
<1>3. ASSUME NEW w \in Workers, NEW u \in Tasks, NEW op, Begins(w, u, op),
             op \in {"FollowLink", "VerifySmsPublic", "VerifyEmailPublic", "CreateSupplier"},
             op # "CreateSupplier" => u.id \in Employees /\ Evidence(u.id)
      PROVE  Goal
  BY <1>3 DEF Moved, Moves, Starts, Begins
<1>4. ASSUME NEW w \in Workers, NEW e \in Employees, NEW code \in OtpCodes,
             VerifySmsPublic(w, e, code) \/ VerifyEmailPublic(w, e, code)
      PROVE  Goal
  <2>1. ASSUME NEW k, redis[k] = code, Proves(e, code, k) PROVE Evidence(e)
    BY <2>1 DEF Proves, Evidence, TypeInv, Audits
  <2>2. Evidence(e)
    BY <1>4, <2>1, VerifySmsPublicStep, VerifyEmailPublicStep
  <2>3. PICK u \in Tasks, op \in {"VerifySmsPublic", "VerifyEmailPublic"} :
          Begins(w, u, op) /\ u.id = e
    BY <1>4, VerifySmsPublicStep, VerifyEmailPublicStep
  <2> QED
    BY <1>3, <2>2, <2>3
<1>5. ASSUME NEW w \in Workers, NEW e \in Employees, NEW l \in Links, FollowLink(w, e, l)
      PROVE  Goal
  <2>1. /\ Sent(l) /\ credentials[e].link = l
        /\ audit' = [audit EXCEPT ![e].proved = @ \/ l \in audit[e].mailed]
    BY <1>5, FollowLinkStep
  <2>2. l \in audit[e].mailed => audit'[e].proved
    BY <2>1 DEF TypeInv, Audits
  <2>3. Evidence(e)
    BY <2>1, <2>2 DEF Evidence
  <2>4. PICK u \in Tasks : Begins(w, u, "FollowLink") /\ u.id = e
    BY <1>5, FollowLinkStep
  <2> QED
    BY <1>3, <2>3, <2>4
<1>6. ASSUME NEW w \in Workers, NEW s \in Suppliers, NEW e \in Employees, CreateSupplier(w, s, e)
      PROVE  Goal
  BY <1>3, <1>6, CreateSupplierStep
<1>7. ASSUME \/ \E e \in Employees : LockExpires(e) \/ LinkExpires(e)
             \/ \E k \in Keys : Expire(k)
             \/ \E w \in Workers, e \in Employees : RemoveEmployee(w, e)
             \/ \E w \in Workers, s \in Suppliers : RemoveSupplier(w, s)
      PROVE  Goal
  BY <1>7 DEF LockExpires, LinkExpires, Expire, RemoveEmployee, RemoveSupplier
<1>8. ASSUME NEW w \in Workers, Quiet(w) PROVE Goal
  BY <1>8 DEF Quiet, Moved, Moves
<1> HIDE DEF Goal
<1>9. Goal
  BY <1>1, <1>2, <1>4, <1>5, <1>6, <1>7, <1>8, Zenon DEF StoreStep
<1> QED
  BY <1>9 DEF Goal

\* What has become of each request.
LEMMA Movement ==
  ASSUME TypeInv, StoreStep, NEW w \in Workers
  PROVE  task'[w] \in Tasks /\ (task'[w] = task[w] \/ Moves(w, task'[w]))
<1>1. CASE task' = task
  BY <1>1 DEF TypeInv
<1>2. ASSUME NEW v \in Workers, NEW u \in Tasks, Become(v, u), Moves(v, u)
      PROVE  task'[w] \in Tasks /\ (task'[w] = task[w] \/ Moves(w, task'[w]))
  BY <1>2, BecomeTyped
<1> QED
  BY <1>1, <1>2, TasksMove DEF Moved

\* The same, as far as the rows that the requests hold are concerned.
Turn(w, u) ==
  \/ u = Idle
  \/ /\ Accepts(w, u.op)
     /\ \/ u.row = NewCredentials(FALSE)
        \/ u.id \in Employees /\ employee[u.id] = "live" /\ u.row = credentials[u.id]
  \/ /\ ~At(w, "idle") /\ u.op = task[w].op /\ u.row = task[w].row
     /\ u.id = task[w].id \/ u.op \in LinkOps

Turned == \E w \in Workers, u \in Tasks : Become(w, u) /\ Turn(w, u)

LEMMA Turns ==
  ASSUME TypeInv, StoreStep
  PROVE  Turned \/ (task' = task /\ workload' = workload)
<1> SUFFICES ASSUME NEW w \in Workers, NEW u \in Tasks, Become(w, u), Moves(w, u) PROVE Turned
  BY TasksMove DEF Moved
<1>1. CASE QuietStart(w, u)
  <2>1. u.id \in Employees \/ u = Idle
    BY DEF Tasks, Reaches
  <2> QED
    BY <1>1, <2>1 DEF QuietStart, Turned, Turn
<1>2. CASE QuietGoesOn(w, u)
  BY <1>2 DEF QuietGoesOn, Turned, Turn
<1>3. CASE u = Idle \/ Starts(w, u) \/ Carried(w, u)
  BY <1>3 DEF Starts, Carried, Turned, Turn
<1> QED
  BY <1>1, <1>2, <1>3 DEF Moves

-----------------------------------------------------------------------------
(* Requests are of the operations of the workload, and in a serial one at  *)
(* most one of them is under way.                                          *)

OpsInv == \A w \in Workers : task[w].op \in workload.ops \cup {"none"}

AloneInv ==
  Serial => \A w, u \in Workers : ~At(w, "idle") /\ ~At(u, "idle") => w = u

\* A request that is accepted in a serial workload is the only one.
LEMMA AcceptedAlone ==
  ASSUME AloneInv, Serial, NEW w \in Workers, NEW op, Accepts(w, op)
  PROVE  \A v \in Workers : At(v, "idle")
<1> SUFFICES ASSUME NEW v \in Workers, ~At(v, "idle") PROVE FALSE
  OBVIOUS
<1>1. {u \in Workers : ~At(u, "idle")} = {v}
  BY DEF AloneInv
<1>2. Cardinality({u \in Workers : ~At(u, "idle")}) = 1
  BY <1>1, FS_Singleton
<1> QED
  BY <1>2 DEF Accepts, Serial

LEMMA OpsStep ==
  ASSUME TypeInv, StoreStep, OpsInv, AloneInv
  PROVE  OpsInv' /\ AloneInv'
<1>1. CASE task' = task /\ workload' = workload
  BY <1>1 DEF OpsInv, AloneInv, Serial, At
<1>2. ASSUME NEW w \in Workers, NEW u \in Tasks, Become(w, u), Turn(w, u)
      PROVE  OpsInv' /\ AloneInv'
  <2>1. /\ workload' = workload /\ task'[w] = u
        /\ \A v \in Workers \ {w} : task'[v] = task[v]
    BY <1>2, BecomeTyped
  <2>2. Idle.op = "none" /\ Idle.pc = "idle"
    BY DEF Idle
  <2>3. u.op \in workload.ops \cup {"none"}
    BY <1>2, <2>2 DEF Turn, OpsInv, Accepts
  <2>4. OpsInv'
    BY <2>1, <2>3 DEF OpsInv
  <2>5. AloneInv'
    <3> SUFFICES ASSUME Serial, NEW v \in Workers, v # w, u.pc # "idle"
                 PROVE  At(v, "idle")
      BY <2>1 DEF AloneInv, Serial, At
    <3>1. CASE Accepts(w, u.op)
      BY <3>1, AcceptedAlone
    <3>2. CASE ~At(w, "idle")
      BY <3>2 DEF AloneInv
    <3> QED
      BY <1>2, <2>2, <3>1, <3>2 DEF Turn
  <2> QED
    BY <2>4, <2>5
<1> QED
  BY <1>1, <1>2, Turns DEF Turned

-----------------------------------------------------------------------------
(* Which steps write what.                                                 *)

CredentialsStep ==
  \/ \E w \in Workers : Run(w) \/ LoginSave(w) \/ GoogleCredentials(w) \/ InsertCredentials(w)
  \/ \E e \in Employees : LockExpires(e) \/ LinkExpires(e)

LEMMA CredentialsFrame ==
  ASSUME TypeInv, StoreStep, ~CredentialsStep
  PROVE  credentials' = credentials
<1>1. ASSUME NEW w \in Workers,
             \/ Quiet(w) \/ GoogleInsert(w) \/ GoogleSave(w) \/ MailLink(w) \/ InsertEmployee(w)
             \/ InsertSubscription(w) \/ CompensateSupplier(w)
      PROVE  credentials' = credentials
  BY <1>1 DEF Quiet, GoogleInsert, GoogleSave, MailLink, InsertEmployee, InsertSubscription,
              CompensateSupplier, store
<1>2. ASSUME \/ \E k \in Keys : Expire(k)
             \/ \E w \in Workers, e \in Employees, code \in OtpCodes :
                  VerifySmsPublic(w, e, code) \/ VerifyEmailPublic(w, e, code)
             \/ \E w \in Workers, e \in Employees, l \in Links : FollowLink(w, e, l)
             \/ \E w \in Workers, e \in Employees : RemoveEmployee(w, e)
             \/ \E w \in Workers, s \in Suppliers, e \in Employees : CreateSupplier(w, s, e)
             \/ \E w \in Workers, s \in Suppliers : RemoveSupplier(w, s)
      PROVE  credentials' = credentials
  BY <1>2 DEF Expire, VerifySmsPublic, VerifyEmailPublic, FollowLink, RemoveEmployee,
              CreateSupplier, RemoveSupplier, store
<1> QED
  BY <1>1, <1>2, Zenon DEF StoreStep, CredentialsStep

EmployeeStep ==
  \/ \E w \in Workers : \/ GoogleInsert(w) \/ GoogleSave(w) \/ InsertEmployee(w)
                       \/ InsertCredentials(w)
  \/ \E w \in Workers, e \in Employees : RemoveEmployee(w, e)

LEMMA EmployeeFrame ==
  ASSUME TypeInv, StoreStep, ~EmployeeStep
  PROVE  employee' = employee
<1>1. ASSUME NEW w \in Workers,
             \/ Quiet(w) \/ Run(w) \/ LoginSave(w) \/ GoogleCredentials(w) \/ MailLink(w)
             \/ InsertSubscription(w) \/ CompensateSupplier(w)
      PROVE  employee' = employee
  BY <1>1 DEF Quiet, Run, LoginSave, GoogleCredentials, MailLink, InsertSubscription,
              CompensateSupplier, store
<1>2. ASSUME \/ \E k \in Keys : Expire(k)
             \/ \E e \in Employees : LockExpires(e) \/ LinkExpires(e)
             \/ \E w \in Workers, e \in Employees, code \in OtpCodes :
                  VerifySmsPublic(w, e, code) \/ VerifyEmailPublic(w, e, code)
             \/ \E w \in Workers, e \in Employees, l \in Links : FollowLink(w, e, l)
             \/ \E w \in Workers, s \in Suppliers, e \in Employees : CreateSupplier(w, s, e)
             \/ \E w \in Workers, s \in Suppliers : RemoveSupplier(w, s)
      PROVE  employee' = employee
  BY <1>2 DEF Expire, LockExpires, LinkExpires, VerifySmsPublic, VerifyEmailPublic, FollowLink,
              CreateSupplier, RemoveSupplier, store
<1> QED
  BY <1>1, <1>2, Zenon DEF StoreStep, EmployeeStep

AuditStep ==
  \/ \E w \in Workers : Run(w) \/ LoginSave(w) \/ MailLink(w)
  \/ \E w \in Workers, e \in Employees, code \in OtpCodes :
       VerifySmsPublic(w, e, code) \/ VerifyEmailPublic(w, e, code)
  \/ \E w \in Workers, e \in Employees, l \in Links : FollowLink(w, e, l)

LEMMA AuditFrame ==
  ASSUME TypeInv, StoreStep, ~AuditStep
  PROVE  audit' = audit
<1>1. ASSUME NEW w \in Workers,
             \/ Quiet(w) \/ GoogleInsert(w) \/ GoogleCredentials(w) \/ GoogleSave(w)
             \/ InsertEmployee(w) \/ InsertCredentials(w)
             \/ InsertSubscription(w) \/ CompensateSupplier(w)
      PROVE  audit' = audit
  BY <1>1 DEF Quiet, GoogleInsert, GoogleCredentials, GoogleSave, InsertEmployee,
              InsertCredentials, InsertSubscription, CompensateSupplier
<1>2. ASSUME \/ \E k \in Keys : Expire(k)
             \/ \E e \in Employees : LockExpires(e) \/ LinkExpires(e)
             \/ \E w \in Workers, e \in Employees : RemoveEmployee(w, e)
             \/ \E w \in Workers, s \in Suppliers, e \in Employees : CreateSupplier(w, s, e)
             \/ \E w \in Workers, s \in Suppliers : RemoveSupplier(w, s)
      PROVE  audit' = audit
  BY <1>2 DEF Expire, LockExpires, LinkExpires, RemoveEmployee, CreateSupplier, RemoveSupplier
<1> QED
  BY <1>1, <1>2, Zenon DEF StoreStep, AuditStep

\* What an update leaves in the row of each employee.
LEMMA UpdatedRows ==
  ASSUME TypeInv, NEW w \in Workers, Run(w), NEW e \in Employees
  PROVE  LET cmd == task[w].todo[1]
         IN  \/ credentials'[e] = credentials[e]
             \/ /\ e \in WithCredentials(cmd.id) /\ cmd.do = "update" /\ cmd.set \in Settings
                /\ credentials'[e] = Written(credentials[e], cmd.set)
                /\ \A c \in DOMAIN credentials[e] :
                     credentials'[e][c] = IF c \in DOMAIN cmd.set THEN cmd.set[c] ELSE credentials[e][c]
<1> DEFINE cmd == task[w].todo[1]
<1>1. /\ cmd \in Commands
      /\ \/ cmd.do = "update" /\ credentials' = AfterUpdate(cmd.id, cmd.set)
         \/ credentials' = credentials
  BY RunStep
<1>2. cmd.do = "update" => cmd.set \in Settings
  BY <1>1 DEF Commands
<1>3. credentials[e] \in Columns
  BY DEF TypeInv
<1> QED
  BY <1>1, <1>2, <1>3, WrittenColumn DEF AfterUpdate

-----------------------------------------------------------------------------
(* Locks.                                                                  *)

Limited(row) == row.attempts >= MaxAttempts => row.lock # "no"

\* Also the copies of rows that logins hold respect the limit.
LockInv ==
  /\ \A e \in Employees : Limited(credentials[e])
  /\ \A w \in Workers : Limited(task[w].row)

LEMMA NewLimited == \A v \in BOOLEAN : Limited(NewCredentials(v)) /\ Limited(Idle.row)
<1>1. ~(0 >= MaxAttempts)
  BY BoundsAssumption
<1> QED
  BY <1>1 DEF Limited, NewCredentials, Idle

LEMMA LockStep ==
  ASSUME TypeInv, StoreStep, LockInv
  PROVE  LockInv'
<1>1. ASSUME NEW w \in Workers PROVE Limited(task'[w].row)
  <2>1. CASE task' = task
    BY <2>1 DEF LockInv
  <2>2. ASSUME NEW v \in Workers, NEW u \in Tasks, Become(v, u), Turn(v, u)
        PROVE  Limited(task'[w].row)
    <3>1. Limited(u.row)
      BY <2>2, NewLimited DEF Turn, LockInv
    <3>2. task'[w] = u \/ task'[w] = task[w]
      BY <2>2, BecomeTyped
    <3> QED
      BY <3>1, <3>2 DEF LockInv
  <2> QED
    BY <2>1, <2>2, Turns DEF Turned
<1>2. ASSUME NEW e \in Employees PROVE Limited(credentials'[e])
  <2>1. CASE credentials' = credentials
    BY <2>1 DEF LockInv
  <2>2. ASSUME NEW w \in Workers, Run(w) PROVE Limited(credentials'[e])
    <3> DEFINE set == task[w].todo[1].set
    <3>1. CASE credentials'[e] = credentials[e]
      BY <3>1 DEF LockInv
    <3>2. CASE credentials'[e] # credentials[e]
      <4>1. /\ set \in Settings
            /\ \A c \in DOMAIN credentials[e] :
                 credentials'[e][c] = IF c \in DOMAIN set THEN set[c] ELSE credentials[e][c]
        BY <2>2, <3>2, UpdatedRows
      <4>2. "attempts" \in DOMAIN credentials[e] /\ "lock" \in DOMAIN credentials[e]
        BY DEF TypeInv, Columns
      <4>3. "attempts" \notin DOMAIN set /\ "lock" \notin DOMAIN set
        BY <4>1, LoginColumns
      <4>4. credentials'[e].attempts = credentials[e].attempts /\ credentials'[e].lock = credentials[e].lock
        BY <4>1, <4>2, <4>3
      <4> QED
        BY <4>4 DEF LockInv, Limited
    <3> QED
      BY <3>1, <3>2
  <2>3. ASSUME NEW w \in Workers, LoginSave(w) PROVE Limited(credentials'[e])
    <3> DEFINE row == task[w].row
    <3>1. row \in Columns /\ task[w].id \in Employees
      BY <2>3, LoginSaveStep
    <3>2. Limited(Succeeded(row)) /\ Limited(Failed(row))
      <4>1. Limited(row)
        BY DEF LockInv
      <4>2. row.attempts \in Nat /\ ~(0 >= MaxAttempts) /\ MaxAttempts \in Nat
        BY <3>1, BoundsAssumption DEF Columns
      <4> QED
        BY <3>1, <4>1, <4>2, RowsOfLogin DEF Limited
    <3>3. \/ credentials' = credentials
          \/ credentials' = [credentials EXCEPT ![task[w].id] = Succeeded(row)]
          \/ credentials' = [credentials EXCEPT ![task[w].id] = Failed(row)]
      BY <2>3, LoginSaveStep
    <3> HIDE DEF row
    <3> QED
      BY <3>1, <3>2, <3>3 DEF LockInv, TypeInv
  <2>4. ASSUME NEW w \in Workers, GoogleCredentials(w) PROVE Limited(credentials'[e])
    <3>1. \/ credentials' = credentials
          \/ credentials' = [credentials EXCEPT ![task[w].id] = task[w].row]
      BY <2>4, GoogleCredentialsStep DEF SaveCredentials
    <3> QED
      BY <3>1 DEF LockInv, TypeInv
  <2>5. ASSUME NEW w \in Workers, InsertCredentials(w) PROVE Limited(credentials'[e])
    <3>1. \/ credentials' = credentials
          \/ \E v \in BOOLEAN : credentials' = [credentials EXCEPT ![task[w].id] = NewCredentials(v)]
      BY <2>5, InsertCredentialsStep
    <3> QED
      BY <3>1, NewLimited DEF LockInv, TypeInv
  <2>6. ASSUME NEW f \in Employees, LockExpires(f) \/ LinkExpires(f) PROVE Limited(credentials'[e])
    <3>1. credentials[f] \in Columns /\ credentials[e] \in Columns
      BY DEF TypeInv
    <3>2. Limited([credentials[f] EXCEPT !.lock = "past"])
      BY <3>1 DEF Limited, Columns
    <3>3. Limited([credentials[f] EXCEPT !.age = "past"])
      BY <3>1 DEF LockInv, Limited, Columns
    <3> QED
      BY <2>6, <3>2, <3>3 DEF LockExpires, LinkExpires, LockInv, TypeInv
  <2> QED
    BY <2>1, <2>2, <2>3, <2>4, <2>5, <2>6, CredentialsFrame DEF CredentialsStep
<1> QED
  BY <1>1, <1>2 DEF LockInv

LEMMA InitLocks == Init => LockInv
BY NewLimited DEF Init, LockInv

\* However many logins overlap on the same account, each with its own copy of the
\* row, an account whose counter has reached the limit is or was locked
\* (auth.service.ts, validateEmployee).
THEOREM LimitLocks == Spec => []AtLimitIsLocked
<1>1. Init => TypeInv /\ LockInv
  BY InitTyped, InitLocks
<1>2. TypeInv /\ LockInv /\ [Next]_vars => TypeInv' /\ LockInv'
  <2> SUFFICES ASSUME TypeInv, LockInv, [Next]_vars PROVE TypeInv' /\ LockInv'
    OBVIOUS
  <2>1. CASE Next
    BY <2>1, NextSteps, StoreTyped, LockStep
  <2>2. CASE UNCHANGED vars
    BY <2>2, StutterTyped DEF LockInv, vars
  <2> QED
    BY <2>1, <2>2
<1>3. LockInv => AtLimitIsLocked
  BY DEF LockInv, Limited, AtLimitIsLocked, Live
<1> QED
  BY <1>1, <1>2, <1>3, PTL DEF Spec

-----------------------------------------------------------------------------
(* Creations.                                                              *)

\* A row that is half created has a request that is about to complete it.
CreatedInv ==
  ~Asked({"Google"}) =>
    /\ \A e \in Employees : employee[e] = "bare" =>
         \E w \in Workers : At(w, "insertCredentials") /\ task[w].id = e
    /\ \A s \in Suppliers : supplier[s] = "bare" =>
         \E w \in Workers : At(w, "insertSubscription") /\ task[w].arg = s

\* A request waits at its second insert until it makes it.
LEMMA InsertWaits ==
  ASSUME TypeInv, StoreStep, NEW w \in Workers,
         task[w].pc \in {"insertCredentials", "insertSubscription"}
  PROVE  \/ task'[w] = task[w]
         \/ InsertCredentials(w) \/ InsertSubscription(w)
<1> SUFFICES ASSUME ~InsertCredentials(w), ~InsertSubscription(w) PROVE task'[w] = task[w]
  OBVIOUS
<1>0. ASSUME NEW v \in Workers, v # w, NEW u \in Tasks, Become(v, u) PROVE task'[w] = task[w]
  BY <1>0, BecomeTyped
<1>1. ASSUME NEW v \in Workers,
             LoginSave(v) \/ GoogleInsert(v) \/ GoogleSave(v) \/ MailLink(v) \/ CompensateSupplier(v)
      PROVE  task'[w] = task[w]
  <2>1. Become(v, Idle) /\ v # w
    BY <1>1 DEF LoginSave, GoogleInsert, GoogleSave, MailLink, CompensateSupplier, Throw, At
  <2> QED
    BY <1>0, <2>1, NewTyped
<1>2. ASSUME NEW v \in Workers,
             Run(v) \/ GoogleCredentials(v) \/ InsertEmployee(v)
      PROVE  task'[w] = task[w]
  <2>1. v # w
    BY <1>2 DEF Run, GoogleCredentials, InsertEmployee, At
  <2>2. \E u \in Tasks : Become(v, u)
    BY <1>2, RunStep, GoogleCredentialsStep, InsertEmployeeStep DEF GoesOn
  <2> QED
    BY <1>0, <2>1, <2>2
<1>3. ASSUME NEW v \in Workers, InsertCredentials(v) \/ InsertSubscription(v)
      PROVE  task'[w] = task[w]
  <2>1. v # w
    BY <1>3
  <2>2. \E u \in Tasks : Become(v, u)
    BY <1>3, InsertCredentialsStep, InsertSubscriptionStep DEF GoesOn
  <2> QED
    BY <1>0, <2>1, <2>2
<1>4. ASSUME NEW v \in Workers, Quiet(v) PROVE task'[w] = task[w]
  <2>1. v # w
    BY <1>4 DEF Quiet, At
  <2> QED
    BY <1>0, <1>4, <2>1 DEF Quiet
<1>5. ASSUME NEW v \in Workers, NEW u \in Tasks, NEW op, Begins(v, u, op) PROVE task'[w] = task[w]
  <2>1. v # w
    BY <1>5 DEF Begins, Accepts, At
  <2> QED
    BY <1>0, <1>5, <2>1 DEF Begins
<1>6. ASSUME \E v \in Workers, e \in Employees, code \in OtpCodes :
               VerifySmsPublic(v, e, code) \/ VerifyEmailPublic(v, e, code)
      PROVE  task'[w] = task[w]
  BY <1>5, <1>6, VerifySmsPublicStep, VerifyEmailPublicStep
<1>7. ASSUME \E v \in Workers, e \in Employees, l \in Links : FollowLink(v, e, l)
      PROVE  task'[w] = task[w]
  BY <1>5, <1>7, FollowLinkStep
<1>8. ASSUME \E v \in Workers, s \in Suppliers, e \in Employees : CreateSupplier(v, s, e)
      PROVE  task'[w] = task[w]
  BY <1>5, <1>8, CreateSupplierStep
<1>9. ASSUME \/ \E e \in Employees : LockExpires(e) \/ LinkExpires(e)
             \/ \E k \in Keys : Expire(k)
             \/ \E v \in Workers, e \in Employees : RemoveEmployee(v, e)
             \/ \E v \in Workers, s \in Suppliers : RemoveSupplier(v, s)
      PROVE  task'[w] = task[w]
  BY <1>9 DEF LockExpires, LinkExpires, Expire, RemoveEmployee, RemoveSupplier
<1> QED
  BY <1>1, <1>2, <1>3, <1>4, <1>6, <1>7, <1>8, <1>9, Zenon DEF StoreStep

LEMMA NoGoogle ==
  ASSUME TypeInv, OpsInv, ~Asked({"Google"}), NEW w \in Workers
  PROVE  task[w].op # "Google" /\ ~GoogleInsert(w) /\ ~GoogleSave(w) /\ ~GoogleCredentials(w)
<1>1. task[w].op # "Google"
  BY DEF OpsInv, Asked
<1>2. task[w].pc \notin {"googleInsert", "googleSave", "googleCredentials"}
  BY <1>1 DEF TypeInv, Tasks, Reaches
<1> QED
  BY <1>1, <1>2 DEF GoogleInsert, GoogleSave, GoogleCredentials, At

LEMMA EmployeesCreated ==
  ASSUME TypeInv, StoreStep, OpsInv, CreatedInv, ~Asked({"Google"}),
         NEW e \in Employees, employee'[e] = "bare"
  PROVE  \E w \in Workers : task'[w].pc = "insertCredentials" /\ task'[w].id = e
<1>1. CASE employee[e] = "bare"
  <2>1. PICK w \in Workers : task[w].pc = "insertCredentials" /\ task[w].id = e
    BY <1>1 DEF CreatedInv, At
  <2>2. ~InsertSubscription(w)
    BY <2>1 DEF InsertSubscription, At
  <2>3. ~InsertCredentials(w)
    <3> SUFFICES ASSUME InsertCredentials(w) PROVE FALSE
      OBVIOUS
    <3>1. employee' = [employee EXCEPT ![e] = "live"]
      BY <1>1, <2>1, InsertCredentialsStep
    <3> QED
      BY <3>1 DEF TypeInv
  <2> QED
    BY <2>1, <2>2, <2>3, InsertWaits
<1>2. CASE employee[e] # "bare"
  <2>1. ASSUME NEW w \in Workers, InsertEmployee(w)
        PROVE  \E v \in Workers : task'[v].pc = "insertCredentials" /\ task'[v].id = e
    <3>1. PICK u \in Tasks :
            /\ Become(w, u)
            /\ \/ /\ u.pc = "insertCredentials" /\ u.id = task[w].id
                  /\ employee' = [employee EXCEPT ![task[w].id] = "bare"]
               \/ employee' = employee
      BY <2>1, InsertEmployeeStep DEF GoesOn
    <3>2. u.pc = "insertCredentials" /\ u.id = e
      BY <1>2, <3>1 DEF TypeInv
    <3>3. task'[w] = u
      BY <3>1, BecomeTyped
    <3> QED
      BY <3>2, <3>3
  <2>2. ASSUME NEW w \in Workers, InsertCredentials(w) PROVE FALSE
    BY <1>2, <2>2, InsertCredentialsStep DEF TypeInv
  <2>3. ASSUME NEW w \in Workers, NEW f \in Employees, RemoveEmployee(w, f) PROVE FALSE
    BY <1>2, <2>3 DEF RemoveEmployee, DeleteRow, TypeInv
  <2> QED
    BY <1>2, <2>1, <2>2, <2>3, NoGoogle, EmployeeFrame DEF EmployeeStep
<1> QED
  BY <1>1, <1>2

SupplierStep ==
  \/ \E w \in Workers : InsertSubscription(w) \/ CompensateSupplier(w)
  \/ \E w \in Workers, s \in Suppliers, e \in Employees : CreateSupplier(w, s, e)
  \/ \E w \in Workers, s \in Suppliers : RemoveSupplier(w, s)

LEMMA SupplierFrame ==
  ASSUME TypeInv, StoreStep, ~SupplierStep
  PROVE  supplier' = supplier
<1>1. ASSUME NEW w \in Workers,
             \/ Quiet(w) \/ Run(w) \/ LoginSave(w) \/ GoogleCredentials(w) \/ MailLink(w)
             \/ GoogleInsert(w) \/ GoogleSave(w) \/ InsertEmployee(w) \/ InsertCredentials(w)
      PROVE  supplier' = supplier
  BY <1>1 DEF Quiet, Run, LoginSave, GoogleCredentials, MailLink, GoogleInsert, GoogleSave,
              InsertEmployee, InsertCredentials, store
<1>2. ASSUME \/ \E k \in Keys : Expire(k)
             \/ \E e \in Employees : LockExpires(e) \/ LinkExpires(e)
             \/ \E w \in Workers, e \in Employees, code \in OtpCodes :
                  VerifySmsPublic(w, e, code) \/ VerifyEmailPublic(w, e, code)
             \/ \E w \in Workers, e \in Employees, l \in Links : FollowLink(w, e, l)
             \/ \E w \in Workers, e \in Employees : RemoveEmployee(w, e)
      PROVE  supplier' = supplier
  BY <1>2 DEF Expire, LockExpires, LinkExpires, VerifySmsPublic, VerifyEmailPublic, FollowLink,
              RemoveEmployee, store
<1> QED
  BY <1>1, <1>2, Zenon DEF StoreStep, SupplierStep

LEMMA SuppliersCreated ==
  ASSUME TypeInv, StoreStep, OpsInv, CreatedInv, ~Asked({"Google"}),
         NEW s \in Suppliers, supplier'[s] = "bare"
  PROVE  \E w \in Workers : task'[w].pc = "insertSubscription" /\ task'[w].arg = s
<1>1. CASE supplier[s] = "bare"
  <2>1. PICK w \in Workers : task[w].pc = "insertSubscription" /\ task[w].arg = s
    BY <1>1 DEF CreatedInv, At
  <2>2. ~InsertCredentials(w)
    BY <2>1 DEF InsertCredentials, At
  <2>3. ~InsertSubscription(w)
    <3> SUFFICES ASSUME InsertSubscription(w) PROVE FALSE
      OBVIOUS
    <3>1. supplier' = [supplier EXCEPT ![s] = "live"]
      BY <1>1, <2>1, InsertSubscriptionStep
    <3> QED
      BY <3>1 DEF TypeInv
  <2> QED
    BY <2>1, <2>2, <2>3, InsertWaits
<1>2. CASE supplier[s] # "bare"
  <2>1. ASSUME NEW w \in Workers, NEW r \in Suppliers, NEW e \in Employees, CreateSupplier(w, r, e)
        PROVE  \E v \in Workers : task'[v].pc = "insertSubscription" /\ task'[v].arg = s
    <3>1. PICK u \in Tasks : /\ Begins(w, u, "CreateSupplier")
                             /\ u.pc = "insertSubscription" /\ u.arg = r
                             /\ supplier' = [supplier EXCEPT ![r] = "bare"]
      BY <2>1, CreateSupplierStep
    <3>2. Become(w, u)
      BY <3>1 DEF Begins
    <3>3. r = s
      BY <1>2, <3>1 DEF TypeInv
    <3>4. task'[w] = u
      BY <3>2, BecomeTyped
    <3> QED
      BY <3>1, <3>3, <3>4
  <2>2. ASSUME NEW w \in Workers, InsertSubscription(w) PROVE FALSE
    BY <1>2, <2>2, InsertSubscriptionStep DEF TypeInv
  <2>3. ASSUME NEW w \in Workers, CompensateSupplier(w) PROVE FALSE
    BY <1>2, <2>3 DEF CompensateSupplier, Removed, TypeInv
  <2>4. ASSUME NEW w \in Workers, NEW r \in Suppliers, RemoveSupplier(w, r) PROVE FALSE
    BY <1>2, <2>4 DEF RemoveSupplier, Removed, TypeInv
  <2> QED
    BY <1>2, <2>1, <2>2, <2>3, <2>4, SupplierFrame DEF SupplierStep
<1> QED
  BY <1>1, <1>2

LEMMA WorkloadStays ==
  ASSUME TypeInv, StoreStep
  PROVE  workload' = workload
<1>1. ASSUME NEW w \in Workers, NEW u \in Tasks, Become(w, u) PROVE workload' = workload
  BY <1>1, BecomeTyped
<1> QED
  BY <1>1, Turns DEF Turned

LEMMA CreatedStep ==
  ASSUME TypeInv, StoreStep, OpsInv, CreatedInv
  PROVE  CreatedInv'
BY EmployeesCreated, SuppliersCreated, WorkloadStays DEF CreatedInv, Asked, At

LEMMA InitOps ==
  ASSUME Init
  PROVE  OpsInv /\ AloneInv /\ CreatedInv
<1>1. \A w \in Workers : task[w] = Idle /\ Idle.op = "none" /\ Idle.pc = "idle"
  BY DEF Init, Idle
<1>2. (\A e \in Employees : employee[e] # "bare") /\ (\A s \in Suppliers : supplier[s] # "bare")
  BY DEF Init
<1> QED
  BY <1>1, <1>2 DEF OpsInv, AloneInv, CreatedInv, At

\* The invariants that the rest is built on.
BaseInv == TypeInv /\ OpsInv /\ AloneInv

LEMMA BaseStep ==
  ASSUME BaseInv, [Next]_vars
  PROVE  BaseInv' /\ (StoreStep \/ UNCHANGED vars)
<1>1. CASE Next
  BY <1>1, NextSteps, StoreTyped, OpsStep DEF BaseInv
<1>2. CASE UNCHANGED vars
  BY <1>2, StutterTyped DEF BaseInv, OpsInv, AloneInv, Serial, At, vars
<1> QED
  BY <1>1, <1>2

\* Whatever creations, removals and compensations overlap, at rest no employee
\* lacks its credentials and no supplier its subscription
\* (employee.repository.ts, create; supplier.service.ts, create).
THEOREM NothingStaysHalfCreated == Spec => []NothingHalfCreated
<1>1. Init => BaseInv /\ CreatedInv
  BY InitTyped, InitOps DEF BaseInv
<1>2. BaseInv /\ CreatedInv /\ [Next]_vars => BaseInv' /\ CreatedInv'
  <2> SUFFICES ASSUME BaseInv, CreatedInv, [Next]_vars PROVE BaseInv' /\ CreatedInv'
    OBVIOUS
  <2>1. BaseInv' /\ (StoreStep \/ UNCHANGED vars)
    BY BaseStep
  <2>2. CASE UNCHANGED vars
    BY <2>1, <2>2 DEF CreatedInv, Asked, At, vars
  <2>3. CASE StoreStep
    BY <2>1, <2>3, CreatedStep DEF BaseInv
  <2> QED
    BY <2>1, <2>2, <2>3
<1>3. BaseInv /\ CreatedInv => NothingHalfCreated
  BY DEF CreatedInv, NothingHalfCreated, AtRest, At
<1> QED
  BY <1>1, <1>2, <1>3, PTL DEF Spec

-----------------------------------------------------------------------------
(* Serial workloads: while a request is under way, nothing else happens to *)
(* the accounts than that locks and links expire.                          *)

\* The columns that do not expire.
Kept(old, new) ==
  /\ new.password = old.password /\ new.attempts = old.attempts
  /\ new.secret = old.secret /\ new.enabled = old.enabled /\ new.backup = old.backup
  /\ new.link = old.link /\ new.verified = old.verified

LEMMA ExpiryKeeps ==
  ASSUME TypeInv, NEW e \in Employees, LockExpires(e) \/ LinkExpires(e), NEW f \in Employees
  PROVE  Kept(credentials[f], credentials'[f])
<1>1. credentials[e] \in Columns /\ credentials[f] \in Columns
  BY DEF TypeInv
<1>2. Kept(credentials[e], [credentials[e] EXCEPT !.lock = "past"])
  BY <1>1 DEF Kept, Columns
<1>3. Kept(credentials[e], [credentials[e] EXCEPT !.age = "past"])
  BY <1>1 DEF Kept, Columns
<1>4. credentials'[f] = credentials[f] \/ (f = e /\ Kept(credentials[e], credentials'[e]))
  BY <1>2, <1>3 DEF LockExpires, LinkExpires, TypeInv
<1> QED
  BY <1>4 DEF Kept

Acts(w) ==
  \/ Run(w) \/ LoginSave(w) \/ GoogleInsert(w) \/ GoogleCredentials(w) \/ GoogleSave(w)
  \/ MailLink(w) \/ InsertEmployee(w) \/ InsertCredentials(w)

LEMMA Resting ==
  ASSUME NEW w \in Workers, At(w, "idle")
  PROVE  ~Acts(w)
BY DEF Acts, At, Run, LoginSave, GoogleInsert, GoogleCredentials, GoogleSave, MailLink,
       InsertEmployee, InsertCredentials

LEMMA HeldAlone ==
  ASSUME TypeInv, AloneInv, Serial, StoreStep, NEW w \in Workers, ~At(w, "idle"), ~Acts(w)
  PROVE  /\ employee' = employee /\ audit' = audit
         /\ \A e \in Employees : Kept(credentials[e], credentials'[e])
<1>1. \A v \in Workers : ~Acts(v)
  BY Resting DEF AloneInv
<1>2. \A v \in Workers : \A op : ~Accepts(v, op)
  BY AcceptedAlone
<1>3. \A v \in Workers, e \in Employees : ~RemoveEmployee(v, e)
  BY <1>2 DEF RemoveEmployee
<1>4. employee' = employee
  BY <1>1, <1>3, EmployeeFrame DEF EmployeeStep, Acts
<1>5. ~AuditStep
  <2>1. \A v \in Workers, e \in Employees, code \in OtpCodes :
          ~VerifySmsPublic(v, e, code) /\ ~VerifyEmailPublic(v, e, code)
    BY <1>2 DEF VerifySmsPublic, VerifyEmailPublic
  <2>2. \A v \in Workers, e \in Employees, l \in Links : ~FollowLink(v, e, l)
    BY <1>2 DEF FollowLink
  <2> QED
    BY <1>1, <2>1, <2>2 DEF AuditStep, Acts
<1>6. ASSUME NEW e \in Employees PROVE Kept(credentials[e], credentials'[e])
  <2>1. credentials' = credentials \/ \E f \in Employees : LockExpires(f) \/ LinkExpires(f)
    BY <1>1, CredentialsFrame DEF CredentialsStep, Acts
  <2>2. CASE credentials' = credentials
    BY <2>2 DEF Kept
  <2> QED
    BY <2>1, <2>2, ExpiryKeeps
<1> QED
  BY <1>4, <1>5, <1>6, AuditFrame

LEMMA IdleRests == Idle.op = "none" /\ Idle.pc = "idle"
BY DEF Idle

\* A login that holds a row has just read it, or goes on holding it.
LEMMA RowsHeld ==
  ASSUME TypeInv, StoreStep, NEW w \in Workers,
         task'[w].pc \in {"compare", "googleCredentials"}
  PROVE  \/ /\ UNCHANGED <<store, audit>>
            /\ task'[w].id \in Employees /\ task'[w].row = credentials[task'[w].id]
         \/ task'[w] = task[w] /\ ~At(w, "idle") /\ ~Acts(w)
<1>1. task'[w] \in Tasks
  <2>1. ASSUME NEW v \in Workers, NEW u \in Tasks, Become(v, u) PROVE task'[w] \in Tasks
    BY <2>1, BecomeTyped
  <2> QED
    BY <2>1, TasksMove DEF Moved, TypeInv
<1>2. CASE task'[w] = task[w]
  <2>1. ~At(w, "idle")
    BY <1>2 DEF At
  <2>2. ~Run(w) /\ ~GoogleInsert(w) /\ ~GoogleSave(w) /\ ~MailLink(w) /\ ~InsertEmployee(w)
        /\ ~InsertCredentials(w)
    BY <1>2 DEF Run, GoogleInsert, GoogleSave, MailLink, InsertEmployee, InsertCredentials, At
  <2>3. ~LoginSave(w)
    <3> SUFFICES ASSUME LoginSave(w) PROVE FALSE
      OBVIOUS
    <3>1. task'[w] = Idle
      BY LoginSaveStep, BecomeTyped, NewTyped
    <3> QED
      BY <3>1 DEF Idle
  <2>4. ~GoogleCredentials(w)
    <3> SUFFICES ASSUME GoogleCredentials(w) PROVE FALSE
      OBVIOUS
    <3>1. PICK u \in Tasks : GoesOn(w, u)
      BY GoogleCredentialsStep
    <3>2. task'[w] = u
      BY <3>1, BecomeTyped DEF GoesOn
    <3>3. u.pc \notin {"compare", "googleCredentials"}
      BY <3>1, IdleRests DEF GoesOn
    <3> QED
      BY <3>2, <3>3
  <2> QED
    BY <1>2, <2>1, <2>2, <2>3, <2>4 DEF Acts
<1>3. ASSUME NEW u \in Tasks, Become(w, u), Moves(w, u), task'[w] # task[w]
      PROVE  /\ UNCHANGED <<store, audit>>
             /\ u.id \in Employees /\ u.row = credentials[u.id]
  <2>1. u.pc \in {"compare", "googleCredentials"}
    BY <1>3, BecomeTyped
  <2>2. u.op \in {"Login", "Google"} /\ u.id \in Employees /\ u # Idle
    BY <2>1, IdleRests DEF Tasks, Reaches
  <2>3. ~QuietGoesOn(w, u) /\ ~Starts(w, u) /\ ~Carried(w, u)
    BY <2>1, <2>2 DEF QuietGoesOn, Starts, Carried
  <2> QED
    BY <1>3, <2>1, <2>2, <2>3 DEF Moves, QuietStart
<1>4. ASSUME task'[w] # task[w]
      PROVE  \E u \in Tasks : Become(w, u) /\ Moves(w, u) /\ task'[w] = u
  <2>1. PICK v \in Workers, u \in Tasks : Become(v, u) /\ Moves(v, u)
    BY <1>4, TasksMove DEF Moved
  <2>2. v = w /\ task'[w] = u
    BY <1>4, <2>1, BecomeTyped
  <2> QED
    BY <2>1, <2>2
<1> QED
  BY <1>2, <1>3, <1>4

-----------------------------------------------------------------------------
(* What the employees did and were told.                                   *)

SameHistory(old, new) ==
  new.password = old.password /\ new.spent = old.spent /\ new.failures = old.failures

\* What an update leaves in the row of each employee and what is told of it.
LEMMA RunTells ==
  ASSUME TypeInv, NEW w \in Workers, Run(w), NEW e \in Employees
  PROVE  LET cmd == task[w].todo[1]
         IN  \/ credentials'[e] = credentials[e] /\ audit'[e] = audit[e]
             \/ /\ cmd.do = "update" /\ cmd.set \in Settings
                /\ e \in WithCredentials(cmd.id) /\ employee[e] = "live"
                /\ \A c \in DOMAIN credentials[e] :
                     credentials'[e][c] = IF c \in DOMAIN cmd.set THEN cmd.set[c] ELSE credentials[e][c]
                /\ audit'[e].password = IF "password" \in DOMAIN cmd.set THEN cmd.set.password
                                        ELSE audit[e].password
                /\ audit'[e].spent = IF task[w].op = "UseBackupCode"
                                     THEN Counted(audit[e].spent, task[w].arg) ELSE audit[e].spent
                /\ audit'[e].failures = audit[e].failures
                /\ audit'[e].proved = audit[e].proved /\ audit'[e].mailed = audit[e].mailed
<1> DEFINE cmd == task[w].todo[1]
           r == audit[e]
           p == IF "password" \in DOMAIN cmd.set THEN cmd.set.password ELSE r.password
           s == IF task[w].op = "UseBackupCode" THEN Counted(r.spent, task[w].arg) ELSE r.spent
<1>1. /\ cmd \in Commands
      /\ \/ /\ cmd.do = "update" /\ credentials' = AfterUpdate(cmd.id, cmd.set)
            /\ audit' = [f \in Employees |->
                 IF f \in WithCredentials(cmd.id) THEN Told(task[w], cmd, audit[f]) ELSE audit[f]]
         \/ UNCHANGED <<credentials, audit>>
  BY RunStep
<1>2. cmd.do = "update" => cmd.set \in Settings
  BY <1>1 DEF Commands
<1>3. credentials[e] \in Columns /\ r \in Audits
  BY DEF TypeInv
<1>4. Told(task[w], cmd, r) = [r EXCEPT !.password = p, !.spent = s]
  BY DEF Told
<1>5. LET t == [r EXCEPT !.password = p, !.spent = s]
      IN  /\ t.password = p /\ t.spent = s /\ t.failures = r.failures
          /\ t.proved = r.proved /\ t.mailed = r.mailed
  <2> HIDE DEF p, s, r
  <2> QED
    BY <1>3 DEF Audits
<1>6. CASE UNCHANGED <<credentials, audit>>
  BY <1>6
<1>7. CASE /\ cmd.do = "update" /\ credentials' = AfterUpdate(cmd.id, cmd.set)
           /\ audit' = [f \in Employees |->
                IF f \in WithCredentials(cmd.id) THEN Told(task[w], cmd, audit[f]) ELSE audit[f]]
  <2>1. CASE e \notin WithCredentials(cmd.id)
    BY <1>7, <2>1 DEF AfterUpdate
  <2>2. CASE e \in WithCredentials(cmd.id)
    <3>1. audit'[e] = [r EXCEPT !.password = p, !.spent = s]
      BY <1>4, <1>7, <2>2
    <3>2. credentials'[e] = Written(credentials[e], cmd.set) /\ employee[e] = "live"
      BY <1>7, <2>2 DEF AfterUpdate, WithCredentials
    <3>3. \A c \in DOMAIN credentials[e] :
            credentials'[e][c] = IF c \in DOMAIN cmd.set THEN cmd.set[c] ELSE credentials[e][c]
      BY <1>3, <3>2, WrittenColumn
    <3>4. /\ audit'[e].password = p /\ audit'[e].spent = s /\ audit'[e].failures = r.failures
          /\ audit'[e].proved = r.proved /\ audit'[e].mailed = r.mailed
      BY <1>5, <3>1
    <3> QED
      BY <1>2, <1>7, <2>2, <3>2, <3>3, <3>4
  <2> QED
    BY <2>1, <2>2
<1> QED
  BY <1>1, <1>6, <1>7

\* Only updates and logins make this history.
LEMMA HistoryKept ==
  ASSUME TypeInv, StoreStep, \A w \in Workers : ~Run(w) /\ ~LoginSave(w), NEW e \in Employees
  PROVE  SameHistory(audit[e], audit'[e])
<1>1. audit[e] \in Audits
  BY DEF TypeInv
<1>2. CASE audit' = audit
  BY <1>2 DEF SameHistory
<1>3. ASSUME NEW f \in Employees, NEW v, audit' = [audit EXCEPT ![f].proved = v]
      PROVE  SameHistory(audit[e], audit'[e])
  BY <1>1, <1>3 DEF SameHistory, TypeInv, Audits
<1>4. ASSUME NEW w \in Workers, MailLink(w) PROVE SameHistory(audit[e], audit'[e])
  <2>1. PICK sent : audit' = [audit EXCEPT ![task[w].id].mailed = @ \cup sent]
    BY <1>4 DEF MailLink
  <2> QED
    BY <1>1, <2>1 DEF SameHistory, TypeInv, Audits
<1>5. ASSUME NEW w \in Workers, NEW f \in Employees, NEW code \in OtpCodes,
             VerifySmsPublic(w, f, code) \/ VerifyEmailPublic(w, f, code)
      PROVE  SameHistory(audit[e], audit'[e])
  BY <1>3, <1>5 DEF VerifySmsPublic, VerifyEmailPublic, Proves
<1>6. ASSUME NEW w \in Workers, NEW f \in Employees, NEW l \in Links, FollowLink(w, f, l)
      PROVE  SameHistory(audit[e], audit'[e])
  BY <1>3, <1>6 DEF FollowLink
<1> QED
  BY <1>2, <1>4, <1>5, <1>6, AuditFrame DEF AuditStep

LEMMA HistoryOfOthers ==
  ASSUME TypeInv, StoreStep, NEW e \in Employees, employee[e] # "live"
  PROVE  SameHistory(audit[e], audit'[e])
<1>1. ASSUME NEW w \in Workers, Run(w) PROVE SameHistory(audit[e], audit'[e])
  BY <1>1, RunTells DEF SameHistory
<1>2. ASSUME NEW w \in Workers, LoginSave(w) PROVE SameHistory(audit[e], audit'[e])
  <2>1. \/ audit' = audit
        \/ /\ employee[task[w].id] = "live"
           /\ \E n : audit' = [audit EXCEPT ![task[w].id].failures = n]
    BY <1>2, LoginSaveStep
  <2> QED
    BY <2>1 DEF SameHistory, TypeInv
<1> QED
  BY <1>1, <1>2, HistoryKept

-----------------------------------------------------------------------------
(* New employees.                                                          *)

Tame == Serial \/ ~Asked({"Google"})

NewInv ==
  Tame =>
    /\ \A e \in Employees : employee[e] \in {"unused", "bare"} =>
         /\ audit[e].password = "old" /\ audit[e].failures = 0
         /\ \A c \in BackupCodes : audit[e].spent[c] = 0
    /\ \A w \in Workers : At(w, "googleSave") => employee[task[w].id] # "deleted"

\* A deleted employee does not come back.
LEMMA StaysDeleted ==
  ASSUME TypeInv, StoreStep, OpsInv, Tame, NewInv, NEW e \in Employees,
         employee'[e] \in {"unused", "bare"}
  PROVE  employee[e] \in {"unused", "bare"}
<1>1. CASE employee' = employee
  BY <1>1
<1>2. ASSUME NEW w \in Workers, GoogleInsert(w) \/ GoogleSave(w)
      PROVE  employee[e] \in {"unused", "bare"}
  BY <1>2 DEF GoogleInsert, GoogleSave, NewInv, TypeInv
<1>3. ASSUME NEW w \in Workers, InsertEmployee(w) \/ InsertCredentials(w)
      PROVE  employee[e] \in {"unused", "bare"}
  BY <1>3, InsertEmployeeStep, InsertCredentialsStep DEF TypeInv
<1>4. ASSUME NEW w \in Workers, NEW f \in Employees, RemoveEmployee(w, f)
      PROVE  employee[e] \in {"unused", "bare"}
  BY <1>4 DEF RemoveEmployee, DeleteRow, TypeInv
<1> QED
  BY <1>1, <1>2, <1>3, <1>4, EmployeeFrame DEF EmployeeStep

LEMMA NewStep ==
  ASSUME BaseInv, StoreStep, NewInv
  PROVE  NewInv'
<1> USE DEF BaseInv
<1> SUFFICES ASSUME Tame PROVE NewInv'
  BY WorkloadStays DEF NewInv, Tame, Serial, Asked
<1>1. ASSUME NEW e \in Employees, employee'[e] \in {"unused", "bare"}
      PROVE  /\ audit'[e].password = "old" /\ audit'[e].failures = 0
             /\ \A c \in BackupCodes : audit'[e].spent[c] = 0
  <2>1. employee[e] \in {"unused", "bare"}
    BY <1>1, StaysDeleted
  <2>2. SameHistory(audit[e], audit'[e])
    BY <2>1, HistoryOfOthers
  <2> QED
    BY <2>1, <2>2 DEF SameHistory, NewInv
<1>2. ASSUME NEW w \in Workers, task'[w].pc = "googleSave"
      PROVE  employee'[task'[w].id] # "deleted"
  <2>1. CASE task'[w] = task[w] /\ ~Acts(w)
    <3>1. Serial
      BY <1>2, <2>1, NoGoogle DEF Tame, TypeInv, Tasks, Reaches
    <3>2. employee' = employee
      BY <1>2, <2>1, <3>1, HeldAlone DEF At
    <3> QED
      BY <1>2, <2>1, <3>2 DEF NewInv, At
  <2>2. ASSUME NEW u \in Tasks, Become(w, u), u.pc = "googleSave", GoogleCredentials(w)
        PROVE  employee'[u.id] # "deleted"
    <3>1. PICK v \in Tasks : /\ GoesOn(w, v)
                             /\ v.pc = "googleSave" => employee[task[w].id] = "live" /\ v.id = task[w].id
      BY <2>2, GoogleCredentialsStep
    <3>2. v = u
      BY <2>2, <3>1, BecomeTyped DEF GoesOn
    <3>3. employee' = employee
      BY <2>2, GoogleCredentialsStep
    <3> QED
      BY <2>2, <3>1, <3>2, <3>3
  <2>3. ASSUME NEW u \in Tasks, Become(w, u), Moves(w, u), u.pc = "googleSave"
        PROVE  GoogleCredentials(w)
    <3>1. u.op = "Google" /\ u # Idle
      BY <2>3, IdleRests DEF Tasks, Reaches
    <3> QED
      BY <2>3, <3>1 DEF Moves, QuietStart, QuietGoesOn, Starts, Carried
  <2>4. CASE task'[w] # task[w]
    <3>1. PICK v \in Workers, u \in Tasks : Become(v, u) /\ Moves(v, u)
      BY <2>4, TasksMove DEF Moved
    <3>2. v = w /\ task'[w] = u
      BY <2>4, <3>1, BecomeTyped
    <3> QED
      BY <1>2, <2>2, <2>3, <3>1, <3>2
  <2>5. CASE task'[w] = task[w] /\ Acts(w)
    <3>1. GoogleSave(w)
      BY <1>2, <2>5 DEF Acts, Run, LoginSave, GoogleInsert, GoogleCredentials, MailLink,
                        InsertEmployee, InsertCredentials, At
    <3>2. task'[w] = Idle
      BY <3>1, BecomeTyped, NewTyped DEF GoogleSave, Throw
    <3> QED
      BY <1>2, <3>2, IdleRests
  <2> QED
    BY <2>1, <2>2, <2>4, <2>5
<1> QED
  BY <1>1, <1>2 DEF NewInv, At

LEMMA InitNew == Init => NewInv
BY IdleRests DEF Init, NewInv, At

\* An employee is live because it was, or because its credentials were inserted.
LEMMA BecomesLive ==
  ASSUME TypeInv, StoreStep, NEW e \in Employees, employee'[e] = "live"
  PROVE  \/ employee[e] = "live"
         \/ \E w \in Workers : /\ InsertCredentials(w) /\ task[w].id = e /\ employee[e] = "bare"
                              /\ credentials'[e] = NewCredentials(task[w].op = "CreatePublic")
<1>1. CASE employee' = employee
  BY <1>1
<1>2. ASSUME NEW w \in Workers, InsertCredentials(w), employee[e] # "live"
      PROVE  /\ task[w].id = e /\ employee[e] = "bare"
             /\ credentials'[e] = NewCredentials(task[w].op = "CreatePublic")
  BY <1>2, InsertCredentialsStep DEF TypeInv
<1>3. ASSUME NEW w \in Workers, GoogleInsert(w) \/ GoogleSave(w) \/ InsertEmployee(w)
      PROVE  employee[e] = "live"
  BY <1>3, InsertEmployeeStep DEF GoogleInsert, GoogleSave, TypeInv
<1>4. ASSUME NEW w \in Workers, NEW f \in Employees, RemoveEmployee(w, f)
      PROVE  employee[e] = "live"
  BY <1>4 DEF RemoveEmployee, DeleteRow, TypeInv
<1> QED
  BY <1>1, <1>2, <1>3, <1>4, EmployeeFrame DEF EmployeeStep

\* The row of a live employee, other than by an update.
LEMMA LiveRow ==
  ASSUME TypeInv, StoreStep, NEW e \in Employees, employee[e] = "live",
         \A w \in Workers : ~Run(w)
  PROVE  \/ Kept(credentials[e], credentials'[e]) /\ SameHistory(audit[e], audit'[e])
         \/ \E w \in Workers :
              /\ LoginSave(w) /\ task[w].id = e
              /\ \/ /\ credentials'[e] = Succeeded(task[w].row) /\ audit'[e].failures = 0
                 \/ /\ credentials'[e] = Failed(task[w].row)
                    /\ audit'[e].failures = audit[e].failures + 1
              /\ audit'[e].password = audit[e].password /\ audit'[e].spent = audit[e].spent
         \/ \E w \in Workers : /\ GoogleCredentials(w) /\ task[w].id = e
                              /\ credentials'[e] = task[w].row
                              /\ SameHistory(audit[e], audit'[e])
<1>0. audit[e] \in Audits
  BY DEF TypeInv
<1>1. ASSUME NEW w \in Workers, LoginSave(w), ~(UNCHANGED <<credentials, audit>>), task[w].id = e
      PROVE  /\ \/ /\ credentials'[e] = Succeeded(task[w].row) /\ audit'[e].failures = 0
                \/ /\ credentials'[e] = Failed(task[w].row)
                   /\ audit'[e].failures = audit[e].failures + 1
             /\ audit'[e].password = audit[e].password /\ audit'[e].spent = audit[e].spent
  <2>1. ASSUME NEW n, audit' = [audit EXCEPT ![e].failures = n]
        PROVE  /\ audit'[e].failures = n
               /\ audit'[e].password = audit[e].password /\ audit'[e].spent = audit[e].spent
    BY <1>0, <2>1 DEF TypeInv, Audits
  <2>2. CASE /\ credentials' = [credentials EXCEPT ![e] = Succeeded(task[w].row)]
             /\ audit' = [audit EXCEPT ![e].failures = 0]
    BY <2>1, <2>2 DEF TypeInv
  <2>3. CASE /\ credentials' = [credentials EXCEPT ![e] = Failed(task[w].row)]
             /\ audit' = [audit EXCEPT ![e].failures = audit[e].failures + 1]
    BY <2>1, <2>3 DEF TypeInv
  <2> QED
    BY <1>1, <2>2, <2>3, LoginSaveStep
<1>2. ASSUME NEW w \in Workers, LoginSave(w), task[w].id # e \/ UNCHANGED <<credentials, audit>>
      PROVE  credentials'[e] = credentials[e] /\ audit'[e] = audit[e]
  <2>1. CASE UNCHANGED <<credentials, audit>>
    BY <2>1
  <2>2. ASSUME ~(UNCHANGED <<credentials, audit>>)
        PROVE  /\ \E r \in Columns : credentials' = [credentials EXCEPT ![task[w].id] = r]
               /\ \E n : audit' = [audit EXCEPT ![task[w].id].failures = n]
    BY <1>2, <2>2, LoginSaveStep, RowsOfLogin
  <2>3. CASE ~(UNCHANGED <<credentials, audit>>)
    BY <1>2, <2>2, <2>3 DEF TypeInv
  <2> QED
    BY <2>1, <2>3
<1>3. ASSUME \A w \in Workers : ~LoginSave(w) PROVE SameHistory(audit[e], audit'[e])
  BY <1>3, HistoryKept
<1>4. ASSUME NEW w \in Workers, GoogleCredentials(w)
      PROVE  credentials'[e] = credentials[e] \/ (task[w].id = e /\ credentials'[e] = task[w].row)
  BY <1>4, GoogleCredentialsStep DEF SaveCredentials, TypeInv
<1>5. ASSUME NEW w \in Workers, InsertCredentials(w) PROVE credentials'[e] = credentials[e]
  BY <1>5, InsertCredentialsStep DEF TypeInv
<1>6. CASE \E w \in Workers : LoginSave(w)
  BY <1>1, <1>2, <1>6 DEF Kept, SameHistory
<1>7. CASE \A w \in Workers : ~LoginSave(w)
  <2>1. \/ Kept(credentials[e], credentials'[e])
        \/ \E w \in Workers : /\ GoogleCredentials(w) /\ task[w].id = e
                             /\ credentials'[e] = task[w].row
    BY <1>4, <1>5, <1>7, ExpiryKeeps, CredentialsFrame DEF CredentialsStep, Kept
  <2> QED
    BY <1>3, <1>7, <2>1
<1> QED
  BY <1>6, <1>7

-----------------------------------------------------------------------------
(* Passwords.                                                              *)

NoStalePassword == Serial \/ ~Asked({"Login", "Google"})

\* The rows that logins hold are as old as their passwords.
PasswordInv ==
  NoStalePassword =>
    /\ \A e \in Live : credentials[e].password = audit[e].password
    /\ \A w \in Workers : task[w].pc \in {"compare", "googleCredentials"} =>
         Serial /\ task[w].row.password = credentials[task[w].id].password

LEMMA NoRows ==
  ASSUME TypeInv, OpsInv, ~Asked({"Login", "Google"}), NEW w \in Workers
  PROVE  task[w].pc \notin {"compare", "googleCredentials"}
<1>1. task[w].op \notin {"Login", "Google"}
  BY DEF OpsInv, Asked
<1> QED
  BY <1>1 DEF TypeInv, Tasks, Reaches

LEMMA PasswordStep ==
  ASSUME BaseInv, StoreStep, NewInv, PasswordInv, BaseInv'
  PROVE  PasswordInv'
<1> USE DEF BaseInv
<1> SUFFICES ASSUME NoStalePassword PROVE PasswordInv'
  BY WorkloadStays DEF PasswordInv, NoStalePassword, Serial, Asked
<1>1. ASSUME NEW e \in Employees, employee'[e] = "live"
      PROVE  credentials'[e].password = audit'[e].password
  <2>0. credentials[e] \in Columns /\ "password" \in DOMAIN credentials[e]
    BY DEF TypeInv, Columns
  <2>1. CASE employee[e] # "live"
    <3>1. /\ employee[e] = "bare"
          /\ \E v \in BOOLEAN : credentials'[e] = NewCredentials(v)
      BY <1>1, <2>1, BecomesLive
    <3>2. audit'[e].password = "old"
      BY <2>1, <3>1, HistoryOfOthers DEF SameHistory, NewInv, Tame, NoStalePassword, Asked
    <3> QED
      BY <3>1, <3>2 DEF NewCredentials
  <2>2. ASSUME employee[e] = "live", NEW w \in Workers, Run(w)
        PROVE  credentials'[e].password = audit'[e].password
    <3>1. credentials[e].password = audit[e].password
      BY <2>2 DEF PasswordInv, Live
    <3> DEFINE set == task[w].todo[1].set
    <3>2. \/ credentials'[e] = credentials[e] /\ audit'[e] = audit[e]
          \/ /\ credentials'[e].password = IF "password" \in DOMAIN set THEN set.password
                                           ELSE credentials[e].password
             /\ audit'[e].password = IF "password" \in DOMAIN set THEN set.password
                                     ELSE audit[e].password
      BY <2>0, <2>2, RunTells
    <3> QED
      BY <3>1, <3>2
  <2>3. ASSUME employee[e] = "live", \A w \in Workers : ~Run(w)
        PROVE  credentials'[e].password = audit'[e].password
    <3>1. credentials[e].password = audit[e].password
      BY <2>3 DEF PasswordInv, Live
    <3>2. ASSUME NEW w \in Workers, LoginSave(w), task[w].id = e
          PROVE  /\ Succeeded(task[w].row).password = audit[e].password
                 /\ Failed(task[w].row).password = audit[e].password
      <4>1. task[w].row \in Columns /\ task[w].pc = "compare"
        BY <3>2, LoginSaveStep DEF At
      <4>2. task[w].row.password = credentials[e].password
        BY <3>2, <4>1 DEF PasswordInv
      <4> QED
        BY <3>1, <4>1, <4>2, RowsOfLogin
    <3>3. ASSUME NEW w \in Workers, GoogleCredentials(w), task[w].id = e
          PROVE  task[w].row.password = audit[e].password
      BY <3>1, <3>3, GoogleCredentialsStep DEF At, PasswordInv
    <3> QED
      BY <2>3, <3>1, <3>2, <3>3, LiveRow DEF Kept, SameHistory
  <2> QED
    BY <2>1, <2>2, <2>3
<1>2. ASSUME NEW w \in Workers, task'[w].pc \in {"compare", "googleCredentials"}
      PROVE  Serial /\ task'[w].row.password = credentials'[task'[w].id].password
  <2>1. Serial
    <3>1. CASE ~Asked({"Login", "Google"})
      <4>1. ~Asked({"Login", "Google"})'
        BY <3>1, WorkloadStays DEF Asked
      <4> QED
        BY <1>2, <4>1 DEF OpsInv, Asked, TypeInv, Tasks, Reaches
    <3> QED
      BY <3>1 DEF NoStalePassword
  <2>2. CASE /\ UNCHANGED <<store, audit>>
             /\ task'[w].id \in Employees /\ task'[w].row = credentials[task'[w].id]
    BY <2>1, <2>2 DEF store
  <2>3. CASE task'[w] = task[w] /\ ~At(w, "idle") /\ ~Acts(w)
    <3>1. task[w].id \in Employees
      BY <2>3 DEF TypeInv, Tasks, Reaches, At
    <3>2. Kept(credentials[task[w].id], credentials'[task[w].id])
      BY <2>1, <2>3, <3>1, HeldAlone
    <3>3. task[w].row.password = credentials[task[w].id].password
      BY <1>2, <2>3 DEF PasswordInv
    <3> QED
      BY <2>1, <2>3, <3>2, <3>3 DEF Kept
  <2> QED
    BY <1>2, <2>2, <2>3, RowsHeld
<1> QED
  BY <1>1, <1>2, WorkloadStays DEF PasswordInv, Live, Serial

-----------------------------------------------------------------------------
(* Wrong passwords.                                                        *)

Counting == Serial /\ ~Asked({"Google"})

FailInv ==
  Counting =>
    /\ \A e \in Live : credentials[e].attempts = audit[e].failures
    /\ \A w \in Workers : task[w].pc = "compare" =>
         task[w].row.attempts = credentials[task[w].id].attempts

LEMMA FailStep ==
  ASSUME BaseInv, StoreStep, NewInv, FailInv
  PROVE  FailInv'
<1> USE DEF BaseInv
<1> SUFFICES ASSUME Counting PROVE FailInv'
  BY WorkloadStays DEF FailInv, Counting, Serial, Asked
<1>1. ASSUME NEW e \in Employees, employee'[e] = "live"
      PROVE  credentials'[e].attempts = audit'[e].failures
  <2>0. /\ credentials[e] \in Columns /\ "attempts" \in DOMAIN credentials[e]
    BY DEF TypeInv, Columns
  <2>1. CASE employee[e] # "live"
    <3>1. /\ employee[e] = "bare"
          /\ \E v \in BOOLEAN : credentials'[e] = NewCredentials(v)
      BY <1>1, <2>1, BecomesLive
    <3>2. audit'[e].failures = 0
      BY <2>1, <3>1, HistoryOfOthers DEF SameHistory, NewInv, Tame, Counting
    <3> QED
      BY <3>1, <3>2 DEF NewCredentials
  <2>2. ASSUME employee[e] = "live", NEW w \in Workers, Run(w)
        PROVE  credentials'[e].attempts = audit'[e].failures
    <3>1. credentials[e].attempts = audit[e].failures
      BY <2>2 DEF FailInv, Live
    <3>2. \/ credentials'[e] = credentials[e] /\ audit'[e] = audit[e]
          \/ /\ credentials'[e].attempts = credentials[e].attempts
             /\ audit'[e].failures = audit[e].failures
      BY <2>0, <2>2, RunTells, LoginColumns
    <3> QED
      BY <3>1, <3>2
  <2>3. ASSUME employee[e] = "live", \A w \in Workers : ~Run(w)
        PROVE  credentials'[e].attempts = audit'[e].failures
    <3>1. credentials[e].attempts = audit[e].failures
      BY <2>3 DEF FailInv, Live
    <3>2. ASSUME NEW w \in Workers, LoginSave(w), task[w].id = e
          PROVE  /\ Succeeded(task[w].row).attempts = 0
                 /\ Failed(task[w].row).attempts = audit[e].failures + 1
      <4>1. task[w].row \in Columns /\ task[w].pc = "compare"
        BY <3>2, LoginSaveStep DEF At
      <4>2. task[w].row.attempts = credentials[e].attempts
        BY <3>2, <4>1 DEF FailInv
      <4> QED
        BY <3>1, <4>1, <4>2, RowsOfLogin
    <3>3. \A w \in Workers : ~GoogleCredentials(w)
      BY NoGoogle DEF Counting
    <3> QED
      BY <2>3, <3>1, <3>2, <3>3, LiveRow DEF Kept, SameHistory
  <2> QED
    BY <2>1, <2>2, <2>3
<1>2. ASSUME NEW w \in Workers, task'[w].pc = "compare"
      PROVE  task'[w].row.attempts = credentials'[task'[w].id].attempts
  <2>1. CASE /\ UNCHANGED <<store, audit>>
             /\ task'[w].id \in Employees /\ task'[w].row = credentials[task'[w].id]
    BY <2>1 DEF store
  <2>2. CASE task'[w] = task[w] /\ ~At(w, "idle") /\ ~Acts(w)
    <3>1. task[w].id \in Employees
      BY <2>2 DEF TypeInv, Tasks, Reaches, At
    <3>2. Kept(credentials[task[w].id], credentials'[task[w].id])
      BY <2>2, <3>1, HeldAlone DEF Counting
    <3>3. task[w].row.attempts = credentials[task[w].id].attempts
      BY <1>2, <2>2 DEF FailInv
    <3> QED
      BY <2>2, <3>2, <3>3 DEF Kept
  <2> QED
    BY <1>2, <2>1, <2>2, RowsHeld
<1> QED
  BY <1>1, <1>2 DEF FailInv, Live

-----------------------------------------------------------------------------
(* Secrets of authenticator apps.                                          *)

Complete(row) == row.enabled => row.secret # NoSecret

\* A request that enables the second factor does so for a row with a secret.
SecretInv ==
  Serial =>
    /\ \A e \in Live : Complete(credentials[e])
    /\ \A w \in Workers :
         /\ Complete(task[w].row)
         /\ task[w].op = "Enable" =>
              \A e \in WithCredentials(Undefined) : credentials[e].secret # NoSecret

LEMMA NewComplete == \A v \in BOOLEAN : Complete(NewCredentials(v)) /\ Complete(Idle.row)
BY DEF Complete, NewCredentials, Idle

\* What an update does to the second factor.
LEMMA RunSecrets ==
  ASSUME TypeInv, NEW w \in Workers, Run(w), NEW e \in Employees
  PROVE  \/ credentials'[e] = credentials[e]
         \/ /\ task[w].op # "Enable" \/ credentials'[e].secret \in Secrets \cup {credentials[e].secret}
            /\ \/ credentials'[e].enabled = FALSE
               \/ /\ credentials'[e].enabled = credentials[e].enabled
                  /\ credentials'[e].secret \in Secrets \cup {credentials[e].secret}
               \/ /\ task[w].op = "Enable" /\ e \in WithCredentials(Undefined)
                  /\ credentials'[e].secret = credentials[e].secret
<1> DEFINE cmd == task[w].todo[1]
           set == cmd.set
<1>1. Allows(task[w], cmd)
  BY RunStep
<1>2. /\ "enabled" \in DOMAIN set /\ set.enabled => task[w].op = "Enable" /\ cmd.id = Undefined
      /\ "enabled" \in DOMAIN set /\ ~set.enabled => task[w].op = "Disable"
  BY <1>1 DEF Allows
<1>3. "enabled" \in DOMAIN credentials[e] /\ "secret" \in DOMAIN credentials[e]
  BY DEF TypeInv, Columns
<1>4. CASE credentials'[e] # credentials[e]
  <2>1. /\ set \in Settings /\ e \in WithCredentials(cmd.id)
        /\ credentials'[e].secret = IF "secret" \in DOMAIN set THEN set.secret ELSE credentials[e].secret
        /\ credentials'[e].enabled = IF "enabled" \in DOMAIN set THEN set.enabled ELSE credentials[e].enabled
    BY <1>3, <1>4, RunTells
  <2>2. /\ "secret" \in DOMAIN set =>
              set.secret \in Secrets \/ ("enabled" \in DOMAIN set /\ set.enabled = FALSE)
        /\ "enabled" \in DOMAIN set => set.enabled = TRUE \/ set.enabled = FALSE
        /\ "enabled" \in DOMAIN set /\ set.enabled = TRUE => "secret" \notin DOMAIN set
    BY <2>1, SettingKinds
  <2> HIDE DEF set, cmd
  <2>3. CASE "enabled" \in DOMAIN set /\ set.enabled = TRUE
    BY <1>2, <2>1, <2>2, <2>3
  <2>4. CASE "enabled" \in DOMAIN set /\ set.enabled = FALSE
    BY <1>2, <2>1, <2>2, <2>4
  <2>5. CASE "enabled" \notin DOMAIN set
    BY <2>1, <2>2, <2>5
  <2> QED
    BY <2>2, <2>3, <2>4, <2>5
<1> QED
  BY <1>4

\* Who is found depends on the rows of employees only.
LEMMA SameFound ==
  ASSUME employee' = employee, NEW id
  PROVE  {e \in FindById(id)' : employee'[e] = "live"} = WithCredentials(id)
         /\ FindById(id)' = FindById(id)
BY DEF WithCredentials, FindById, Rows

\* What is left for the request that enables or uses codes to do is to run.
LEMMA OnlyRuns ==
  ASSUME TypeInv, NEW w \in Workers, task[w].op = "Enable" \/ task[w].op \in CodeOps, Acts(w)
  PROVE  Run(w)
<1>1. task[w].pc \notin {"compare", "googleInsert", "googleCredentials", "googleSave", "mail",
                         "insertEmployee", "insertCredentials"}
  BY DEF TypeInv, Tasks, Reaches, LinkOps, CreateOps, CodeOps
<1> QED
  BY <1>1 DEF Acts, LoginSave, GoogleInsert, GoogleCredentials, GoogleSave, MailLink,
              InsertEmployee, InsertCredentials, At

LEMMA EnableStep ==
  ASSUME BaseInv, StoreStep, Serial, SecretInv, NEW w \in Workers, task'[w].op = "Enable",
         NEW e \in Employees, e \in FindById(Undefined)', employee'[e] = "live"
  PROVE  credentials'[e].secret # NoSecret
<1> USE DEF BaseInv
<1>1. CASE task[w].op = "Enable"
  <2>0. task[w].pc # "idle"
    BY <1>1, IdleRests DEF TypeInv, Tasks, Reaches
  <2>1. CASE ~Acts(w)
    <3>1. employee' = employee /\ Kept(credentials[e], credentials'[e])
      BY <2>0, <2>1, HeldAlone DEF At
    <3>2. e \in WithCredentials(Undefined)
      BY <3>1, SameFound
    <3> QED
      BY <1>1, <3>1, <3>2 DEF SecretInv, Kept
  <2>2. CASE Acts(w)
    <3>1. Run(w)
      BY <1>1, <2>2, OnlyRuns
    <3>2. employee' = employee
      BY <3>1, RunStep
    <3>3. e \in WithCredentials(Undefined)
      BY <3>2, SameFound
    <3>4. credentials[e].secret # NoSecret
      BY <1>1, <3>3 DEF SecretInv
    <3>5. credentials'[e] = credentials[e] \/ credentials'[e].secret \in Secrets \cup {credentials[e].secret}
      BY <1>1, <3>1, RunSecrets
    <3> QED
      BY <3>4, <3>5, NullAssumption
  <2> QED
    BY <2>1, <2>2
<1>2. CASE task[w].op # "Enable"
  <2>1. Moves(w, task'[w]) /\ task'[w] # Idle
    BY <1>2, Movement, IdleRests
  <2>2. QuietStart(w, task'[w]) /\ UNCHANGED <<store, audit>>
    BY <1>2, <2>1 DEF Moves, QuietGoesOn, Starts, Carried
  <2>3. employee' = employee /\ credentials' = credentials
    BY <2>2 DEF store
  <2>4. PICK f \in WithCredentials(Undefined) : credentials[f].secret # NoSecret
    BY <2>2 DEF QuietStart
  <2>5. e = f
    BY <2>3, SameFound, Found
  <2> QED
    BY <2>3, <2>4, <2>5
<1> QED
  BY <1>1, <1>2

LEMMA SecretStep ==
  ASSUME BaseInv, StoreStep, SecretInv
  PROVE  SecretInv'
<1> USE DEF BaseInv
<1> SUFFICES ASSUME Serial PROVE SecretInv'
  BY WorkloadStays DEF SecretInv, Serial
<1>1. ASSUME NEW e \in Employees, employee'[e] = "live" PROVE Complete(credentials'[e])
  <2>1. CASE employee[e] # "live"
    <3>1. \E v \in BOOLEAN : credentials'[e] = NewCredentials(v)
      BY <1>1, <2>1, BecomesLive
    <3> QED
      BY <3>1, NewComplete
  <2>2. ASSUME employee[e] = "live", NEW w \in Workers, Run(w) PROVE Complete(credentials'[e])
    <3>1. Complete(credentials[e])
      BY <2>2 DEF SecretInv, Live
    <3>2. task[w].op = "Enable" /\ e \in WithCredentials(Undefined) => credentials[e].secret # NoSecret
      BY <2>2 DEF SecretInv
    <3> QED
      BY <2>2, <3>1, <3>2, RunSecrets, NullAssumption DEF Complete
  <2>3. ASSUME employee[e] = "live", \A w \in Workers : ~Run(w) PROVE Complete(credentials'[e])
    <3>1. Complete(credentials[e]) /\ \A w \in Workers : Complete(task[w].row)
      BY <2>3 DEF SecretInv, Live
    <3>2. ASSUME NEW w \in Workers, LoginSave(w)
          PROVE  Complete(Succeeded(task[w].row)) /\ Complete(Failed(task[w].row))
      <4>1. task[w].row \in Columns
        BY <3>2, LoginSaveStep
      <4> QED
        BY <3>1, <4>1, RowsOfLogin DEF Complete
    <3> QED
      BY <2>3, <3>1, <3>2, LiveRow DEF Kept, Complete
  <2> QED
    BY <2>1, <2>2, <2>3
<1>2. ASSUME NEW w \in Workers PROVE Complete(task'[w].row)
  <2>1. CASE task' = task
    BY <2>1 DEF SecretInv
  <2>2. ASSUME NEW v \in Workers, NEW u \in Tasks, Become(v, u), Turn(v, u)
        PROVE  Complete(task'[w].row)
    <3>1. Complete(u.row)
      BY <2>2, NewComplete DEF Turn, SecretInv, Live
    <3>2. task'[w] = u \/ task'[w] = task[w]
      BY <2>2, BecomeTyped
    <3> QED
      BY <3>1, <3>2 DEF SecretInv
  <2> QED
    BY <2>1, <2>2, Turns DEF Turned
<1>3. ASSUME NEW w \in Workers, task'[w].op = "Enable",
             NEW e \in FindById(Undefined)', employee'[e] = "live"
      PROVE  credentials'[e].secret # NoSecret
  <2>1. e \in Employees
    BY <1>3 DEF FindById, Rows
  <2> QED
    BY <1>3, <2>1, EnableStep
<1> QED
  BY <1>1, <1>2, <1>3 DEF SecretInv, Live, WithCredentials

-----------------------------------------------------------------------------
(* Backup codes.                                                           *)

Remembers(old, new) == \A c \in BackupCodes : old[c] = "used" => new[c] = "used"

\* Writing these codes forgets no used one, and uses one that is not spent.
WritesCodes(t) ==
  \A e \in WithCredentials(t.todo[1].id) :
    /\ Remembers(credentials[e].backup, t.todo[1].set.backup)
    /\ t.op = "UseBackupCode" => audit[e].spent[t.arg] = 0

CodesInv ==
  Serial =>
    /\ \A e \in Employees, c \in BackupCodes :
         /\ audit[e].spent[c] # 2
         /\ employee[e] = "live" /\ audit[e].spent[c] = 1 => credentials[e].backup[c] = "used"
    /\ \A w \in Workers :
         /\ task[w].pc \in {"compare", "googleCredentials"} =>
              task[w].row.backup = credentials[task[w].id].backup
         /\ task[w].op \in CodeOps => WritesCodes(task[w])

LEMMA RunCodes ==
  ASSUME BaseInv, Serial, CodesInv, NEW w \in Workers, Run(w),
         NEW e \in Employees, employee[e] = "live", NEW c \in BackupCodes
  PROVE  /\ audit'[e].spent[c] # 2
         /\ audit'[e].spent[c] = 1 => credentials'[e].backup[c] = "used"
<1> USE DEF BaseInv
<1> DEFINE t == task[w]
           cmd == task[w].todo[1]
           set == cmd.set
           spent == audit[e].spent
<1>1. /\ spent[c] # 2 /\ (spent[c] = 1 => credentials[e].backup[c] = "used")
      /\ spent \in [BackupCodes -> 0..2]
  BY DEF CodesInv, TypeInv, Audits
<1>2. /\ "backup" \in DOMAIN set <=> t.op \in CodeOps
      /\ t.op = "UseBackupCode" => set.backup[t.arg] = "used" /\ t.arg \in BackupCodes
  BY RunStep DEF Allows, TypeInv, Tasks, Carries
<1>3. "backup" \in DOMAIN credentials[e]
  BY DEF TypeInv, Columns
<1>4. CASE credentials'[e] = credentials[e] /\ audit'[e] = audit[e]
  BY <1>1, <1>4
<1>5. CASE ~(credentials'[e] = credentials[e] /\ audit'[e] = audit[e])
  <2>1. /\ e \in WithCredentials(cmd.id)
        /\ credentials'[e].backup = IF "backup" \in DOMAIN set THEN set.backup ELSE credentials[e].backup
        /\ audit'[e].spent = IF t.op = "UseBackupCode" THEN Counted(spent, t.arg) ELSE spent
    BY <1>3, <1>5, RunTells
  <2>2. CASE t.op = "UseBackupCode"
    <3>1. /\ Remembers(credentials[e].backup, set.backup) /\ spent[t.arg] = 0
          /\ set.backup[t.arg] = "used" /\ t.arg \in BackupCodes
      BY <1>2, <2>1, <2>2 DEF CodesInv, WritesCodes, CodeOps
    <3>2. credentials'[e].backup = set.backup
      BY <1>2, <2>1, <2>2 DEF CodeOps
    <3>3. audit'[e].spent = [spent EXCEPT ![t.arg] = 1]
      BY <1>1, <2>1, <2>2, <3>1 DEF Counted
    <3> HIDE DEF t, set, spent
    <3> QED
      BY <1>1, <3>1, <3>2, <3>3 DEF Remembers
  <2>3. CASE t.op # "UseBackupCode" /\ t.op \in CodeOps
    <3>1. Remembers(credentials[e].backup, set.backup)
      BY <2>1, <2>3 DEF CodesInv, WritesCodes
    <3>2. credentials'[e].backup = set.backup /\ audit'[e].spent = spent
      BY <1>2, <2>1, <2>3
    <3> QED
      BY <1>1, <3>1, <3>2 DEF Remembers
  <2>4. CASE t.op \notin CodeOps
    BY <1>1, <1>2, <2>1, <2>4 DEF CodeOps
  <2> QED
    BY <2>2, <2>3, <2>4
<1> QED
  BY <1>4, <1>5

\* A request that starts to write codes was given one that is not used.
LEMMA CodesStart ==
  ASSUME TypeInv, Serial, CodesInv, NEW w \in Workers, NEW u \in Tasks, u.op \in CodeOps,
         QuietStart(w, u)
  PROVE  WritesCodes(u)
<1>1. PICK e \in Employees, c \in BackupCodes, new \in {"fresh", "used"} :
        /\ u.todo = <<UpdateCommand(e, [backup |-> [credentials[e].backup EXCEPT ![c] = new]])>>
        /\ employee[e] = "live" /\ credentials[e].backup[c] # "used" /\ u.arg = c
  BY DEF QuietStart
<1> DEFINE b == [credentials[e].backup EXCEPT ![c] = new]
<1>2. u.todo[1].id = e /\ u.todo[1].set.backup = b
  BY <1>1 DEF UpdateCommand
<1>3. Remembers(credentials[e].backup, b)
  BY <1>1 DEF Remembers, TypeInv, Columns
<1>4. audit[e].spent[c] = 0
  <2>1. audit[e].spent[c] \in 0..2 /\ audit[e].spent[c] # 2 /\ audit[e].spent[c] # 1
    BY <1>1 DEF CodesInv, TypeInv, Audits
  <2> QED
    BY <2>1
<1>5. \A f \in WithCredentials(e) : f = e
  BY Found, EmployeesAssumption
<1> QED
  BY <1>1, <1>2, <1>3, <1>4, <1>5 DEF WritesCodes

LEMMA CodesGoOn ==
  ASSUME BaseInv, StoreStep, Serial, CodesInv, NEW w \in Workers, task'[w].op \in CodeOps
  PROVE  \E u \in Tasks : task'[w] = u /\ WritesCodes(u)'
<1> USE DEF BaseInv
<1>1. CASE task[w].op \notin CodeOps
  <2>1. Moves(w, task'[w]) /\ task'[w] # Idle /\ task'[w] \in Tasks
    BY <1>1, Movement, IdleRests DEF CodeOps
  <2>2. QuietStart(w, task'[w]) /\ UNCHANGED <<store, audit>>
    BY <1>1, <2>1 DEF Moves, QuietGoesOn, Starts, Carried, CodeOps
  <2>3. PICK u \in Tasks : u = task'[w]
    BY <2>1
  <2>4. WritesCodes(u)
    BY <2>2, <2>3, CodesStart
  <2>5. WithCredentials(u.todo[1].id)' = WithCredentials(u.todo[1].id)
    BY <2>2 DEF store, WithCredentials, FindById, Rows
  <2> QED
    BY <2>2, <2>3, <2>4, <2>5 DEF WritesCodes, store
<1>2. CASE task[w].op \in CodeOps
  <2>0. task[w].pc = "run"
    BY <1>2 DEF TypeInv, Tasks, Reaches
  <2>1. ~Run(w)
    <3> SUFFICES ASSUME Run(w) PROVE FALSE
      OBVIOUS
    <3>1. PICK u \in Tasks : GoesOn(w, u) /\ (task[w].op \in CodeOps => u = Idle)
      BY RunStep
    <3>2. task'[w] = Idle
      BY <1>2, <3>1, BecomeTyped DEF GoesOn
    <3> QED
      BY <3>2, IdleRests DEF CodeOps
  <2>2. ~Acts(w)
    BY <1>2, <2>1, OnlyRuns
  <2>3. task'[w] = task[w]
    <3>1. task'[w] # Idle
      BY IdleRests DEF CodeOps
    <3> QED
      BY <2>0, <2>1, <3>1, Movement DEF Moves, QuietStart, QuietGoesOn, Starts, Carried, Accepts, At
  <2>4. /\ employee' = employee /\ audit' = audit
        /\ \A e \in Employees : credentials'[e].backup = credentials[e].backup
    BY <2>0, <2>2, HeldAlone DEF At, Kept
  <2>5. PICK u \in Tasks : u = task[w]
    BY DEF TypeInv
  <2>6. WritesCodes(u)
    BY <1>2, <2>5 DEF CodesInv
  <2>7. WithCredentials(u.todo[1].id)' = WithCredentials(u.todo[1].id)
    BY <2>4 DEF WithCredentials, FindById, Rows
  <2>8. WithCredentials(u.todo[1].id) \subseteq Employees
    BY Found
  <2>9. WritesCodes(u)'
    BY <2>4, <2>6, <2>7, <2>8 DEF WritesCodes
  <2> QED
    BY <2>3, <2>5, <2>9
<1> QED
  BY <1>1, <1>2

LEMMA CodesStep ==
  ASSUME BaseInv, StoreStep, NewInv, CodesInv
  PROVE  CodesInv'
<1> USE DEF BaseInv
<1> SUFFICES ASSUME Serial PROVE CodesInv'
  BY WorkloadStays DEF CodesInv, Serial
<1>1. ASSUME NEW e \in Employees, NEW c \in BackupCodes
      PROVE  /\ audit'[e].spent[c] # 2
             /\ employee'[e] = "live" /\ audit'[e].spent[c] = 1 => credentials'[e].backup[c] = "used"
  <2>1. CASE employee[e] # "live"
    <3>1. audit'[e].spent = audit[e].spent
      BY <2>1, HistoryOfOthers DEF SameHistory
    <3>2. employee'[e] = "live" => audit[e].spent[c] = 0
      BY <2>1, BecomesLive DEF NewInv, Tame
    <3> QED
      BY <3>1, <3>2 DEF CodesInv
  <2>2. ASSUME employee[e] = "live", NEW w \in Workers, Run(w)
        PROVE  /\ audit'[e].spent[c] # 2
               /\ audit'[e].spent[c] = 1 => credentials'[e].backup[c] = "used"
    BY <2>2, RunCodes
  <2>3. ASSUME employee[e] = "live", \A w \in Workers : ~Run(w)
        PROVE  /\ audit'[e].spent = audit[e].spent
               /\ credentials'[e].backup = credentials[e].backup
    <3>1. ASSUME NEW w \in Workers, LoginSave(w), task[w].id = e
          PROVE  /\ Succeeded(task[w].row).backup = credentials[e].backup
                 /\ Failed(task[w].row).backup = credentials[e].backup
      <4>1. task[w].row \in Columns /\ task[w].pc = "compare"
        BY <3>1, LoginSaveStep DEF At
      <4>2. task[w].row.backup = credentials[e].backup
        BY <3>1, <4>1 DEF CodesInv
      <4> QED
        BY <4>1, <4>2, RowsOfLogin
    <3>2. ASSUME NEW w \in Workers, GoogleCredentials(w), task[w].id = e
          PROVE  task[w].row.backup = credentials[e].backup
      BY <3>2, GoogleCredentialsStep DEF At, CodesInv
    <3> QED
      BY <2>3, <3>1, <3>2, LiveRow DEF Kept, SameHistory
  <2> QED
    BY <2>1, <2>2, <2>3 DEF CodesInv
<1>2. ASSUME NEW w \in Workers, task'[w].pc \in {"compare", "googleCredentials"}
      PROVE  task'[w].row.backup = credentials'[task'[w].id].backup
  <2>1. CASE /\ UNCHANGED <<store, audit>>
             /\ task'[w].id \in Employees /\ task'[w].row = credentials[task'[w].id]
    BY <2>1 DEF store
  <2>2. CASE task'[w] = task[w] /\ ~At(w, "idle") /\ ~Acts(w)
    <3>1. task[w].id \in Employees
      BY <2>2 DEF TypeInv, Tasks, Reaches, At
    <3>2. Kept(credentials[task[w].id], credentials'[task[w].id])
      BY <2>2, <3>1, HeldAlone
    <3>3. task[w].row.backup = credentials[task[w].id].backup
      BY <1>2, <2>2 DEF CodesInv
    <3> QED
      BY <2>2, <3>2, <3>3 DEF Kept
  <2> QED
    BY <1>2, <2>1, <2>2, RowsHeld
<1>3. ASSUME NEW w \in Workers, task'[w].op \in CodeOps PROVE WritesCodes(task[w])'
  <2>1. PICK u \in Tasks : task'[w] = u /\ WritesCodes(u)'
    BY <1>3, CodesGoOn
  <2> QED
    BY <2>1 DEF WritesCodes
<1> QED
  BY <1>1, <1>2, <1>3 DEF CodesInv

-----------------------------------------------------------------------------
(* What holds of the accounts, whatever happens.                           *)

HistoryInv == NewInv /\ PasswordInv /\ FailInv /\ SecretInv /\ CodesInv

LEMMA InitHistory ==
  ASSUME Init
  PROVE  HistoryInv
<1>1. /\ \A w \in Workers : /\ task[w] = Idle /\ task[w].op = "none" /\ task[w].pc = "idle"
                           /\ Complete(task[w].row)
  BY IdleRests, NewComplete DEF Init
<1>2. \A e \in Employees :
        /\ credentials[e] = NewCredentials(FALSE)
        /\ audit[e].password = "old" /\ audit[e].failures = 0
        /\ \A c \in BackupCodes : audit[e].spent[c] = 0
  BY DEF Init
<1>3. /\ NewCredentials(FALSE).password = "old" /\ NewCredentials(FALSE).attempts = 0
      /\ Complete(NewCredentials(FALSE))
  BY NewComplete DEF NewCredentials
<1>4. NewInv /\ PasswordInv /\ FailInv /\ SecretInv
  BY <1>1, <1>2, <1>3, InitNew DEF PasswordInv, FailInv, SecretInv, Live
<1>5. CodesInv
  <2>1. \A w \in Workers : task[w].op \notin CodeOps /\ task[w].pc \notin {"compare", "googleCredentials"}
    BY <1>1 DEF CodeOps
  <2>2. ASSUME NEW e \in Employees, NEW c \in BackupCodes
        PROVE  audit[e].spent[c] # 2 /\ audit[e].spent[c] # 1
    <3>1. audit[e].spent[c] = 0
      BY <1>2
    <3> QED
      BY <3>1
  <2> QED
    BY <2>1, <2>2 DEF CodesInv
<1> QED
  BY <1>4, <1>5 DEF HistoryInv

LEMMA HistoryStep ==
  ASSUME BaseInv, HistoryInv, [Next]_vars
  PROVE  BaseInv' /\ HistoryInv'
<1>1. BaseInv' /\ (StoreStep \/ UNCHANGED vars)
  BY BaseStep
<1>2. CASE StoreStep
  BY <1>1, <1>2, NewStep, PasswordStep, FailStep, SecretStep, CodesStep DEF HistoryInv
<1>3. CASE UNCHANGED vars
  <2>1. NewInv' /\ PasswordInv' /\ FailInv'
    BY <1>3 DEF HistoryInv, NewInv, Tame, PasswordInv, NoStalePassword, FailInv, Counting,
                Serial, Asked, At, Live, vars
  <2>2. \A id : WithCredentials(id)' = WithCredentials(id)
    BY <1>3 DEF WithCredentials, FindById, Rows, vars
  <2>3. SecretInv' /\ CodesInv'
    BY <1>3, <2>2 DEF HistoryInv, SecretInv, CodesInv, WritesCodes, Serial, Live, vars
  <2> QED
    BY <1>1, <2>1, <2>3 DEF HistoryInv
<1> QED
  BY <1>1, <1>2, <1>3

LEMMA HistoryHolds == Spec => [](BaseInv /\ HistoryInv)
<1>1. Init => BaseInv /\ HistoryInv
  BY InitTyped, InitOps, InitHistory DEF BaseInv
<1>2. BaseInv /\ HistoryInv /\ [Next]_vars => (BaseInv /\ HistoryInv)'
  BY HistoryStep
<1> QED
  BY <1>1, <1>2, PTL DEF Spec

\* The password in force is the one set last, unless a login that overlaps
\* writes back the row it read (EmployeeService.update, validateEmployee).
THEOREM NewPasswordHolds == Spec => []LastPasswordHolds
<1>1. BaseInv /\ HistoryInv => LastPasswordHolds
  BY DEF HistoryInv, PasswordInv, NoStalePassword, LastPasswordHolds
<1> QED
  BY <1>1, HistoryHolds, PTL

\* The counter of failed logins is the number of wrong passwords since the last
\* right one, across locks, updates and removals (validateEmployee).
THEOREM WrongPasswordsCount == Spec => []FailuresCounted
<1>1. BaseInv /\ HistoryInv => FailuresCounted
  BY DEF HistoryInv, FailInv, Counting, FailuresCounted
<1> QED
  BY <1>1, HistoryHolds, PTL

\* Two-factor is never enabled without a secret
\* (two-factor-auth.service.ts, validateTwoFactorToken).
THEOREM NeverIncomplete == Spec => []EnabledHasSecret
<1>1. BaseInv /\ HistoryInv => EnabledHasSecret
  <2> SUFFICES ASSUME BaseInv, HistoryInv, Serial, NEW e \in Live, NEW s \in Secrets
               PROVE  ValidateToken(credentials[e], s) # "incomplete"
    BY DEF EnabledHasSecret
  <2>1. Complete(credentials[e])
    BY DEF HistoryInv, SecretInv
  <2>2. credentials[e].enabled \in BOOLEAN
    BY DEF BaseInv, TypeInv, Columns, Live
  <2> QED
    BY <2>1, <2>2 DEF Complete, ValidateToken
<1> QED
  BY <1>1, HistoryHolds, PTL

\* A backup code is accepted once (verifyBackupCode), whatever else is done to
\* the row between its uses.
THEOREM CodesWorkOnce == Spec => []CodesOnce
<1>1. BaseInv /\ HistoryInv => CodesOnce
  <2> SUFFICES ASSUME BaseInv, HistoryInv, Serial, NEW e \in Employees, NEW c \in BackupCodes
               PROVE  audit[e].spent[c] <= 1
    BY DEF CodesOnce
  <2>1. audit[e].spent[c] \in 0..2 /\ audit[e].spent[c] # 2
    BY DEF HistoryInv, CodesInv, BaseInv, TypeInv, Audits
  <2> QED
    BY <2>1
<1> QED
  BY <1>1, HistoryHolds, PTL

-----------------------------------------------------------------------------
(* Verification links.                                                     *)

\* Who has a link, was mailed it, or asked for it.
Owns(e, l) ==
  \/ credentials[e].link = l \/ l \in audit[e].mailed
  \/ \E w \in Workers :
       /\ task[w].id = e
       /\ task[w].row.link = l \/ (task[w].op \in LinkOps /\ task[w].arg = l)

\* A link is one employee's, and links are asked for the first employee.
LinksInv ==
  FirstStays =>
    /\ \A l \in Links : \A e, f \in Employees : Owns(e, l) /\ Owns(f, l) => e = f
    /\ \A w \in Workers : task[w].op \in LinkOps => task[w].id \in FindById(Undefined)

LEMMA NewLink == \A v \in BOOLEAN : NewCredentials(v).link = NoLink /\ Idle.row.link = NoLink
BY DEF NewCredentials, Idle

\* The first employee does not change under a request for a link.
LEMMA FirstKept ==
  ASSUME BaseInv, FirstStays, StoreStep, NEW w \in Workers, task[w].op \in LinkOps
  PROVE  FindById(Undefined)' = FindById(Undefined)
<1> USE DEF BaseInv
<1>1. ~At(w, "idle") /\ task[w].pc \notin {"googleInsert", "googleSave", "insertEmployee", "insertCredentials"}
  BY IdleRests DEF TypeInv, Tasks, Reaches, LinkOps, CreateOps, At
<1>2. ASSUME NEW v \in Workers,
             GoogleInsert(v) \/ GoogleSave(v) \/ InsertEmployee(v) \/ InsertCredentials(v)
      PROVE  v # w /\ ~At(v, "idle") /\ task[v].op \in CreateOps \cup {"Google"}
  <2>1. task[v].pc \in {"googleInsert", "googleSave", "insertEmployee", "insertCredentials"}
    BY <1>2 DEF GoogleInsert, GoogleSave, InsertEmployee, InsertCredentials, At
  <2> QED
    BY <1>1, <2>1 DEF At, TypeInv, Tasks, Reaches
<1>3. CASE Serial
  <2>1. \A v \in Workers, e \in Employees : ~RemoveEmployee(v, e)
    BY <1>1, <1>3, AcceptedAlone DEF RemoveEmployee
  <2>2. ~EmployeeStep
    <3>1. \A v \in Workers : At(v, "idle") \/ v = w
      BY <1>1, <1>3 DEF AloneInv
    <3> QED
      BY <1>2, <2>1, <3>1 DEF EmployeeStep
  <2> QED
    BY <2>2, EmployeeFrame, SameFound
<1>4. CASE ~Asked({"SendLink", "Resend"})
  BY <1>4 DEF OpsInv, Asked, LinkOps
<1>5. CASE ~Asked({"Google", "Create", "CreatePublic", "CreateSupplier", "RemoveEmployee"})
  <2>1. \A v \in Workers : task[v].op \notin CreateOps \cup {"Google"}
    BY <1>5 DEF OpsInv, Asked, CreateOps
  <2>2. \A v \in Workers, e \in Employees : ~RemoveEmployee(v, e)
    BY <1>5 DEF RemoveEmployee, Accepts, Asked
  <2>3. ~EmployeeStep
    BY <1>2, <2>1, <2>2 DEF EmployeeStep
  <2> QED
    BY <2>3, EmployeeFrame, SameFound
<1> QED
  BY <1>3, <1>4, <1>5 DEF FirstStays

\* Requests for a link are for the first employee.
LEMMA AskedByFirst ==
  ASSUME BaseInv, FirstStays, StoreStep, LinksInv, NEW w \in Workers, task'[w].op \in LinkOps
  PROVE  task'[w].id \in FindById(Undefined)'
<1> USE DEF BaseInv
<1>1. CASE task[w].op \in LinkOps
  <2>1. task[w].id \in FindById(Undefined) /\ FindById(Undefined)' = FindById(Undefined)
    BY <1>1, FirstKept DEF LinksInv
  <2>2. task'[w].id \in FindById(Undefined)
    BY <2>1, Movement, IdleRests DEF Moves, QuietStart, QuietGoesOn, Starts, Carried, LinkOps
  <2> QED
    BY <2>1, <2>2
<1>2. CASE task[w].op \notin LinkOps
  <2>1. QuietStart(w, task'[w]) /\ UNCHANGED <<store, audit>>
    BY <1>2, Movement, IdleRests DEF Moves, QuietGoesOn, Starts, Carried, LinkOps
  <2>2. task'[w].id \in FindById(Undefined) /\ employee' = employee
    BY <2>1 DEF QuietStart, store
  <2> QED
    BY <2>2, SameFound
<1> QED
  BY <1>1, <1>2

\* What a step leaves in the row of any employee.
LEMMA AnyRow ==
  ASSUME TypeInv, StoreStep, NEW e \in Employees
  PROVE  \/ Kept(credentials[e], credentials'[e])
         \/ \E w \in Workers : Run(w)
         \/ \E w \in Workers : /\ LoginSave(w) /\ task[w].id = e
                              /\ credentials'[e] \in {Succeeded(task[w].row), Failed(task[w].row)}
         \/ \E w \in Workers : /\ GoogleCredentials(w) /\ task[w].id = e
                              /\ credentials'[e] = task[w].row
         \/ \E w \in Workers : /\ InsertCredentials(w) /\ task[w].id = e
                              /\ credentials'[e] = NewCredentials(task[w].op = "CreatePublic")
<1>1. ASSUME NEW w \in Workers, LoginSave(w)
      PROVE  \/ credentials'[e] = credentials[e]
             \/ /\ task[w].id = e
                /\ credentials'[e] \in {Succeeded(task[w].row), Failed(task[w].row)}
  <2>1. \/ credentials' = credentials
        \/ \E r \in {Succeeded(task[w].row), Failed(task[w].row)} :
             credentials' = [credentials EXCEPT ![task[w].id] = r]
    BY <1>1, LoginSaveStep
  <2>2. ASSUME NEW r \in {Succeeded(task[w].row), Failed(task[w].row)},
               credentials' = [credentials EXCEPT ![task[w].id] = r]
        PROVE  credentials'[e] = credentials[e] \/ (task[w].id = e /\ credentials'[e] = r)
    BY <2>2 DEF TypeInv
  <2> QED
    BY <2>1, <2>2
<1>2. ASSUME NEW w \in Workers, GoogleCredentials(w)
      PROVE  credentials'[e] = credentials[e] \/ (task[w].id = e /\ credentials'[e] = task[w].row)
  BY <1>2, GoogleCredentialsStep DEF SaveCredentials, TypeInv
<1>3. ASSUME NEW w \in Workers, InsertCredentials(w)
      PROVE  \/ credentials'[e] = credentials[e]
             \/ task[w].id = e /\ credentials'[e] = NewCredentials(task[w].op = "CreatePublic")
  BY <1>3, InsertCredentialsStep DEF TypeInv
<1>4. credentials'[e] = credentials[e] => Kept(credentials[e], credentials'[e])
  BY DEF Kept
<1> QED
  BY <1>1, <1>2, <1>3, <1>4, ExpiryKeeps, CredentialsFrame DEF CredentialsStep

\* Links are mailed by MailLink only, and who proved an address has proved it.
LEMMA AuditGrows ==
  ASSUME TypeInv, StoreStep, NEW e \in Employees
  PROVE  /\ audit[e].proved => audit'[e].proved
         /\ \/ audit'[e].mailed = audit[e].mailed
            \/ \E w \in Workers : /\ MailLink(w) /\ task[w].id = e
                                 /\ audit'[e].mailed \subseteq audit[e].mailed \cup {task[w].arg}
<1>0. audit[e] \in Audits
  BY DEF TypeInv
<1>1. ASSUME NEW f \in Employees, NEW v, audit' = [audit EXCEPT ![f].proved = audit[f].proved \/ v]
      PROVE  /\ audit[e].proved => audit'[e].proved
             /\ audit'[e].mailed = audit[e].mailed
  BY <1>0, <1>1 DEF TypeInv, Audits
<1>2. ASSUME NEW w \in Workers, Run(w)
      PROVE  audit'[e].proved = audit[e].proved /\ audit'[e].mailed = audit[e].mailed
  BY <1>2, RunTells
<1>3. ASSUME NEW w \in Workers, LoginSave(w)
      PROVE  audit'[e].proved = audit[e].proved /\ audit'[e].mailed = audit[e].mailed
  <2>1. audit' = audit \/ \E n : audit' = [audit EXCEPT ![task[w].id].failures = n]
    BY <1>3, LoginSaveStep
  <2>2. ASSUME NEW n, audit' = [audit EXCEPT ![task[w].id].failures = n]
        PROVE  audit'[e].proved = audit[e].proved /\ audit'[e].mailed = audit[e].mailed
    BY <1>0, <2>2 DEF TypeInv, Audits
  <2> QED
    BY <2>1, <2>2
<1>4. ASSUME NEW w \in Workers, MailLink(w)
      PROVE  /\ audit'[e].proved = audit[e].proved
             /\ \/ audit'[e].mailed = audit[e].mailed
                \/ task[w].id = e /\ audit'[e].mailed \subseteq audit[e].mailed \cup {task[w].arg}
  <2>1. PICK sent \in Mails(task[w].arg) : audit' = [audit EXCEPT ![task[w].id].mailed = @ \cup sent]
    BY <1>4 DEF MailLink
  <2>2. sent \subseteq {task[w].arg}
    BY DEF Mails
  <2>3. CASE task[w].id # e
    BY <2>1, <2>3 DEF TypeInv
  <2>4. CASE task[w].id = e
    <3>1. audit'[e] = [audit[e] EXCEPT !.mailed = audit[e].mailed \cup sent]
      BY <2>1, <2>4 DEF TypeInv
    <3> QED
      BY <1>0, <2>2, <2>4, <3>1 DEF Audits
  <2> QED
    BY <2>3, <2>4
<1>5. ASSUME NEW w \in Workers, NEW f \in Employees, NEW code \in OtpCodes,
             VerifySmsPublic(w, f, code) \/ VerifyEmailPublic(w, f, code)
      PROVE  /\ audit[e].proved => audit'[e].proved
             /\ audit'[e].mailed = audit[e].mailed
  <2>1. \E v : audit' = [audit EXCEPT ![f].proved = audit[f].proved \/ v]
    BY <1>5 DEF VerifySmsPublic, VerifyEmailPublic, Proves
  <2> QED
    BY <1>1, <2>1
<1>6. ASSUME NEW w \in Workers, NEW f \in Employees, NEW l \in Links, FollowLink(w, f, l)
      PROVE  /\ audit[e].proved => audit'[e].proved
             /\ audit'[e].mailed = audit[e].mailed
  <2>1. \E v : audit' = [audit EXCEPT ![f].proved = audit[f].proved \/ v]
    BY <1>6 DEF FollowLink
  <2> QED
    BY <1>1, <2>1
<1> QED
  BY <1>2, <1>3, <1>4, <1>5, <1>6, AuditFrame DEF AuditStep

\* A request that has just asked for a link nobody had.
AsksAnew(w, e, l) ==
  /\ At(w, "idle") /\ UNCHANGED <<store, audit>>
  /\ task'[w].op \in LinkOps /\ task'[w].id = e /\ task'[w].arg = l
  /\ \A f \in Employees : ~Owns(f, l)

LEMMA RowOwned ==
  ASSUME BaseInv, FirstStays, StoreStep, LinksInv,
         NEW e \in Employees, NEW l \in Links, credentials'[e].link = l
  PROVE  Owns(e, l)
<1> USE DEF BaseInv
<1>0. l # NoLink /\ credentials[e] \in Columns /\ "link" \in DOMAIN credentials[e]
  BY NullAssumption DEF TypeInv, Columns
<1>1. CASE Kept(credentials[e], credentials'[e])
  BY <1>1 DEF Kept, Owns
<1>2. ASSUME NEW w \in Workers, Run(w) PROVE Owns(e, l)
  <2> DEFINE cmd == task[w].todo[1]
  <2>1. CASE credentials'[e] = credentials[e]
    BY <2>1 DEF Owns
  <2>2. CASE credentials'[e] # credentials[e]
    <3>1. /\ e \in WithCredentials(cmd.id)
          /\ credentials'[e].link = IF "link" \in DOMAIN cmd.set THEN cmd.set.link ELSE credentials[e].link
      BY <1>0, <1>2, <2>2, RunTells
    <3>2. "link" \in DOMAIN cmd.set /\ cmd.set.link # NoLink =>
            task[w].op \in LinkOps /\ cmd.set.link = task[w].arg /\ cmd.id = Undefined
      BY <1>2, RunStep DEF Allows
    <3>3. CASE "link" \in DOMAIN cmd.set
      <4>1. /\ cmd.set.link = l /\ task[w].op \in LinkOps /\ task[w].arg = l
            /\ e \in FindById(Undefined)
        BY <1>0, <3>1, <3>2, <3>3, Found
      <4>2. task[w].id \in FindById(Undefined)
        BY <4>1 DEF LinksInv
      <4>3. task[w].id = e
        BY <4>1, <4>2, Found
      <4> QED
        BY <4>1, <4>3 DEF Owns
    <3>4. CASE "link" \notin DOMAIN cmd.set
      BY <3>1, <3>4 DEF Owns
    <3> QED
      BY <3>3, <3>4
  <2> QED
    BY <2>1, <2>2
<1>3. ASSUME NEW w \in Workers, LoginSave(w), task[w].id = e,
             credentials'[e] \in {Succeeded(task[w].row), Failed(task[w].row)}
      PROVE  Owns(e, l)
  <2>1. task[w].row.link = l
    BY <1>3, LoginSaveStep, RowsOfLogin
  <2> QED
    BY <1>3, <2>1 DEF Owns
<1>4. ASSUME NEW w \in Workers, GoogleCredentials(w), task[w].id = e, credentials'[e] = task[w].row
      PROVE  Owns(e, l)
  BY <1>4 DEF Owns
<1>5. ASSUME NEW v \in BOOLEAN, credentials'[e] = NewCredentials(v) PROVE FALSE
  BY <1>0, <1>5, NewLink
<1> QED
  BY <1>1, <1>2, <1>3, <1>4, <1>5, AnyRow

LEMMA RequestOwned ==
  ASSUME BaseInv, FirstStays, StoreStep, LinksInv,
         NEW e \in Employees, NEW l \in Links, NEW w \in Workers, task'[w].id = e,
         task'[w].row.link = l \/ (task'[w].op \in LinkOps /\ task'[w].arg = l)
  PROVE  Owns(e, l) \/ AsksAnew(w, e, l)
<1> USE DEF BaseInv
<1>0. l # NoLink /\ "none" \notin LinkOps
  BY NullAssumption DEF LinkOps
<1>1. CASE task'[w] = task[w]
  BY <1>1 DEF Owns
<1>2. CASE task'[w] = Idle
  BY <1>0, <1>2, IdleRests, NewLink
<1>3. CASE Starts(w, task'[w])
  BY <1>0, <1>3, NewLink DEF Starts, LinkOps
<1>4. CASE Carried(w, task'[w])
  BY <1>4 DEF Carried, Owns
<1>5. CASE QuietGoesOn(w, task'[w])
  <2>1. task'[w].op = task[w].op /\ task'[w].arg = task[w].arg /\ task'[w].row = task[w].row
    BY <1>5 DEF QuietGoesOn
  <2>2. task[w].id = e
    <3>1. CASE task'[w].id = task[w].id
      BY <3>1
    <3>2. CASE task'[w].op \in LinkOps /\ task'[w].id \in FindById(Undefined)
      BY <2>1, <3>2, Found DEF LinksInv
    <3> QED
      BY <1>5, <3>1, <3>2 DEF QuietGoesOn
  <2> QED
    BY <2>1, <2>2 DEF Owns
<1>6. CASE QuietStart(w, task'[w]) /\ UNCHANGED <<store, audit>>
  <2>1. At(w, "idle") /\ UNCHANGED <<store, audit>>
    BY <1>6 DEF QuietStart, Accepts
  <2>2. CASE task'[w].op \in LinkOps /\ task'[w].arg = l
    <3>1. FreshLink(l)
      BY <1>6, <2>2 DEF QuietStart
    <3>2. \A f \in Employees : ~Owns(f, l)
      BY <3>1 DEF FreshLink, Owns
    <3> QED
      BY <2>1, <2>2, <3>2 DEF AsksAnew
  <2>3. CASE task'[w].row.link = l
    <3>1. credentials[e].link = l
      BY <1>0, <1>6, <2>3, NewLink DEF QuietStart
    <3> QED
      BY <3>1 DEF Owns
  <2> QED
    BY <2>2, <2>3
<1> QED
  BY <1>1, <1>2, <1>3, <1>4, <1>5, <1>6, Movement DEF Moves

LEMMA OwnsStep ==
  ASSUME BaseInv, FirstStays, StoreStep, LinksInv, NEW e \in Employees, NEW l \in Links, Owns(e, l)'
  PROVE  Owns(e, l) \/ \E w \in Workers : AsksAnew(w, e, l)
<1>1. CASE credentials'[e].link = l
  BY <1>1, RowOwned
<1>2. CASE l \in audit'[e].mailed
  <2>1. ASSUME NEW w \in Workers, MailLink(w), task[w].id = e, l = task[w].arg PROVE Owns(e, l)
    <3>1. task[w].op \in LinkOps
      BY <2>1 DEF MailLink, At, BaseInv, TypeInv, Tasks, Reaches
    <3> QED
      BY <2>1, <3>1 DEF Owns
  <2>2. l \in audit[e].mailed => Owns(e, l)
    BY DEF Owns
  <2> QED
    BY <1>2, <2>1, <2>2, AuditGrows DEF BaseInv
<1>3. ASSUME NEW w \in Workers, task'[w].id = e,
             task'[w].row.link = l \/ (task'[w].op \in LinkOps /\ task'[w].arg = l)
      PROVE  Owns(e, l) \/ AsksAnew(w, e, l)
  BY <1>3, RequestOwned
<1> QED
  BY <1>1, <1>2, <1>3 DEF Owns

\* Two requests do not ask in one step.
LEMMA OneAsks ==
  ASSUME TypeInv, StoreStep, NEW v \in Workers, NEW w \in Workers,
         NEW e, NEW f, NEW l, AsksAnew(v, e, l), AsksAnew(w, f, l)
  PROVE  e = f
<1>1. task'[v] # task[v] /\ task'[w] # task[w]
  <2>1. \A u \in Workers : At(u, "idle") => task[u] = Idle
    BY DEF At, TypeInv, Tasks, Reaches
  <2> QED
    BY <2>1, IdleRests DEF AsksAnew, LinkOps
<1>2. v = w
  BY <1>1, TasksMove, BecomeTyped DEF Moved
<1> QED
  BY <1>2 DEF AsksAnew

LEMMA LinksStep ==
  ASSUME BaseInv, StoreStep, LinksInv
  PROVE  LinksInv'
<1> USE DEF BaseInv
<1> SUFFICES ASSUME FirstStays PROVE LinksInv'
  BY WorkloadStays DEF LinksInv, FirstStays, Serial, Asked
<1>1. ASSUME NEW l \in Links, NEW e \in Employees, NEW f \in Employees, Owns(e, l)', Owns(f, l)'
      PROVE  e = f
  <2>1. /\ Owns(e, l) \/ \E w \in Workers : AsksAnew(w, e, l)
        /\ Owns(f, l) \/ \E w \in Workers : AsksAnew(w, f, l)
    BY <1>1, OwnsStep
  <2>2. Owns(e, l) /\ Owns(f, l) => e = f
    BY DEF LinksInv
  <2>3. \A w \in Workers : AsksAnew(w, f, l) => ~Owns(e, l)
    BY DEF AsksAnew
  <2>4. ASSUME NEW v \in Workers, NEW w \in Workers, AsksAnew(v, e, l), AsksAnew(w, f, l)
        PROVE  e = f
    BY <2>4, OneAsks
  <2>5. CASE Owns(e, l)
    BY <2>1, <2>2, <2>3, <2>5
  <2>6. CASE ~Owns(e, l)
    <3>1. PICK v \in Workers : AsksAnew(v, e, l)
      BY <2>1, <2>6
    <3>2. ~Owns(f, l)
      BY <3>1 DEF AsksAnew
    <3>3. PICK w \in Workers : AsksAnew(w, f, l)
      BY <2>1, <3>2
    <3> QED
      BY <2>4, <3>1, <3>3
  <2> QED
    BY <2>5, <2>6
<1>2. ASSUME NEW w \in Workers, task'[w].op \in LinkOps
      PROVE  task'[w].id \in FindById(Undefined)'
  BY <1>2, AskedByFirst
<1> QED
  BY <1>1, <1>2 DEF LinksInv

-----------------------------------------------------------------------------
(* Verified addresses.                                                     *)

ProvedOps == {"FollowLink", "VerifySmsPublic", "VerifyEmailPublic"}

\* Besides the verified rows: the marks of addresses, the rows that logins hold,
\* and the requests that have seen a mark, a code or a link.
ProvedInv ==
  FirstStays =>
    /\ \A e \in Employees :
         /\ credentials[e].verified => audit[e].proved
         /\ \A k \in Marks(e) : redis[k] # "nil" => audit[e].proved
    /\ \A w \in Workers :
         /\ task[w].row.verified \/ task[w].got # {} \/ task[w].op \in ProvedOps =>
              audit[task[w].id].proved
         /\ task[w].op = "CreatePublic"
              /\ task[w].pc \in {"findByEmail", "insertEmployee", "insertCredentials"} =>
              task[w].got # {}

LEMMA NewUnverified ==
  /\ \A v \in BOOLEAN : NewCredentials(v).verified = v
  /\ ~Idle.row.verified /\ Idle.got = {} /\ Idle.op \notin ProvedOps
BY DEF NewCredentials, Idle, ProvedOps

LEMMA MarkedProved ==
  ASSUME ProvedInv, FirstStays, NEW e \in Employees,
         NEW kind \in {"smsVerified", "emailVerified"}, Marked(kind, e) # {}
  PROVE  audit[e].proved
<1>1. redis[Key(kind, e)] # "nil" /\ Key(kind, e) \in Marks(e)
  BY DEF Marked, Marks
<1> QED
  BY <1>1 DEF ProvedInv

\* Who is verified has proved the address.
LEMMA RowProved ==
  ASSUME BaseInv, FirstStays, StoreStep, ProvedInv, NEW e \in Employees, credentials'[e].verified
  PROVE  audit[e].proved
<1> USE DEF BaseInv
<1>0. "verified" \in DOMAIN credentials[e]
  BY DEF TypeInv, Columns
<1>1. CASE Kept(credentials[e], credentials'[e])
  BY <1>1 DEF Kept, ProvedInv
<1>2. ASSUME NEW w \in Workers, Run(w) PROVE audit[e].proved
  <2> DEFINE cmd == task[w].todo[1]
  <2>1. CASE "verified" \notin DOMAIN cmd.set \/ credentials'[e] = credentials[e]
    <3>1. CASE credentials'[e] = credentials[e]
      BY <3>1 DEF ProvedInv
    <3>2. CASE credentials'[e] # credentials[e]
      <4>1. \A c \in DOMAIN credentials[e] :
              credentials'[e][c] = IF c \in DOMAIN cmd.set THEN cmd.set[c] ELSE credentials[e][c]
        BY <1>2, <3>2, RunTells
      <4>2. credentials'[e].verified = credentials[e].verified
        BY <1>0, <2>1, <3>2, <4>1
      <4> QED
        BY <4>2 DEF ProvedInv
    <3> QED
      BY <3>1, <3>2
  <2>2. CASE "verified" \in DOMAIN cmd.set /\ credentials'[e] # credentials[e]
    <3>1. e \in WithCredentials(cmd.id) /\ task[w].op = "FollowLink" /\ cmd.id = task[w].id
      BY <1>2, <2>2, RunTells, RunStep DEF Allows
    <3>2. task[w].id \in Employees
      BY <1>2, RunStep
    <3>3. e = task[w].id
      BY <3>1, <3>2, Found, EmployeesAssumption
    <3> QED
      BY <3>1, <3>3 DEF ProvedInv, ProvedOps
  <2> QED
    BY <2>1, <2>2
<1>3. ASSUME NEW w \in Workers, LoginSave(w), task[w].id = e,
             credentials'[e] \in {Succeeded(task[w].row), Failed(task[w].row)}
      PROVE  audit[e].proved
  <2>1. task[w].row \in Columns
    BY <1>3, LoginSaveStep
  <2>2. credentials'[e].verified = task[w].row.verified
    BY <1>3, <2>1, RowsOfLogin
  <2> QED
    BY <1>3, <2>2 DEF ProvedInv
<1>4. ASSUME NEW w \in Workers, task[w].id = e, credentials'[e] = task[w].row
      PROVE  audit[e].proved
  BY <1>4 DEF ProvedInv
<1>5. ASSUME NEW w \in Workers, InsertCredentials(w), task[w].id = e,
             credentials'[e] = NewCredentials(task[w].op = "CreatePublic")
      PROVE  audit[e].proved
  <2>1. task[w].op = "CreatePublic" /\ task[w].pc = "insertCredentials"
    BY <1>5, NewUnverified DEF InsertCredentials, At
  <2> QED
    BY <1>5, <2>1 DEF ProvedInv
<1> QED
  BY <1>1, <1>2, <1>3, <1>4, <1>5, AnyRow

\* Which steps write to Redis.
LEMMA RedisFrame ==
  ASSUME TypeInv, StoreStep, \A w \in Workers : ~Run(w), NEW k \in Keys, redis'[k] # "nil"
  PROVE  redis'[k] = redis[k]
<1>1. ASSUME NEW w \in Workers,
             \/ Quiet(w) \/ LoginSave(w) \/ GoogleInsert(w) \/ GoogleCredentials(w) \/ GoogleSave(w)
             \/ MailLink(w) \/ InsertEmployee(w) \/ InsertCredentials(w)
             \/ InsertSubscription(w) \/ CompensateSupplier(w)
      PROVE  redis' = redis
  BY <1>1 DEF Quiet, LoginSave, GoogleInsert, GoogleCredentials, GoogleSave, MailLink,
              InsertEmployee, InsertCredentials, InsertSubscription, CompensateSupplier, store
<1>2. ASSUME \/ \E e \in Employees : LockExpires(e) \/ LinkExpires(e)
             \/ \E w \in Workers, e \in Employees, code \in OtpCodes :
                  VerifySmsPublic(w, e, code) \/ VerifyEmailPublic(w, e, code)
             \/ \E w \in Workers, e \in Employees, l \in Links : FollowLink(w, e, l)
             \/ \E w \in Workers, e \in Employees : RemoveEmployee(w, e)
             \/ \E w \in Workers, s \in Suppliers, e \in Employees : CreateSupplier(w, s, e)
             \/ \E w \in Workers, s \in Suppliers : RemoveSupplier(w, s)
      PROVE  redis' = redis
  BY <1>2 DEF LockExpires, LinkExpires, VerifySmsPublic, VerifyEmailPublic, FollowLink,
              RemoveEmployee, CreateSupplier, RemoveSupplier, store
<1>3. ASSUME NEW j \in Keys, Expire(j) PROVE redis'[k] = redis[k]
  BY <1>3 DEF Expire, TypeInv
<1>4. redis' = redis \/ \E j \in Keys : Expire(j)
  BY <1>1, <1>2, Zenon DEF StoreStep
<1> QED
  BY <1>3, <1>4

LEMMA MarkProved ==
  ASSUME BaseInv, FirstStays, StoreStep, ProvedInv,
         NEW e \in Employees, NEW k \in Marks(e), redis'[k] # "nil"
  PROVE  audit[e].proved
<1> USE DEF BaseInv
<1>0. k \in Keys
  BY KeysTyped DEF Marks, KeyKinds
<1>1. CASE redis'[k] = redis[k]
  BY <1>1 DEF ProvedInv
<1>2. ASSUME NEW w \in Workers, Run(w), redis'[k] # redis[k] PROVE audit[e].proved
  <2> DEFINE cmd == task[w].todo[1]
  <2>1. redis' = AfterSet(cmd.keys, cmd.value)
    BY <1>2, RunStep
  <2>2. k \in cmd.keys /\ cmd.value # "nil"
    BY <1>0, <1>2, <2>1 DEF AfterSet
  <2>3. e = task[w].id /\ task[w].op \in {"VerifySmsPublic", "VerifyEmailPublic"}
    BY <1>2, <2>2, RunStep DEF Allows
  <2> QED
    BY <2>3 DEF ProvedInv, ProvedOps
<1> QED
  BY <1>0, <1>1, <1>2, RedisFrame

\* Who has seen a mark, a code or a link, or holds a verified row, is proved.
LEMMA RequestProved ==
  ASSUME BaseInv, FirstStays, StoreStep, LinksInv, ProvedInv, NEW w \in Workers,
         task'[w].row.verified \/ task'[w].got # {} \/ task'[w].op \in ProvedOps
  PROVE  audit'[task'[w].id].proved
<1> USE DEF BaseInv
<1>1. task'[w] \in Tasks /\ task'[w] # Idle
  BY Movement, NewUnverified
<1>2. task'[w].id \in Employees
  BY <1>1 DEF Tasks, Reaches
<1>3. CASE audit[task'[w].id].proved
  BY <1>2, <1>3, AuditGrows
<1>4. CASE task'[w] = task[w] \/ Carried(w, task'[w])
  <2>1. /\ task'[w].row = task[w].row /\ task'[w].got = task[w].got
        /\ task'[w].op = task[w].op /\ task'[w].id = task[w].id
    BY <1>4 DEF Carried
  <2> QED
    BY <1>3, <2>1 DEF ProvedInv
<1>5. CASE QuietStart(w, task'[w])
  <2>1. CASE task'[w].row.verified
    <3>1. task'[w].row = credentials[task'[w].id]
      BY <1>5, <2>1, NewUnverified DEF QuietStart
    <3> QED
      BY <1>2, <1>3, <2>1, <3>1 DEF ProvedInv
  <2>2. CASE task'[w].got # {}
    <3>1. Marked("smsVerified", task'[w].id) # {}
      BY <1>5, <2>2 DEF QuietStart
    <3> QED
      BY <1>2, <1>3, <3>1, MarkedProved
  <2>3. CASE task'[w].op \in ProvedOps
    BY <1>5, <2>3 DEF QuietStart, ProvedOps
  <2> QED
    BY <2>1, <2>2, <2>3
<1>6. CASE QuietGoesOn(w, task'[w])
  <2>1. CASE task'[w].op \in LinkOps
    BY <1>1, <2>1, NewUnverified DEF Tasks, Carries, LinkOps, ProvedOps
  <2>2. CASE task'[w].op \notin LinkOps
    <3>1. /\ task'[w].op = task[w].op /\ task'[w].row = task[w].row /\ task'[w].id = task[w].id
          /\ task'[w].got = task[w].got \/ task'[w].got = task[w].got \cup Marked("emailVerified", task'[w].id)
      BY <1>6, <2>2 DEF QuietGoesOn
    <3>2. CASE task[w].row.verified \/ task[w].got # {} \/ task[w].op \in ProvedOps
      BY <1>3, <3>1, <3>2 DEF ProvedInv
    <3>3. CASE Marked("emailVerified", task'[w].id) # {}
      BY <1>2, <1>3, <3>3, MarkedProved
    <3> QED
      BY <3>1, <3>2, <3>3
  <2> QED
    BY <2>1, <2>2
<1>7. CASE Starts(w, task'[w])
  <2>1. task'[w].op # "CreateSupplier"
    BY <1>7, NewUnverified DEF Starts, ProvedOps
  <2>2. Evidence(task'[w].id)
    BY <1>7, <2>1 DEF Starts
  <2>3. ASSUME NEW l \in Links, credentials[task'[w].id].link = l, Sent(l),
               l \in audit[task'[w].id].mailed => audit'[task'[w].id].proved
        PROVE  audit'[task'[w].id].proved
    <3>1. PICK f \in Employees : l \in audit[f].mailed
      BY <2>3 DEF Sent
    <3>2. Owns(f, l) /\ Owns(task'[w].id, l)
      BY <2>3, <3>1 DEF Owns
    <3>3. f = task'[w].id
      BY <1>2, <3>2 DEF LinksInv
    <3> QED
      BY <2>3, <3>1, <3>3
  <2> QED
    BY <2>2, <2>3 DEF Evidence
<1> QED
  BY <1>1, <1>4, <1>5, <1>6, <1>7, Movement DEF Moves

\* A public registration goes on only with a mark.
LEMMA RegistrationMarked ==
  ASSUME BaseInv, FirstStays, StoreStep, ProvedInv, NEW w \in Workers, task'[w].op = "CreatePublic",
         task'[w].pc \in {"findByEmail", "insertEmployee", "insertCredentials"}
  PROVE  task'[w].got # {}
<1> USE DEF BaseInv
<1>1. task'[w] # Idle
  BY IdleRests
<1>2. CASE task'[w] = task[w]
  BY <1>2 DEF ProvedInv
<1>3. CASE Carried(w, task'[w])
  BY <1>3 DEF Carried, ProvedInv, At
<1>4. ~QuietStart(w, task'[w]) /\ ~Starts(w, task'[w])
  BY DEF QuietStart, Starts
<1>5. CASE QuietGoesOn(w, task'[w])
  <2>1. At(w, "emailMark") \/ At(w, "findByEmail")
    BY <1>5 DEF QuietGoesOn
  <2>2. CASE At(w, "emailMark")
    BY <1>5, <2>2 DEF QuietGoesOn
  <2>3. CASE At(w, "findByEmail")
    <3>1. task[w].op = "CreatePublic" /\ task'[w].got = task[w].got /\ task[w].pc = "findByEmail"
      BY <1>5, <2>3 DEF QuietGoesOn, At
    <3> QED
      BY <3>1 DEF ProvedInv
  <2> QED
    BY <2>1, <2>2, <2>3
<1> QED
  BY <1>1, <1>2, <1>3, <1>4, <1>5, Movement DEF Moves

LEMMA ProvedStep ==
  ASSUME BaseInv, StoreStep, LinksInv, ProvedInv
  PROVE  ProvedInv'
<1> SUFFICES ASSUME FirstStays PROVE ProvedInv'
  BY WorkloadStays DEF ProvedInv, FirstStays, Serial, Asked, BaseInv
<1>1. ASSUME NEW e \in Employees, audit[e].proved PROVE audit'[e].proved
  BY <1>1, AuditGrows DEF BaseInv
<1>2. ASSUME NEW e \in Employees, credentials'[e].verified PROVE audit'[e].proved
  BY <1>1, <1>2, RowProved
<1>3. ASSUME NEW e \in Employees, NEW k \in Marks(e), redis'[k] # "nil" PROVE audit'[e].proved
  BY <1>1, <1>3, MarkProved
<1>4. ASSUME NEW w \in Workers
      PROVE  /\ task'[w].row.verified \/ task'[w].got # {} \/ task'[w].op \in ProvedOps =>
                  audit'[task'[w].id].proved
             /\ task'[w].op = "CreatePublic"
                  /\ task'[w].pc \in {"findByEmail", "insertEmployee", "insertCredentials"} =>
                  task'[w].got # {}
  BY RequestProved, RegistrationMarked
<1> QED
  BY <1>2, <1>3, <1>4 DEF ProvedInv

LEMMA InitVerified ==
  ASSUME Init
  PROVE  LinksInv /\ ProvedInv
<1>1. \A w \in Workers : /\ task[w] = Idle /\ task[w].op = "none" /\ task[w].pc = "idle"
                        /\ ~task[w].row.verified /\ task[w].got = {} /\ task[w].row.link = NoLink
  BY IdleRests, NewUnverified, NewLink DEF Init
<1>2. \A e \in Employees : /\ credentials[e].link = NoLink /\ ~credentials[e].verified
                          /\ audit[e].mailed = {}
  BY NewUnverified, NewLink DEF Init
<1>3. \A l \in Links : l # NoLink
  BY NullAssumption
<1>4. LinksInv
  BY <1>1, <1>2, <1>3 DEF LinksInv, Owns, LinkOps
<1>5. \A e \in Employees : \A k \in Marks(e) : redis[k] = "nil"
  BY KeysTyped DEF Init, Marks, KeyKinds
<1>6. ProvedInv
  BY <1>1, <1>2, <1>5 DEF ProvedInv, ProvedOps
<1> QED
  BY <1>4, <1>6

\* A verified account belongs to somebody who received a code or a link at its
\* address (createPublic, verifyEmail): however registrations, logins that write
\* back whole rows, codes and links overlap, as long as the first employee, for
\* whom links are asked, is not replaced meanwhile.
THEOREM VerifiedWasProved == Spec => []VerifiedIsProved
<1> DEFINE IInv == BaseInv /\ LinksInv /\ ProvedInv
<1>1. Init => IInv
  BY InitTyped, InitOps, InitVerified DEF BaseInv
<1>2. IInv /\ [Next]_vars => IInv'
  <2> SUFFICES ASSUME BaseInv, LinksInv, ProvedInv, [Next]_vars PROVE IInv'
    OBVIOUS
  <2>1. BaseInv' /\ (StoreStep \/ UNCHANGED vars)
    BY BaseStep
  <2>2. CASE StoreStep
    BY <2>1, <2>2, LinksStep, ProvedStep
  <2>3. CASE UNCHANGED vars
    <3>1. FindById(Undefined)' = FindById(Undefined)
      BY <2>3, SameFound DEF vars
    <3>2. LinksInv'
      BY <2>3, <3>1 DEF LinksInv, FirstStays, Owns, Serial, Asked, vars
    <3>3. ProvedInv'
      BY <2>3 DEF ProvedInv, FirstStays, Serial, Asked, vars
    <3> QED
      BY <2>1, <3>2, <3>3
  <2> QED
    BY <2>1, <2>2, <2>3
<1>3. IInv => VerifiedIsProved
  BY DEF ProvedInv, VerifiedIsProved, Live
<1> QED
  BY <1>1, <1>2, <1>3, PTL DEF Spec

=============================================================================
