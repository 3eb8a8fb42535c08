------------------------------- MODULE Login --------------------------------
(***************************************************************************)
(* AuthService: the login with a password, which counts the failures and   *)
(* locks the account, and the login with Google.                           *)
(***************************************************************************)
EXTENDS AccountStore

\* validateEmployee up to bcrypt.compare: the row is read, and kept.
LoginRead(w, e, password) ==
  /\ Accepts(w, "Login")
  /\ e \in FindByEmail(e) /\ employee[e] = "live"
  /\ credentials[e].lock # "ahead"
  /\ Become(w, [Idle EXCEPT !.op = "Login", !.pc = "compare", !.id = e,
                            !.arg = password, !.row = credentials[e]])
  /\ UNCHANGED <<store, audit>>

\* Mutant of Failed: the account locks one failure too late.
Failed_TooLate(row) ==
  [row EXCEPT !.attempts = @ + 1, !.lock = IF row.attempts >= MaxAttempts THEN "ahead" ELSE @]

\* Mutant of Failed: a success is needed before failures count again.
Failed_OnceLocked(row) ==
  [row EXCEPT !.attempts = IF row.lock = "past" THEN @ ELSE @ + 1,
              !.lock = IF row.attempts + 1 >= MaxAttempts THEN "ahead" ELSE @]

\* A wrong password on the row that was read.
Failed(row) ==
  [row EXCEPT !.attempts = @ + 1,
              !.lock = IF row.attempts + 1 >= MaxAttempts THEN "ahead" ELSE @]

Succeeded(row) == [row EXCEPT !.attempts = 0, !.lock = "no"]

\* The comparison, and the save of the whole row as it was read before.
LoginSave(w) ==
  /\ At(w, "compare")
  /\ LET t == task[w]
         right == t.arg = t.row.password
     IN  \/ /\ SaveCredentials(t.id, IF right THEN Succeeded(t.row) ELSE Failed(t.row))
            /\ audit' = [audit EXCEPT ![t.id].failures = IF right THEN 0 ELSE @ + 1]
         \/ employee[t.id] # "live" /\ UNCHANGED <<credentials, audit>>
  /\ Throw(w)
  /\ UNCHANGED <<employee, redis, supplier>>

LockExpires(e) ==
  /\ credentials[e].lock = "ahead"
  /\ credentials' = [credentials EXCEPT ![e].lock = "past"]
  /\ UNCHANGED <<employee, redis, supplier, task, workload, audit>>

\* googleAuth: an unknown employee is created, for the first supplier with a
\* creator; a known one has its credentials saved, if it has any.
Google(w, e) ==
  /\ Accepts(w, "Google")
  /\ \/ /\ FindByEmail(e) = {} /\ employee[e] = "unused" /\ Rows # {}
        /\ Become(w, [Idle EXCEPT !.op = "Google", !.pc = "googleInsert", !.id = e])
     \/ /\ WithCredentials(e) # {}
        /\ Become(w, [Idle EXCEPT !.op = "Google", !.pc = "googleCredentials",
                                  !.id = e, !.row = credentials[e]])
  /\ UNCHANGED <<store, audit>>

\* The new employee is saved, unless its address was taken meanwhile; its
\* credentials have no password_hash, which is not nullable, so their insert
\* throws and the employee stays without.
GoogleInsert(w) ==
  /\ At(w, "googleInsert")
  /\ LET e == task[w].id
     IN  employee' = [employee EXCEPT ![e] = IF @ = "unused" THEN "bare" ELSE @]
  /\ Throw(w)
  /\ UNCHANGED <<credentials, redis, supplier, audit>>

GoogleCredentials(w) ==
  /\ At(w, "googleCredentials")
  /\ LET t == task[w]
     IN  \/ SaveCredentials(t.id, t.row) /\ Goto(w, "googleSave")
         \/ employee[t.id] # "live" /\ Throw(w) /\ UNCHANGED credentials
  /\ UNCHANGED <<employee, redis, supplier, audit>>

\* Saving the employee inserts the row again if it was removed meanwhile.
GoogleSave(w) ==
  /\ At(w, "googleSave")
  /\ LET e == task[w].id
     IN  employee' = [employee EXCEPT ![e] = IF @ = "deleted" THEN "bare" ELSE @]
  /\ Throw(w)
  /\ UNCHANGED <<credentials, redis, supplier, audit>>

LoginNext ==
  \/ \E w \in Workers, e \in Employees, p \in {"old", "new"} :
       /\ audit[e].failures < MaxFailures /\ credentials[e].attempts < MaxFailures
       /\ LoginRead(w, e, p)
  \/ \E w \in Workers : LoginSave(w)
  \/ \E e \in Employees : LockExpires(e)
  \/ \E w \in Workers, e \in Employees : Google(w, e)
  \/ \E w \in Workers : GoogleInsert(w) \/ GoogleCredentials(w) \/ GoogleSave(w)
=============================================================================
