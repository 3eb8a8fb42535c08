------------------------------ MODULE Accounts ------------------------------
(***************************************************************************)
(* The account services together: login, second factor, one-time codes,    *)
(* verification links, registration.  They share the rows of               *)
(* employee_credentials, of which a login writes all columns and the other *)
(* services some.                                                          *)
(***************************************************************************)
EXTENDS Login, EmailVerification, OneTimeCodes, Registration

Init ==
  /\ workload \in Workloads
  /\ employee = [e \in Employees |-> IF e \in workload.known THEN "live" ELSE "unused"]
  /\ credentials = [e \in Employees |-> NewCredentials(FALSE)]
  /\ redis = [k \in Keys |-> "nil"]
  /\ supplier = [s \in Suppliers |-> "unused"]
  /\ task = [w \in Workers |-> Idle]
  /\ audit = [e \in Employees |->
                [password |-> "old", spent |-> [c \in BackupCodes |-> 0],
                 failures |-> 0, proved |-> FALSE, mailed |-> {}]]

Next ==
  \/ \E w \in Workers : Run(w)
  \/ LoginNext
  \/ TwoFactorNext
  \/ OneTimeCodesNext
  \/ EmailVerificationNext
  \/ RegistrationNext

Spec == Init /\ [][Next]_vars

-----------------------------------------------------------------------------

TypeOK ==
  /\ workload \in Workloads
  /\ employee \in [Employees -> {"unused", "bare", "live", "deleted"}]
  /\ credentials \in [Employees -> Columns]
  /\ redis \in [Keys -> Values]
  /\ supplier \in [Suppliers -> {"unused", "bare", "live", "removed"}]
  /\ DOMAIN task = Workers /\ \A w \in Workers : TaskOK(task[w])
  /\ audit \in [Employees -> [password : {"old", "new"}, spent : [BackupCodes -> 0..2],
                              failures : Nat, proved : BOOLEAN, mailed : SUBSET Links]]

Serial == workload.width = 1

AtRest == \A w \in Workers : At(w, "idle")

Live == {e \in Employees : employee[e] = "live"}

Asked(ops) == workload.ops \cap ops # {}

\* An account whose counter has reached MAX_LOGIN_ATTEMPTS is or was locked,
\* whatever logins overlap (auth.service.ts, validateEmployee).
AtLimitIsLocked ==
  \A e \in Live : credentials[e].attempts >= MaxAttempts => credentials[e].lock # "no"

\* Logins that do not overlap: the counter is the number of wrong passwords
\* since the last right one, also across a lock (validateEmployee).
FailuresCounted ==
  Serial /\ ~Asked({"Google"}) =>
    \A e \in Live : credentials[e].attempts = audit[e].failures

\* The password in force is the one set last (EmployeeService.update), if no
\* login, which writes back the row it read, overlaps.
LastPasswordHolds ==
  Serial \/ ~Asked({"Login", "Google"}) =>
    \A e \in Live : credentials[e].password = audit[e].password

\* Requests that do not overlap: whatever token is validated, the answer is never
\* that two-factor is enabled without a secret (two-factor-auth.service.ts,
\* validateTwoFactorToken calls this a state that should not happen).
EnabledHasSecret ==
  Serial => \A e \in Live, s \in Secrets : ValidateToken(credentials[e], s) # "incomplete"

\* Requests that do not overlap: a backup code is accepted once, also when two
\* factors are switched off and on again (verifyBackupCode).
CodesOnce == Serial => \A e \in Employees, c \in BackupCodes : audit[e].spent[c] <= 1

\* The first employee, whom the routes of the links act for, stays the first
\* while a link is generated and mailed.
FirstStays ==
  Serial \/ ~Asked({"SendLink", "Resend"})
         \/ ~Asked({"Google", "Create", "CreatePublic", "CreateSupplier", "RemoveEmployee"})

\* A verified account belongs to somebody who received a code or a link at its
\* address, however requests of the registration overlap (createPublic,
\* verifyEmail).  Not so when an employee is removed between the two reads of a
\* link request: the token is then stored for another than it is mailed to.
VerifiedIsProved ==
  FirstStays => \A e \in Live : credentials[e].verified => audit[e].proved

\* Nothing is left half created once every request has ended: employees have
\* credentials and suppliers subscriptions (EmployeeRepository.create,
\* SupplierService.create; the login with Google is the exception).
NothingHalfCreated ==
  AtRest /\ ~Asked({"Google"}) =>
    /\ \A e \in Employees : employee[e] # "bare"
    /\ \A s \in Suppliers : supplier[s] # "bare"

\* The right code confirms the phone number (verifySmsOtpForPhoneNumber).
RightCodeIsAccepted ==
  [][\A w \in Workers :
       At(w, "getSms") /\ redis[Key("sms", task[w].id)] = task[w].arg =>
         ~At(w, "idle")']_vars

\* A second factor is changed for the employee who asks (the routes of
\* two-factor-auth.controller.ts: "para el empleado actual").
ActsForTheCaller ==
  [][\A w \in Workers, e \in Live :
       /\ At(w, "run") /\ task[w].op \in {"GenerateSecret", "Enable", "Disable"}
       /\ credentials'[e] # credentials[e]
       => e = task[w].id]_vars
=============================================================================
