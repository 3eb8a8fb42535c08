---------------------------- MODULE AccountStore ----------------------------
(***************************************************************************)
(* What the account handlers share: the rows of employees and              *)
(* employee_credentials, the one-time codes in Redis, the suppliers, and   *)
(* the call chains that work on them (employee.repository.ts,              *)
(* redis.database.service.ts).                                             *)
(*                                                                         *)
(* A worker is one request.  Between two awaits it runs alone; the         *)
(* statements that are left of it once nothing more is decided are its     *)
(* todo list, one command per await.                                       *)
(***************************************************************************)
EXTENDS Naturals, FiniteSets, Sequences

CONSTANTS
  Employees,   \* ids (and e-mail addresses) of employees, in id order
  Suppliers,
  Workers,     \* concurrently running requests
  Secrets, NoSecret,     \* secrets of authenticator apps
  BackupCodes,
  Links, NoLink,         \* tokens of verification links
  OtpCodes,              \* six-digit codes
  MaxAttempts,           \* MAX_LOGIN_ATTEMPTS
  MaxFailures,           \* bound: wrong passwords in a run
  Workloads              \* who is registered and what may be asked, see Init

AllOps == {"Login", "Google", "GenerateSecret", "Enable", "Disable",
           "NewBackupCode", "UseBackupCode", "EnableSms", "DisableSms",
           "InitiateSms", "VerifySms", "InitiateSmsPublic", "VerifySmsPublic",
           "InitiateEmailPublic", "VerifyEmailPublic", "SendLink", "Resend",
           "FollowLink", "Create", "CreatePublic", "UpdateEmployee",
           "RemoveEmployee", "CreateSupplier", "RemoveSupplier", "none"}

\* width is the number of requests that may be under way at once.
Workload == [known : SUBSET Employees, ops : SUBSET AllOps, width : 1..Cardinality(Workers)]

\* The null id; the ids of employees are compared as numbers.
Undefined == 0

ASSUME EmployeesAssumption == Employees \subseteq Nat \ {Undefined}
ASSUME NullAssumption == NoSecret \notin Secrets /\ NoLink \notin Links
ASSUME BoundsAssumption == MaxAttempts \in Nat \ {0} /\ MaxFailures \in Nat
ASSUME WorkloadsAssumption == Workloads \subseteq Workload
ASSUME OtpAssumption == {"set", "nil"} \cap OtpCodes = {}

VARIABLES
  employee,     \* a row is unused, bare (without credentials), live or deleted
  credentials,  \* the columns of employee_credentials
  redis,        \* the one-time codes and the marks of verified addresses
  supplier,     \* a row is unused, bare (without subscription), live or removed
  task,         \* the call chain of each worker
  workload,     \* never changes
  audit         \* history: what the employees did and were told

store == <<employee, credentials, redis, supplier>>

vars == <<employee, credentials, redis, supplier, task, workload, audit>>

\* The columns the guards read.  lock is locked_until: null, ahead or past;
\* age is reset_token_expires, which the verification links use.
Columns ==
  [password : {"old", "new"}, attempts : Nat, lock : {"no", "ahead", "past"},
   secret : Secrets \cup {NoSecret}, enabled : BOOLEAN,
   backup : [BackupCodes -> {"absent", "fresh", "used"}],
   phone  : BOOLEAN, sms : BOOLEAN,
   link   : Links \cup {NoLink}, age : {"no", "ahead", "past"}, verified : BOOLEAN]

NewCredentials(verified) ==
  [password |-> "old", attempts |-> 0, lock |-> "no", secret |-> NoSecret,
   enabled |-> FALSE, backup |-> [c \in BackupCodes |-> "absent"],
   phone |-> FALSE, sms |-> FALSE, link |-> NoLink, age |-> "no", verified |-> verified]

KeyKinds == {"sms", "smsMail", "pending", "meta", "emailPending",
             "smsVerified", "emailVerified"}

Key(kind, e) == <<kind, e>>

Keys == KeyKinds \X Employees

Values == OtpCodes \cup {"set", "nil"}

\* Commands, and the columns an update may name.
SetCommand(k, v) == [do |-> "set", keys |-> {k}, value |-> v, id |-> Undefined, set |-> <<>>]

DeleteCommand(ks) == [do |-> "del", keys |-> ks, value |-> "nil", id |-> Undefined, set |-> <<>>]

UpdateCommand(id, set) == [do |-> "update", keys |-> {}, value |-> "nil", id |-> id, set |-> set]

CommandOK(cmd) ==
  /\ cmd.do \in {"set", "del", "update"}
  /\ cmd.keys \subseteq Keys /\ cmd.value \in Values
  /\ cmd.id \in Employees \cup {Undefined}
  /\ DOMAIN cmd.set \subseteq DOMAIN NewCredentials(FALSE)

Pcs == {"idle", "run", "compare", "googleInsert", "googleCredentials",
        "googleSave", "saveEmployee", "getSms", "getSmsMail", "getMeta",
        "generate", "sendCheck", "mail", "emailMark", "findByEmail", "insertEmployee",
        "insertCredentials", "insertSupplier", "insertSubscription", "removeSupplier"}

Idle == [op |-> "none", pc |-> "idle", id |-> Undefined, arg |-> "nil",
         got |-> {}, row |-> NewCredentials(FALSE), next |-> "idle", todo |-> <<>>]

TaskOK(t) ==
  /\ t.op \in AllOps /\ t.pc \in Pcs /\ t.id \in Employees \cup {Undefined}
  /\ t.got \subseteq Keys /\ t.row \in Columns /\ t.next \in Pcs
  /\ \A i \in DOMAIN t.todo : CommandOK(t.todo[i])
  /\ t.pc = "run" <=> t.todo # <<>>

-----------------------------------------------------------------------------
(* Moving a worker along its call chain.                                   *)

At(w, pc) == task[w].pc = pc

Become(w, t) == task' = [task EXCEPT ![w] = t] /\ UNCHANGED workload

Throw(w) == Become(w, Idle)

Goto(w, pc) == Become(w, [task[w] EXCEPT !.pc = pc])

Accepts(w, op) ==
  /\ At(w, "idle")
  /\ Cardinality({u \in Workers : ~At(u, "idle")}) < workload.width
  /\ op \in workload.ops

\* Mutant of After: the last statement is not dropped.
After_Again(t, pc) == IF pc = "idle" THEN Idle ELSE [t EXCEPT !.pc = pc]

After(t, pc) == IF pc = "idle" THEN Idle ELSE [t EXCEPT !.pc = pc, !.todo = <<>>]

\* The chain goes on with this list of statements.
Do(t, todo) == IF todo = <<>> THEN After(t, t.next) ELSE [t EXCEPT !.pc = "run", !.todo = todo]

Begin(w, op, id, todo) == Become(w, Do([Idle EXCEPT !.op = op, !.id = id], todo))

-----------------------------------------------------------------------------
(* employee.repository.ts                                                  *)

Rows == {e \in Employees : employee[e] \in {"bare", "live"}}

\* findById: TypeORM drops a condition whose value is undefined and takes the
\* row with the lowest id.  A set with the row found, or empty.
FindById(id) ==
  IF id = Undefined THEN {e \in Rows : \A f \in Rows : e <= f} ELSE Rows \cap {id}

FindByEmail(e) == Rows \cap {e}

\* The employee, if found with its credentials.
WithCredentials(id) == {e \in FindById(id) : employee[e] = "live"}

\* The row with the given columns written.
Written(row, set) == [c \in DOMAIN row |-> IF c \in DOMAIN set THEN set[c] ELSE row[c]]

\* Mutant of AfterUpdate: update() by id touches the first credentials only.
AfterUpdate_Replaced(id, set) ==
  [e \in Employees |-> IF e \in WithCredentials(id) THEN Written(NewCredentials(FALSE), set)
                       ELSE credentials[e]]

\* updateCredentials: reads the employee by id and writes the given columns of
\* its credentials, and no others.
AfterUpdate(id, set) ==
  [e \in Employees |-> IF e \in WithCredentials(id) THEN Written(credentials[e], set)
                       ELSE credentials[e]]

\* CredentialsRepository.save of a whole entity: every column that differs from
\* the row is written.  After a removal the insert violates the foreign key.
SaveCredentials(e, row) ==
  /\ employee[e] = "live"
  /\ credentials' = [credentials EXCEPT ![e] = row]

\* delete(): the credentials go with the employee (ON DELETE CASCADE).
DeleteRow(e) == employee' = [employee EXCEPT ![e] = "deleted"]

-----------------------------------------------------------------------------
(* redis.database.service.ts: set, get and delete of single keys.          *)

AfterSet(keys, v) == [k \in Keys |-> IF k \in keys THEN v ELSE redis[k]]

\* get() parses what it finds as JSON: six digits become a number.
Parsed(code) == [type |-> "number", code |-> code]

\* The code in a request: @IsString() @Length(6, 6).
Typed(code) == [type |-> "string", code |-> code]

\* Every key is set with a time to live.
Expire(k) ==
  /\ redis[k] # "nil"
  /\ redis' = [redis EXCEPT ![k] = "nil"]
  /\ UNCHANGED <<employee, credentials, supplier, task, workload, audit>>

\* Bound: an accepted code is counted up to two.
Counted(spent, c) == IF spent[c] < 2 THEN [spent EXCEPT ![c] = @ + 1] ELSE spent

\* What an update tells the employee: a new password is in force, a backup code
\* was accepted.
Told(t, cmd, record) ==
  [record EXCEPT
     !.password = IF "password" \in DOMAIN cmd.set THEN cmd.set.password ELSE @,
     !.spent = IF t.op = "UseBackupCode" THEN Counted(@, t.arg) ELSE @]

\* The next statement of the todo list.
Run(w) ==
  /\ At(w, "run")
  /\ LET t == task[w]
         cmd == Head(t.todo)
     IN  /\ IF cmd.do = "update"
            THEN /\ credentials' = AfterUpdate(cmd.id, cmd.set)
                 /\ audit' = [e \in Employees |->
                      IF e \in WithCredentials(cmd.id) THEN Told(t, cmd, audit[e]) ELSE audit[e]]
                 /\ redis' = redis
            ELSE /\ redis' = AfterSet(cmd.keys, cmd.value)
                 /\ UNCHANGED <<credentials, audit>>
         /\ Become(w, Do(t, Tail(t.todo)))
  /\ UNCHANGED <<employee, supplier>>
=============================================================================
