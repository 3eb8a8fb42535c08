--------------------------- MODULE AccountsProofs ---------------------------
(***************************************************************************)
(* Proofs about the account services: the types of the rows and of the     *)
(* requests, and the safety properties of Accounts for any employees,      *)
(* workers and workloads.                                                  *)
(***************************************************************************)
EXTENDS Accounts, FiniteSetTheorems, TLAPS

\* The columns that the update statements name, and what they write to them.
Backups == [BackupCodes -> {"absent", "fresh", "used"}]

Settings ==
  {<<>>} \cup [password : {"old", "new"}]
  \cup [secret : Secrets] \cup [enabled : {TRUE}]
  \cup [enabled : {FALSE}, secret : {NoSecret}]
  \cup [backup : Backups]
  \cup [phone : {TRUE}] \cup [sms : BOOLEAN]
  \cup [link : Links, age : {"ahead"}]
  \cup [link : {NoLink}, age : {"no"}]
  \cup [verified : {TRUE}, link : {NoLink}, age : {"no"}]

Commands ==
  [do : {"set", "del"}, keys : SUBSET Keys, value : Values, id : {Undefined}, set : {<<>>}]
  \cup [do : {"update"}, keys : {{}}, value : {"nil"}, id : Employees \cup {Undefined},
        set : Settings]

Args == {"nil", "old", "new"} \cup Secrets \cup BackupCodes \cup OtpCodes \cup Links \cup Suppliers

Records ==
  [op : AllOps, pc : Pcs, id : Employees \cup {Undefined}, arg : Args,
   got : SUBSET Keys, row : Columns, next : {"idle", "mail", "sendCheck"},
   todo : Seq(Commands)]

Marks(e) == {Key("smsVerified", e), Key("emailVerified", e)}

LinkOps == {"SendLink", "Resend"}

CreateOps == {"Create", "CreatePublic", "CreateSupplier"}

CodeOps == {"NewBackupCode", "UseBackupCode"}

\* Which operation issues which statements.
Allows(t, cmd) ==
  /\ cmd.value # "nil" =>
       \A e \in Employees : cmd.keys \cap Marks(e) # {} =>
         e = t.id /\ t.op \in {"VerifySmsPublic", "VerifyEmailPublic"}
  /\ "verified" \in DOMAIN cmd.set => t.op = "FollowLink" /\ cmd.id = t.id
  /\ "link" \in DOMAIN cmd.set /\ cmd.set.link # NoLink =>
       t.op \in LinkOps /\ cmd.set.link = t.arg /\ cmd.id = Undefined
  /\ "enabled" \in DOMAIN cmd.set /\ cmd.set.enabled => t.op = "Enable" /\ cmd.id = Undefined
  /\ "enabled" \in DOMAIN cmd.set /\ ~cmd.set.enabled => t.op = "Disable"
  /\ "backup" \in DOMAIN cmd.set <=> t.op \in CodeOps
  /\ t.op \in CodeOps => cmd.do = "update" /\ cmd.id \in Employees
  /\ t.op = "UseBackupCode" => cmd.set.backup[t.arg] = "used"

\* What an operation carries along its call chain.
Carries(t) ==
  /\ t.got \subseteq Marks(t.id) /\ (t.op # "CreatePublic" => t.got = {})
  /\ t.op = "UseBackupCode" => t.arg \in BackupCodes
  /\ t.op \in LinkOps => t.arg \in Links
  /\ t.op = "CreateSupplier" => t.arg \in Suppliers
  /\ t.next # "idle" => t.op \in LinkOps
  /\ t.op \notin {"Login", "Google"} => t.row = NewCredentials(FALSE)

Plans(t, todo) ==
  /\ \A i \in DOMAIN todo : Allows(t, todo[i])
  /\ t.op \in CodeOps => Len(todo) <= 1

\* Which operations reach which awaits.
Reaches(t) ==
  /\ t.pc = "run" <=> t.todo # <<>>
  /\ t.pc = "idle" => t = Idle
  /\ t.pc # "idle" => t.id \in Employees /\ t.op # "none"
  /\ t.pc = "compare" => t.op = "Login"
  /\ t.pc \in {"googleInsert", "googleCredentials", "googleSave"} => t.op = "Google"
  /\ t.pc \in {"generate", "mail", "sendCheck"} => t.op \in LinkOps
  /\ t.pc \in {"insertSubscription", "removeSupplier"} => t.op = "CreateSupplier"
  /\ t.pc = "emailMark" => t.op = "CreatePublic"
  /\ t.pc \in {"findByEmail", "insertEmployee", "insertCredentials"} => t.op \in CreateOps
  /\ t.pc = "getMeta" => t.op = "VerifySmsPublic"
  /\ t.pc \in {"getSms", "getSmsMail"} => t.op = "VerifySms"
  /\ t.op \in CodeOps => t.pc = "run"

Tasks == {t \in Records : Carries(t) /\ Plans(t, t.todo) /\ Reaches(t)}

Audits ==
  [password : {"old", "new"}, spent : [BackupCodes -> 0..2], failures : Nat,
   proved : BOOLEAN, mailed : SUBSET Links]

TypeInv ==
  /\ workload \in Workloads
  /\ employee \in [Employees -> {"unused", "bare", "live", "deleted"}]
  /\ credentials \in [Employees -> Columns]
  /\ redis \in [Keys -> Values]
  /\ supplier \in [Suppliers -> {"unused", "bare", "live", "removed"}]
  /\ task \in [Workers -> Tasks]
  /\ audit \in [Employees -> Audits]

-----------------------------------------------------------------------------
(* Columns, commands and records.                                          *)

\* Writing the columns of an update keeps the type of the row.
LEMMA WrittenTyped ==
  ASSUME NEW row \in Columns, NEW s \in Settings
  PROVE  Written(row, s) \in Columns
<1>1. CASE s = <<>>
  BY <1>1 DEF Written, Columns
<1>2. CASE s \in [password : {"old", "new"}]
  BY <1>2 DEF Written, Columns
<1>3. CASE s \in [secret : Secrets]
  BY <1>3 DEF Written, Columns
<1>4. CASE s \in [enabled : {TRUE}]
  BY <1>4 DEF Written, Columns
<1>5. CASE s \in [enabled : {FALSE}, secret : {NoSecret}]
  BY <1>5 DEF Written, Columns
<1>6. CASE s \in [backup : Backups]
  BY <1>6 DEF Written, Columns, Backups
<1>7. CASE s \in [phone : {TRUE}]
  BY <1>7 DEF Written, Columns
<1>8. CASE s \in [sms : BOOLEAN]
  BY <1>8 DEF Written, Columns
<1>9. CASE s \in [link : Links, age : {"ahead"}]
  BY <1>9 DEF Written, Columns
<1>10. CASE s \in [link : {NoLink}, age : {"no"}]
  BY <1>10 DEF Written, Columns
<1>11. CASE s \in [verified : {TRUE}, link : {NoLink}, age : {"no"}]
  BY <1>11 DEF Written, Columns
<1> QED
  BY <1>1, <1>2, <1>3, <1>4, <1>5, <1>6, <1>7, <1>8, <1>9, <1>10, <1>11 DEF Settings

\* Each column of the written row is the one set, or the old one.
LEMMA WrittenColumn ==
  ASSUME NEW row \in Columns, NEW s, NEW c \in DOMAIN row
  PROVE  Written(row, s)[c] = IF c \in DOMAIN s THEN s[c] ELSE row[c]
BY DEF Written

\* The columns of each update.
LEMMA SettingKinds ==
  ASSUME NEW s \in Settings
  PROVE  /\ DOMAIN s \subseteq {"password", "secret", "enabled", "backup", "phone", "sms",
                            "link", "age", "verified"}
         /\ "password" \in DOMAIN s => s.password \in {"old", "new"}
         /\ "secret" \in DOMAIN s =>
              s.secret \in Secrets \/ ("enabled" \in DOMAIN s /\ s.enabled = FALSE)
         /\ "enabled" \in DOMAIN s => s.enabled = TRUE \/ s.enabled = FALSE
         /\ "enabled" \in DOMAIN s /\ s.enabled = TRUE => "secret" \notin DOMAIN s
         /\ "backup" \in DOMAIN s => s.backup \in Backups
         /\ "link" \in DOMAIN s => s.link \in Links \cup {NoLink}
<1>1. CASE s = <<>>
  BY <1>1
<1>2. CASE s \in [password : {"old", "new"}]
  BY <1>2
<1>3. CASE s \in [secret : Secrets]
  BY <1>3
<1>4. CASE s \in [enabled : {TRUE}]
  BY <1>4
<1>5. CASE s \in [enabled : {FALSE}, secret : {NoSecret}]
  BY <1>5
<1>6. CASE s \in [backup : Backups]
  BY <1>6
<1>7. CASE s \in [phone : {TRUE}]
  BY <1>7
<1>8. CASE s \in [sms : BOOLEAN]
  BY <1>8
<1>9. CASE s \in [link : Links, age : {"ahead"}]
  BY <1>9
<1>10. CASE s \in [link : {NoLink}, age : {"no"}]
  BY <1>10
<1>11. CASE s \in [verified : {TRUE}, link : {NoLink}, age : {"no"}]
  BY <1>11
<1> QED
  BY <1>1, <1>2, <1>3, <1>4, <1>5, <1>6, <1>7, <1>8, <1>9, <1>10, <1>11 DEF Settings

\* No update names the columns of the login.
LEMMA LoginColumns ==
  ASSUME NEW s \in Settings
  PROVE  "attempts" \notin DOMAIN s /\ "lock" \notin DOMAIN s
BY SettingKinds

\* The updates of the code, as settings.
LEMMA SettingsOfCode ==
  /\ <<>> \in Settings
  /\ \A p \in {"old", "new"} : [password |-> p] \in Settings
  /\ \A s \in Secrets : [secret |-> s] \in Settings
  /\ [enabled |-> TRUE] \in Settings
  /\ [enabled |-> FALSE, secret |-> NoSecret] \in Settings
  /\ \A b \in Backups : [backup |-> b] \in Settings
  /\ [phone |-> TRUE] \in Settings
  /\ [sms |-> TRUE] \in Settings /\ [sms |-> FALSE] \in Settings
  /\ \A l \in Links : [link |-> l, age |-> "ahead"] \in Settings
  /\ [link |-> NoLink, age |-> "no"] \in Settings
  /\ [verified |-> TRUE, link |-> NoLink, age |-> "no"] \in Settings
<1>1. /\ <<>> \in Settings
      /\ \A p \in {"old", "new"} : [password |-> p] \in Settings
      /\ \A s \in Secrets : [secret |-> s] \in Settings
      /\ [enabled |-> TRUE] \in Settings
  BY DEF Settings
<1>2. /\ [enabled |-> FALSE, secret |-> NoSecret] \in Settings
      /\ \A b \in Backups : [backup |-> b] \in Settings
      /\ [phone |-> TRUE] \in Settings
  BY DEF Settings
<1>3. [sms |-> TRUE] \in Settings /\ [sms |-> FALSE] \in Settings
  BY DEF Settings
<1>4. \A l \in Links : [link |-> l, age |-> "ahead"] \in Settings
  BY DEF Settings
<1>5. /\ [link |-> NoLink, age |-> "no"] \in Settings
      /\ [verified |-> TRUE, link |-> NoLink, age |-> "no"] \in Settings
  BY DEF Settings
<1> QED
  BY <1>1, <1>2, <1>3, <1>4, <1>5

\* The commands of the code are commands.
LEMMA CommandsOfCode ==
  /\ \A k \in Keys, v \in Values : SetCommand(k, v) \in Commands
  /\ \A ks \in SUBSET Keys : DeleteCommand(ks) \in Commands
  /\ \A id \in Employees \cup {Undefined}, s \in Settings : UpdateCommand(id, s) \in Commands
BY DEF SetCommand, DeleteCommand, UpdateCommand, Commands, Values

\* New credentials are a row, and the idle record is a record.
LEMMA NewTyped ==
  /\ \A v \in BOOLEAN : NewCredentials(v) \in Columns
  /\ Idle \in Records /\ Idle \in Tasks
<1>1. \A v \in BOOLEAN : NewCredentials(v) \in Columns
  BY DEF NewCredentials, Columns
<1>2. NewCredentials(FALSE) \in Columns
  BY <1>1
<1>3. Idle \in Records
  <2>1. <<>> \in Seq(Commands)
    OBVIOUS
  <2> QED
    BY <1>2, <2>1 DEF Idle, Records, AllOps, Pcs, Args
<1>4. Carries(Idle) /\ Plans(Idle, Idle.todo) /\ Reaches(Idle)
  BY DEF Idle, Carries, Plans, Reaches, LinkOps, CodeOps
<1> QED
  BY <1>1, <1>3, <1>4 DEF Tasks

\* Going on with a list of statements, or with what follows them.
LEMMA DoTyped ==
  ASSUME NEW t \in Records, Carries(t), t.id \in Employees, t.op # "none",
         NEW todo \in Seq(Commands), Plans(t, todo)
  PROVE  Do(t, todo) \in Tasks
<1>1. CASE todo # <<>>
  <2> DEFINE u == [t EXCEPT !.pc = "run", !.todo = todo]
  <2>1. u \in Records /\ u.pc = "run" /\ u.todo = todo /\ u.id = t.id /\ u.op = t.op
        /\ u.got = t.got /\ u.arg = t.arg /\ u.next = t.next /\ u.row = t.row
    BY DEF Records, Pcs
  <2>2. Carries(u) /\ Reaches(u)
    BY <1>1, <2>1 DEF Carries, Reaches
  <2>3. Plans(u, todo)
    BY <2>1 DEF Plans, Allows
  <2> QED
    BY <1>1, <2>1, <2>2, <2>3 DEF Do, Tasks
<1>2. CASE todo = <<>> /\ t.next # "idle"
  <2> DEFINE u == [t EXCEPT !.pc = t.next, !.todo = <<>>]
  <2>1. t.next \in {"mail", "sendCheck"} /\ t.op \in LinkOps
    BY <1>2 DEF Records, Carries
  <2> <<>> \in Seq(Commands)
    OBVIOUS
  <2>2. u \in Records /\ u.pc = t.next /\ u.todo = <<>> /\ u.id = t.id /\ u.op = t.op
        /\ u.got = t.got /\ u.arg = t.arg /\ u.next = t.next /\ u.row = t.row
    BY <2>1 DEF Records, Pcs
  <2>3. Carries(u) /\ Reaches(u)
    BY <2>1, <2>2 DEF Carries, Reaches, LinkOps, CodeOps
  <2>4. Plans(u, <<>>)
    BY <2>1, <2>2 DEF Plans, LinkOps, CodeOps
  <2> QED
    BY <1>2, <2>2, <2>3, <2>4 DEF Do, After, Tasks
<1>3. CASE todo = <<>> /\ t.next = "idle"
  BY <1>3, NewTyped DEF Do, After
<1> QED
  BY <1>1, <1>2, <1>3

\* What a list of one or two statements plans.
LEMMA OnePlan ==
  ASSUME NEW t, NEW cmd \in Commands, Allows(t, cmd)
  PROVE  <<cmd>> \in Seq(Commands) /\ <<cmd>> # <<>> /\ Plans(t, <<cmd>>)
<1>1. \A i \in DOMAIN <<cmd>> : <<cmd>>[i] = cmd
  OBVIOUS
<1>2. <<cmd>> \in Seq(Commands) /\ Len(<<cmd>>) = 1 /\ <<cmd>> # <<>>
  OBVIOUS
<1> QED
  BY <1>1, <1>2 DEF Plans

LEMMA TwoPlans ==
  ASSUME NEW t, NEW c \in Commands, NEW d \in Commands, Allows(t, c), Allows(t, d),
         t.op \notin CodeOps
  PROVE  <<c, d>> \in Seq(Commands) /\ <<c, d>> # <<>> /\ Plans(t, <<c, d>>)
<1>1. \A i \in DOMAIN <<c, d>> : <<c, d>>[i] \in {c, d}
  OBVIOUS
<1>2. <<c, d>> \in Seq(Commands) /\ <<c, d>> # <<>>
  OBVIOUS
<1> QED
  BY <1>1, <1>2 DEF Plans

LEMMA NoPlan ==
  ASSUME NEW t
  PROVE  <<>> \in Seq(Commands) /\ Plans(t, <<>>)
BY DEF Plans

\* What the commands of the code are allowed.
LEMMA AllowsDelete ==
  ASSUME NEW t, NEW ks \in SUBSET Keys, t.op \notin CodeOps
  PROVE  Allows(t, DeleteCommand(ks))
BY DEF Allows, DeleteCommand, CodeOps

LEMMA AllowsSet ==
  ASSUME NEW t, NEW k \in Keys, NEW v \in Values, t.op \notin CodeOps,
         \A e \in Employees : k \in Marks(e) =>
           e = t.id /\ t.op \in {"VerifySmsPublic", "VerifyEmailPublic"}
  PROVE  Allows(t, SetCommand(k, v))
BY DEF Allows, SetCommand, CodeOps

\* An update of columns that no rule is about.
LEMMA AllowsUpdate ==
  ASSUME NEW t, NEW id, NEW set, t.op \notin CodeOps,
         DOMAIN set \cap {"verified", "link", "enabled", "backup"} = {}
  PROVE  Allows(t, UpdateCommand(id, set))
BY DEF Allows, UpdateCommand, CodeOps

-----------------------------------------------------------------------------
(* The steps that only move a request: what the request is like then.      *)

QuietStart(w, u) ==
  /\ Accepts(w, u.op)
  /\ u.op \notin {"none", "FollowLink", "VerifySmsPublic", "VerifyEmailPublic", "CreateSupplier"}
  /\ u.pc \notin {"googleSave", "insertEmployee", "insertCredentials", "insertSubscription",
                  "removeSupplier"}
  /\ u.got = IF u.op = "CreatePublic" THEN Marked("smsVerified", u.id) ELSE {}
  /\ u.op = "CreatePublic" => u.pc = "emailMark"
  /\ IF u.pc \in {"compare", "googleCredentials"}
     THEN employee[u.id] = "live" /\ u.row = credentials[u.id]
     ELSE u.row = NewCredentials(FALSE)
  /\ u.op \in LinkOps => u.id \in FindById(Undefined) /\ FreshLink(u.arg)
  /\ u.op = "Enable" =>
       \E e \in WithCredentials(Undefined) : credentials[e].secret # NoSecret
  /\ u.op \in CodeOps =>
       \E e \in Employees, c \in BackupCodes, new \in {"fresh", "used"} :
         /\ u.todo = <<UpdateCommand(e, [backup |-> [credentials[e].backup EXCEPT ![c] = new]])>>
         /\ employee[e] = "live" /\ credentials[e].backup[c] # "used" /\ u.arg = c

QuietGoesOn(w, u) ==
  /\ ~At(w, "idle") /\ ~At(w, "run") /\ u.pc # "idle"
  /\ u.op = task[w].op /\ u.arg = task[w].arg /\ u.row = task[w].row
  /\ u.id = task[w].id \/ (u.op \in LinkOps /\ u.id \in FindById(Undefined))
  /\ u.pc \notin {"compare", "googleCredentials", "googleSave", "insertCredentials",
                  "insertSubscription"}
  /\ u.got = IF At(w, "emailMark") THEN task[w].got \cup Marked("emailVerified", u.id)
             ELSE task[w].got
  /\ At(w, "emailMark") => u.got # {}
  /\ u.pc \in {"findByEmail", "insertEmployee"} => At(w, "emailMark") \/ At(w, "findByEmail")

Quiet(w) ==
  \E u \in Tasks :
    /\ Become(w, u) /\ UNCHANGED <<store, audit>>
    /\ ~At(w, "insertCredentials") /\ ~At(w, "insertSubscription")
    /\ u = Idle \/ QuietStart(w, u) \/ QuietGoesOn(w, u)

\* What going on leaves of the record.
LEMMA DoRecord ==
  ASSUME NEW t \in Records, NEW todo \in Seq(Commands)
  PROVE  \/ Do(t, todo) = Idle
         \/ /\ Do(t, todo).op = t.op /\ Do(t, todo).id = t.id /\ Do(t, todo).arg = t.arg
            /\ Do(t, todo).got = t.got /\ Do(t, todo).row = t.row
            /\ Do(t, todo).next = t.next /\ Do(t, todo).todo = todo
            /\ Do(t, todo).pc \in {"run", "mail", "sendCheck"}
<1>1. CASE todo # <<>>
  BY <1>1 DEF Do, Records
<1>2. CASE todo = <<>> /\ t.next # "idle"
  <2>1. t.next \in {"mail", "sendCheck"}
    BY <1>2 DEF Records
  <2> QED
    BY <1>2, <2>1 DEF Do, After, Records
<1>3. CASE todo = <<>> /\ t.next = "idle"
  BY <1>3 DEF Do, After
<1> QED
  BY <1>1, <1>2, <1>3

\* A request that begins with a list of statements about nothing special.
LEMMA PlainStart ==
  ASSUME TypeInv, NEW w \in Workers, NEW t \in Records, NEW todo \in Seq(Commands),
         t.op \notin LinkOps \cup CodeOps \cup {"none", "CreatePublic", "Enable", "FollowLink",
                   "VerifySmsPublic", "VerifyEmailPublic", "CreateSupplier"},
         t.id \in Employees, t.got = {}, t.row = NewCredentials(FALSE), t.next = "idle",
         Plans(t, todo), Accepts(w, t.op), Become(w, Do(t, todo)), UNCHANGED <<store, audit>>
  PROVE  Quiet(w)
<1> DEFINE u == Do(t, todo)
<1>1. Carries(t)
  BY DEF Carries, CodeOps
<1>2. u \in Tasks
  BY <1>1, DoTyped
<1>3. ~At(w, "insertCredentials") /\ ~At(w, "insertSubscription")
  BY DEF Accepts, At
<1>4. u = Idle \/ QuietStart(w, u)
  <2>1. SUFFICES ASSUME u # Idle PROVE QuietStart(w, u)
    OBVIOUS
  <2>2. /\ Do(t, todo).op = t.op /\ Do(t, todo).id = t.id /\ Do(t, todo).got = t.got
        /\ Do(t, todo).row = t.row /\ Do(t, todo).pc \in {"run", "mail", "sendCheck"}
    <3>1. Do(t, todo) # Idle
      BY <2>1
    <3>2. t \in Records /\ todo \in Seq(Commands)
      OBVIOUS
    <3> QED
      BY ONLY <3>1, <3>2, DoRecord
  <2> QED
    BY <2>2 DEF QuietStart
<1> QED
  BY <1>2, <1>3, <1>4 DEF Quiet

\* The first employee found, and the first with credentials.
LEMMA Found ==
  ASSUME NEW id
  PROVE  /\ FindById(id) \subseteq Rows /\ Rows \subseteq Employees
         /\ WithCredentials(id) \subseteq FindById(id)
         /\ \A e \in WithCredentials(id) : employee[e] = "live"
         /\ \A e, f \in FindById(id) : e = f
         /\ id # Undefined => FindById(id) \subseteq {id}
<1>1. \A e, f \in FindById(id) : e = f
  <2> SUFFICES ASSUME NEW e \in FindById(id), NEW f \in FindById(id) PROVE e = f
    OBVIOUS
  <2>1. CASE id = Undefined
    <3>1. e \in Nat /\ f \in Nat /\ e <= f /\ f <= e
      BY <2>1, EmployeesAssumption DEF FindById, Rows
    <3> QED
      BY <3>1
  <2>2. CASE id # Undefined
    BY <2>2 DEF FindById
  <2> QED
    BY <2>1, <2>2
<1> QED
  BY <1>1 DEF FindById, WithCredentials, Rows

\* A login reads the row; a login with Google too, or creates an employee.
LEMMA LoginReadQuiet ==
  ASSUME TypeInv, NEW w \in Workers, NEW e \in Employees, NEW p \in {"old", "new"},
         LoginRead(w, e, p)
  PROVE  Quiet(w)
<1> DEFINE u == [Idle EXCEPT !.op = "Login", !.pc = "compare", !.id = e, !.arg = p,
                             !.row = credentials[e]]
<1>1. credentials[e] \in Columns /\ employee[e] = "live" /\ Become(w, u) /\ Accepts(w, "Login")
  BY DEF TypeInv, LoginRead
<1>2. /\ u \in Records /\ u.op = "Login" /\ u.pc = "compare" /\ u.id = e /\ u.got = {}
      /\ u.next = "idle" /\ u.todo = <<>> /\ u.row = credentials[e]
  BY <1>1, NewTyped DEF Idle, Records, AllOps, Pcs, Args
<1>3. u \in Tasks
  BY <1>2, NoPlan DEF Tasks, Carries, Reaches, LinkOps, CodeOps, CreateOps
<1>4. ~At(w, "insertCredentials") /\ ~At(w, "insertSubscription")
  BY <1>1 DEF Accepts, At
<1>5. QuietStart(w, u)
  BY <1>1, <1>2 DEF QuietStart, LinkOps, CodeOps
<1> QED
  BY <1>1, <1>3, <1>4, <1>5 DEF Quiet, LoginRead

LEMMA GoogleQuiet ==
  ASSUME TypeInv, NEW w \in Workers, NEW e \in Employees, Google(w, e)
  PROVE  Quiet(w)
<1> DEFINE u == [Idle EXCEPT !.op = "Google", !.pc = "googleInsert", !.id = e]
           v == [Idle EXCEPT !.op = "Google", !.pc = "googleCredentials", !.id = e,
                             !.row = credentials[e]]
<1>1. credentials[e] \in Columns /\ Accepts(w, "Google") /\ UNCHANGED <<store, audit>>
      /\ (Become(w, u) \/ (employee[e] = "live" /\ Become(w, v)))
  <2>1. e # Undefined
    BY EmployeesAssumption
  <2>2. WithCredentials(e) # {} => employee[e] = "live"
    BY <2>1, Found
  <2>3. credentials[e] \in Columns
    BY DEF TypeInv
  <2>4. Accepts(w, "Google") /\ UNCHANGED <<store, audit>>
    BY DEF Google
  <2>5. Become(w, u) \/ (employee[e] = "live" /\ Become(w, v))
    BY <2>2 DEF Google
  <2> QED
    BY <2>3, <2>4, <2>5
<1>2. /\ u \in Records /\ u.op = "Google" /\ u.pc = "googleInsert" /\ u.id = e /\ u.got = {}
      /\ u.next = "idle" /\ u.todo = <<>> /\ u.row = NewCredentials(FALSE)
  BY <1>1, NewTyped DEF Idle, Records, AllOps, Pcs, Args
<1>3. /\ v \in Records /\ v.op = "Google" /\ v.pc = "googleCredentials" /\ v.id = e
      /\ v.got = {} /\ v.next = "idle" /\ v.todo = <<>> /\ v.row = credentials[e]
  BY <1>1, NewTyped DEF Idle, Records, AllOps, Pcs, Args
<1>4. u \in Tasks
  BY <1>2, NoPlan DEF Tasks, Carries, Reaches, LinkOps, CodeOps, CreateOps
<1>5. v \in Tasks
  BY <1>3, NoPlan DEF Tasks, Carries, Reaches, LinkOps, CodeOps, CreateOps
<1>6. ~At(w, "insertCredentials") /\ ~At(w, "insertSubscription")
  BY <1>1 DEF Accepts, At
<1>7. QuietStart(w, u)
  BY <1>1, <1>2 DEF QuietStart, LinkOps, CodeOps
<1>8. employee[e] = "live" => QuietStart(w, v)
  BY <1>1, <1>3 DEF QuietStart, LinkOps, CodeOps
<1> QED
  BY <1>1, <1>4, <1>5, <1>6, <1>7, <1>8 DEF Quiet

\* A request of an authenticated employee about nothing special.
LEMMA AskQuiet ==
  ASSUME TypeInv, NEW w \in Workers, NEW caller \in Employees, NEW op \in AllOps,
         NEW arg \in Args, NEW todo \in Seq(Commands),
         op \notin LinkOps \cup CodeOps \cup {"none", "CreatePublic", "Enable", "FollowLink",
                 "VerifySmsPublic", "VerifyEmailPublic", "CreateSupplier"},
         \A t \in Records : t.op = op => Plans(t, todo),
         Ask(w, op, caller, arg, todo)
  PROVE  Quiet(w)
<1> DEFINE t == [Idle EXCEPT !.op = op, !.id = caller, !.arg = arg]
<1>1. /\ t \in Records /\ t.op = op /\ t.id = caller /\ t.got = {}
      /\ t.row = NewCredentials(FALSE) /\ t.next = "idle"
  BY NewTyped DEF Idle, Records
<1>2. Become(w, Do(t, todo)) /\ Accepts(w, op) /\ UNCHANGED <<store, audit>>
  BY DEF Ask
<1>3. Plans(t, todo)
  BY <1>1
<1> HIDE DEF t
<1> QED
  BY <1>1, <1>2, <1>3, PlainStart

\* The same for a request that begins without an argument.
LEMMA BeginQuiet ==
  ASSUME TypeInv, NEW w \in Workers, NEW id \in Employees, NEW op \in AllOps,
         NEW todo \in Seq(Commands),
         op \notin LinkOps \cup CodeOps \cup {"none", "CreatePublic", "Enable", "FollowLink",
                 "VerifySmsPublic", "VerifyEmailPublic", "CreateSupplier"},
         \A t \in Records : t.op = op => Plans(t, todo),
         Accepts(w, op), Begin(w, op, id, todo), UNCHANGED <<store, audit>>
  PROVE  Quiet(w)
<1> DEFINE t == [Idle EXCEPT !.op = op, !.id = id]
<1>1. /\ t \in Records /\ t.op = op /\ t.id = id /\ t.got = {}
      /\ t.row = NewCredentials(FALSE) /\ t.next = "idle"
  BY NewTyped DEF Idle, Records
<1>2. Become(w, Do(t, todo)) /\ Accepts(w, op) /\ UNCHANGED <<store, audit>>
  BY DEF Begin
<1>3. Plans(t, todo)
  BY <1>1
<1> HIDE DEF t
<1> QED
  BY <1>1, <1>2, <1>3, PlainStart

\* An update of the caller, as every route of the second factor makes it.
LEMMA CallerUpdate ==
  ASSUME NEW set \in Settings
  PROVE  UpdateCommand(Undefined, set) \in Commands
BY CommandsOfCode

LEMMA GenerateSecretQuiet ==
  ASSUME TypeInv, NEW w \in Workers, NEW caller \in Employees, NEW s \in Secrets,
         GenerateSecret(w, caller, s)
  PROVE  Quiet(w)
<1> DEFINE cmd == UpdateCommand(Undefined, [secret |-> s])
<1>1. cmd \in Commands
  BY SettingsOfCode, CallerUpdate
<1>2. ASSUME NEW t \in Records, t.op = "GenerateSecret"
      PROVE  <<cmd>> \in Seq(Commands) /\ Plans(t, <<cmd>>)
  <2>1. t.op \notin CodeOps /\ DOMAIN [secret |-> s] \cap {"verified", "link", "enabled", "backup"} = {}
    BY <1>2 DEF CodeOps
  <2>2. Allows(t, cmd)
    BY <2>1, AllowsUpdate
  <2> QED
    BY <1>1, <2>2, OnePlan
<1>3. Ask(w, "GenerateSecret", caller, s, <<cmd>>)
  BY DEF GenerateSecret, CallerId
<1>4. <<cmd>> \in Seq(Commands)
  BY <1>1
<1>5. s \in Args /\ "GenerateSecret" \in AllOps
  BY DEF Args, AllOps
<1> HIDE DEF cmd
<1> QED
  BY <1>2, <1>3, <1>4, <1>5, AskQuiet DEF LinkOps, CodeOps

\* One update of columns that no rule is about, and no statement at all.
LEMMA PlainUpdate ==
  ASSUME NEW op, op \notin CodeOps, NEW id \in Employees \cup {Undefined}, NEW set \in Settings,
         DOMAIN set \cap {"verified", "link", "enabled", "backup"} = {}
  PROVE  /\ <<UpdateCommand(id, set)>> \in Seq(Commands)
         /\ \A t \in Records : t.op = op => Plans(t, <<UpdateCommand(id, set)>>)
<1> DEFINE cmd == UpdateCommand(id, set)
<1>1. cmd \in Commands
  BY CommandsOfCode
<1>2. ASSUME NEW t \in Records, t.op = op PROVE Plans(t, <<cmd>>)
  <2>1. Allows(t, cmd)
    BY <1>2, AllowsUpdate
  <2> QED
    BY <1>1, <2>1, OnePlan
<1> QED
  BY <1>1, <1>2

LEMMA EnableSmsQuiet ==
  ASSUME TypeInv, NEW w \in Workers, NEW caller \in Employees, EnableSms(w, caller)
  PROVE  Quiet(w)
<1> DEFINE cmd == UpdateCommand(Undefined, [sms |-> TRUE])
<1>1. PICK todo \in {<<>>, <<cmd>>} : Ask(w, "EnableSms", caller, "nil", todo)
  BY DEF EnableSms, CallerId
<1>2. DOMAIN [sms |-> TRUE] \cap {"verified", "link", "enabled", "backup"} = {}
  OBVIOUS
<1>3. todo \in Seq(Commands) /\ \A t \in Records : t.op = "EnableSms" => Plans(t, todo)
  <2>1. CASE todo = <<>>
    BY <2>1, NoPlan
  <2>2. CASE todo = <<cmd>>
    BY <1>2, <2>2, PlainUpdate, SettingsOfCode DEF CodeOps
  <2> QED
    BY <2>1, <2>2
<1>4. "nil" \in Args /\ "EnableSms" \in AllOps
  BY DEF Args, AllOps
<1> QED
  BY <1>1, <1>3, <1>4, AskQuiet DEF LinkOps, CodeOps

LEMMA DisableSmsQuiet ==
  ASSUME TypeInv, NEW w \in Workers, NEW caller \in Employees, DisableSms(w, caller)
  PROVE  Quiet(w)
<1> DEFINE cmd == UpdateCommand(Undefined, [sms |-> FALSE])
<1>1. PICK todo \in {<<>>, <<cmd>>} : Ask(w, "DisableSms", caller, "nil", todo)
  BY DEF DisableSms, CallerId
<1>2. DOMAIN [sms |-> FALSE] \cap {"verified", "link", "enabled", "backup"} = {}
  OBVIOUS
<1>3. todo \in Seq(Commands) /\ \A t \in Records : t.op = "DisableSms" => Plans(t, todo)
  <2>1. CASE todo = <<>>
    BY <2>1, NoPlan
  <2>2. CASE todo = <<cmd>>
    BY <1>2, <2>2, PlainUpdate, SettingsOfCode DEF CodeOps
  <2> QED
    BY <2>1, <2>2
<1>4. "nil" \in Args /\ "DisableSms" \in AllOps
  BY DEF Args, AllOps
<1> QED
  BY <1>1, <1>3, <1>4, AskQuiet DEF LinkOps, CodeOps

LEMMA UpdateEmployeeQuiet ==
  ASSUME TypeInv, NEW w \in Workers, NEW e \in Employees, NEW p \in {"old", "new"},
         UpdateEmployee(w, e, p)
  PROVE  Quiet(w)
<1> DEFINE todo == <<UpdateCommand(e, [password |-> p])>>
<1>1. /\ Accepts(w, "UpdateEmployee") /\ Begin(w, "UpdateEmployee", e, todo)
      /\ UNCHANGED <<store, audit>>
  BY DEF UpdateEmployee
<1>2. DOMAIN [password |-> p] \cap {"verified", "link", "enabled", "backup"} = {}
  OBVIOUS
<1>3. todo \in Seq(Commands) /\ \A t \in Records : t.op = "UpdateEmployee" => Plans(t, todo)
  BY <1>2, PlainUpdate, SettingsOfCode DEF CodeOps
<1>4. "UpdateEmployee" \in AllOps
  BY DEF AllOps
<1> QED
  BY <1>1, <1>3, <1>4, BeginQuiet DEF LinkOps, CodeOps

\* Two factors are switched off, with their secret.
LEMMA DisableQuiet ==
  ASSUME TypeInv, NEW w \in Workers, NEW caller \in Employees, NEW s \in Secrets,
         Disable(w, caller, s)
  PROVE  Quiet(w)
<1> DEFINE set == [enabled |-> FALSE, secret |-> NoSecret]
           cmd == UpdateCommand(Undefined, set)
<1>1. cmd \in Commands
  BY SettingsOfCode, CallerUpdate
<1>2. ASSUME NEW t \in Records, t.op = "Disable" PROVE Plans(t, <<cmd>>)
  <2>1. Allows(t, cmd)
    BY <1>2 DEF Allows, UpdateCommand, CodeOps
  <2> QED
    BY <1>1, <2>1, OnePlan
<1>3. Ask(w, "Disable", caller, s, <<cmd>>)
  BY DEF Disable, CallerId
<1>4. <<cmd>> \in Seq(Commands)
  BY <1>1
<1>5. s \in Args /\ "Disable" \in AllOps
  BY DEF Args, AllOps
<1> HIDE DEF cmd
<1> QED
  BY <1>2, <1>3, <1>4, <1>5, AskQuiet DEF LinkOps, CodeOps

\* They are switched on only for an employee with a secret.
LEMMA EnableQuiet ==
  ASSUME TypeInv, NEW w \in Workers, NEW caller \in Employees, NEW s \in Secrets,
         Enable(w, caller, s)
  PROVE  Quiet(w)
<1> DEFINE cmd == UpdateCommand(Undefined, [enabled |-> TRUE])
           t == [Idle EXCEPT !.op = "Enable", !.id = caller, !.arg = s]
           u == Do(t, <<cmd>>)
<1>1. PICK e \in WithCredentials(Undefined) :
        credentials[e].secret # NoSecret /\ Ask(w, "Enable", caller, s, <<cmd>>)
  BY DEF Enable, Verifies, CallerId
<1>2. cmd \in Commands
  BY SettingsOfCode, CallerUpdate
<1>3. /\ t \in Records /\ t.op = "Enable" /\ t.id = caller /\ t.got = {}
      /\ t.row = NewCredentials(FALSE) /\ t.next = "idle"
  BY NewTyped DEF Idle, Records, AllOps, Args
<1>4. Allows(t, cmd)
  BY <1>3 DEF Allows, UpdateCommand, CodeOps
<1>5. <<cmd>> \in Seq(Commands) /\ <<cmd>> # <<>> /\ Plans(t, <<cmd>>)
  BY <1>2, <1>4, OnePlan
<1>6. Become(w, u) /\ Accepts(w, "Enable") /\ UNCHANGED <<store, audit>>
  BY <1>1 DEF Ask
<1>7. Carries(t)
  BY <1>3 DEF Carries, LinkOps
<1>8. u \in Tasks
  BY <1>3, <1>5, <1>7, DoTyped
<1>9. /\ u.op = "Enable" /\ u.got = {} /\ u.row = NewCredentials(FALSE) /\ u.pc = "run"
  BY <1>3, <1>5 DEF Do, Records
<1>10. ~At(w, "insertCredentials") /\ ~At(w, "insertSubscription")
  BY <1>6 DEF Accepts, At
<1>11. QuietStart(w, u)
  BY <1>1, <1>6, <1>9 DEF QuietStart, LinkOps, CodeOps
<1> QED
  BY <1>6, <1>8, <1>10, <1>11 DEF Quiet

\* A backup code is made or used: the whole array that was read is written.
LEMMA CodeStart ==
  ASSUME TypeInv, NEW w \in Workers, NEW caller \in Employees, NEW c \in BackupCodes,
         NEW op \in CodeOps, NEW e \in Employees, NEW new \in {"fresh", "used"},
         employee[e] = "live", credentials[e].backup[c] # "used",
         op = "UseBackupCode" => new = "used",
         Ask(w, op, caller, c,
             <<UpdateCommand(e, [backup |-> [credentials[e].backup EXCEPT ![c] = new]])>>)
  PROVE  Quiet(w)
<1> DEFINE b == [credentials[e].backup EXCEPT ![c] = new]
           cmd == UpdateCommand(e, [backup |-> b])
           t == [Idle EXCEPT !.op = op, !.id = caller, !.arg = c]
           u == Do(t, <<cmd>>)
<1>1. b \in Backups /\ b[c] = new
  BY DEF TypeInv, Columns, Backups
<1>2. cmd \in Commands
  BY <1>1, SettingsOfCode, CommandsOfCode
<1>3. /\ t \in Records /\ t.op = op /\ t.id = caller /\ t.arg = c /\ t.got = {}
      /\ t.row = NewCredentials(FALSE) /\ t.next = "idle"
  BY NewTyped DEF Idle, Records, AllOps, Args, CodeOps
<1>4. Allows(t, cmd)
  BY <1>1, <1>3 DEF Allows, UpdateCommand, CodeOps
<1>5. <<cmd>> \in Seq(Commands) /\ <<cmd>> # <<>> /\ Plans(t, <<cmd>>)
  BY <1>2, <1>4, OnePlan
<1>6. Become(w, u) /\ Accepts(w, op) /\ UNCHANGED <<store, audit>>
  BY DEF Ask
<1>7. Carries(t)
  BY <1>3 DEF Carries, LinkOps, CodeOps
<1>8. u \in Tasks
  BY <1>3, <1>5, <1>7, DoTyped DEF CodeOps
<1>9. /\ u.op = op /\ u.got = {} /\ u.row = NewCredentials(FALSE) /\ u.pc = "run"
      /\ u.arg = c /\ u.todo = <<cmd>>
  BY <1>3, <1>5 DEF Do, Records
<1>10. ~At(w, "insertCredentials") /\ ~At(w, "insertSubscription")
  BY <1>6 DEF Accepts, At
<1>11. QuietStart(w, u)
  BY <1>6, <1>9 DEF QuietStart, LinkOps, CodeOps
<1> QED
  BY <1>6, <1>8, <1>10, <1>11 DEF Quiet

LEMMA NewBackupCodeQuiet ==
  ASSUME TypeInv, NEW w \in Workers, NEW caller \in Employees, NEW c \in BackupCodes,
         NewBackupCode(w, caller, c)
  PROVE  Quiet(w)
<1>1. PICK e \in WithCredentials(Undefined) :
        /\ credentials[e].backup[c] = "absent"
        /\ Ask(w, "NewBackupCode", caller, c,
               <<UpdateCommand(e, [backup |-> [credentials[e].backup EXCEPT ![c] = "fresh"]])>>)
  BY DEF NewBackupCode, CallerId
<1>2. e \in Employees /\ employee[e] = "live"
  BY Found
<1> QED
  BY <1>1, <1>2, CodeStart DEF CodeOps

LEMMA UseBackupCodeQuiet ==
  ASSUME TypeInv, NEW w \in Workers, NEW caller \in Employees, NEW c \in BackupCodes,
         UseBackupCode(w, caller, c)
  PROVE  Quiet(w)
<1>1. PICK e \in WithCredentials(Undefined) :
        /\ credentials[e].backup[c] = "fresh"
        /\ Ask(w, "UseBackupCode", caller, c,
               <<UpdateCommand(e, [backup |-> [credentials[e].backup EXCEPT ![c] = "used"]])>>)
  BY DEF UseBackupCode, CallerId
<1>2. e \in Employees /\ employee[e] = "live"
  BY Found
<1> QED
  BY <1>1, <1>2, CodeStart DEF CodeOps

-----------------------------------------------------------------------------
(* One-time codes.                                                         *)

LEMMA KeysTyped ==
  ASSUME NEW e \in Employees, NEW kind \in KeyKinds
  PROVE  Key(kind, e) \in Keys
BY DEF Key, Keys

\* A code under a key that is no mark.
LEMMA CodeCommand ==
  ASSUME NEW e \in Employees, NEW v \in Values, NEW op, op \notin CodeOps,
         NEW kind \in {"sms", "smsMail", "pending", "meta", "emailPending"}
  PROVE  /\ SetCommand(Key(kind, e), v) \in Commands
         /\ \A t \in Records : t.op = op => Allows(t, SetCommand(Key(kind, e), v))
<1>1. Key(kind, e) \in Keys
  BY KeysTyped DEF KeyKinds
<1>2. \A f \in Employees : Key(kind, e) \notin Marks(f)
  BY DEF Marks, Key
<1> QED
  BY <1>1, <1>2, CommandsOfCode, AllowsSet

LEMMA InitiateSmsQuiet ==
  ASSUME TypeInv, NEW w \in Workers, NEW e \in Employees, NEW code \in OtpCodes,
         InitiateSms(w, e, code)
  PROVE  Quiet(w)
<1> DEFINE a == UpdateCommand(e, <<>>)
           b == SetCommand(Key("sms", e), code)
           c == SetCommand(Key("smsMail", e), code)
           todo == <<a, b, c>>
<1>1. code \in Values /\ "InitiateSms" \in AllOps \ CodeOps
  BY DEF Values, AllOps, CodeOps
<1>2. a \in Commands /\ \A t \in Records : t.op = "InitiateSms" => Allows(t, a)
  <2>1. DOMAIN <<>> \cap {"verified", "link", "enabled", "backup"} = {}
    OBVIOUS
  <2> QED
    BY <1>1, <2>1, SettingsOfCode, CommandsOfCode, AllowsUpdate
<1>3. b \in Commands /\ \A t \in Records : t.op = "InitiateSms" => Allows(t, b)
  BY <1>1, CodeCommand
<1>4. c \in Commands /\ \A t \in Records : t.op = "InitiateSms" => Allows(t, c)
  BY <1>1, CodeCommand
<1>5. Accepts(w, "InitiateSms") /\ Begin(w, "InitiateSms", e, todo) /\ UNCHANGED <<store, audit>>
  BY DEF InitiateSms
<1> HIDE DEF a, b, c
<1>6. todo \in Seq(Commands) /\ \A i \in DOMAIN todo : todo[i] \in {a, b, c}
  BY <1>2, <1>3, <1>4
<1>7. \A t \in Records : t.op = "InitiateSms" => Plans(t, todo)
  BY <1>2, <1>3, <1>4, <1>6 DEF Plans, CodeOps
<1> QED
  BY <1>1, <1>5, <1>6, <1>7, BeginQuiet DEF LinkOps, CodeOps

LEMMA InitiateSmsPublicQuiet ==
  ASSUME TypeInv, NEW w \in Workers, NEW e \in Employees, NEW code \in OtpCodes,
         InitiateSmsPublic(w, e, code)
  PROVE  Quiet(w)
<1> DEFINE b == SetCommand(Key("pending", e), code)
           c == SetCommand(Key("meta", e), "set")
           todo == <<b, c>>
<1>1. code \in Values /\ "set" \in Values /\ "InitiateSmsPublic" \in AllOps \ CodeOps
  BY DEF Values, AllOps, CodeOps
<1>2. b \in Commands /\ \A t \in Records : t.op = "InitiateSmsPublic" => Allows(t, b)
  BY <1>1, CodeCommand
<1>3. c \in Commands /\ \A t \in Records : t.op = "InitiateSmsPublic" => Allows(t, c)
  BY <1>1, CodeCommand
<1>4. /\ Accepts(w, "InitiateSmsPublic") /\ Begin(w, "InitiateSmsPublic", e, todo)
      /\ UNCHANGED <<store, audit>>
  BY DEF InitiateSmsPublic
<1> HIDE DEF b, c
<1>5. todo \in Seq(Commands) /\ \A t \in Records : t.op = "InitiateSmsPublic" => Plans(t, todo)
  BY <1>1, <1>2, <1>3, TwoPlans
<1> QED
  BY <1>1, <1>4, <1>5, BeginQuiet DEF LinkOps, CodeOps

LEMMA InitiateEmailPublicQuiet ==
  ASSUME TypeInv, NEW w \in Workers, NEW e \in Employees, NEW code \in OtpCodes,
         InitiateEmailPublic(w, e, code)
  PROVE  Quiet(w)
<1> DEFINE b == SetCommand(Key("emailPending", e), code)
<1>1. code \in Values /\ "InitiateEmailPublic" \in AllOps \ CodeOps
  BY DEF Values, AllOps, CodeOps
<1>2. b \in Commands /\ \A t \in Records : t.op = "InitiateEmailPublic" => Allows(t, b)
  BY <1>1, CodeCommand
<1>3. /\ Accepts(w, "InitiateEmailPublic") /\ Begin(w, "InitiateEmailPublic", e, <<b>>)
      /\ UNCHANGED <<store, audit>>
  BY DEF InitiateEmailPublic
<1> HIDE DEF b
<1>4. <<b>> \in Seq(Commands) /\ \A t \in Records : t.op = "InitiateEmailPublic" => Plans(t, <<b>>)
  BY <1>2, OnePlan
<1> QED
  BY <1>1, <1>3, <1>4, BeginQuiet DEF LinkOps, CodeOps

LEMMA VerifySmsQuiet ==
  ASSUME TypeInv, NEW w \in Workers, NEW e \in Employees, NEW code \in OtpCodes,
         VerifySms(w, e, code)
  PROVE  Quiet(w)
<1> DEFINE u == [Idle EXCEPT !.op = "VerifySms", !.pc = "getSms", !.id = e, !.arg = code]
<1>1. Become(w, u) /\ Accepts(w, "VerifySms") /\ UNCHANGED <<store, audit>>
  BY DEF VerifySms
<1>2. /\ u \in Records /\ u.op = "VerifySms" /\ u.pc = "getSms" /\ u.id = e /\ u.got = {}
      /\ u.next = "idle" /\ u.todo = <<>> /\ u.row = NewCredentials(FALSE)
  BY NewTyped DEF Idle, Records, AllOps, Pcs, Args
<1>3. u \in Tasks
  BY <1>2, NoPlan DEF Tasks, Carries, Reaches, LinkOps, CodeOps, CreateOps
<1>4. ~At(w, "insertCredentials") /\ ~At(w, "insertSubscription")
  BY <1>1 DEF Accepts, At
<1>5. QuietStart(w, u)
  BY <1>1, <1>2 DEF QuietStart, LinkOps, CodeOps
<1> QED
  BY <1>1, <1>3, <1>4, <1>5 DEF Quiet

\* The deletion and the updates that follow a right code.
LEMMA CheckSmsQuiet ==
  ASSUME TypeInv, NEW w \in Workers, NEW k, task[w].pc \in {"getSms", "getSmsMail"},
         CheckSms(w, k), UNCHANGED <<store, audit>>
  PROVE  Quiet(w)
<1> DEFINE t == task[w]
           a == UpdateCommand(t.id, [phone |-> TRUE])
           b == DeleteCommand({Key("sms", t.id), Key("smsMail", t.id)})
           todo == <<a, b>>
           u == Do(t, todo)
<1>1. t \in Records /\ Carries(t) /\ t.op = "VerifySms" /\ t.id \in Employees
  BY DEF TypeInv, Tasks, Reaches
<1>2. a \in Commands /\ Allows(t, a)
  <2>1. DOMAIN [phone |-> TRUE] \cap {"verified", "link", "enabled", "backup"} = {}
    OBVIOUS
  <2> QED
    BY <1>1, <2>1, SettingsOfCode, CommandsOfCode, AllowsUpdate DEF CodeOps
<1>3. b \in Commands /\ Allows(t, b)
  <2>1. {Key("sms", t.id), Key("smsMail", t.id)} \in SUBSET Keys
    BY <1>1, KeysTyped DEF KeyKinds
  <2> QED
    BY <1>1, <2>1, CommandsOfCode, AllowsDelete DEF CodeOps
<1>4. todo \in Seq(Commands) /\ todo # <<>> /\ Plans(t, todo)
  BY <1>1, <1>2, <1>3, TwoPlans DEF CodeOps
<1>5. Become(w, Idle) \/ Become(w, u)
  BY DEF CheckSms
<1>6. u \in Tasks
  BY <1>1, <1>4, DoTyped
<1>7. /\ u.op = t.op /\ u.id = t.id /\ u.arg = t.arg /\ u.got = t.got /\ u.row = t.row
      /\ u.pc = "run"
  BY <1>1, <1>4 DEF Do, Records
<1>8. QuietGoesOn(w, u)
  BY <1>7 DEF QuietGoesOn, At
<1>9. ~At(w, "insertCredentials") /\ ~At(w, "insertSubscription")
  BY DEF At
<1> QED
  BY <1>5, <1>6, <1>8, <1>9, NewTyped DEF Quiet

\* The record of a request that waits at another await.
LEMMA GotoRecord ==
  ASSUME NEW t \in Tasks, t.pc # "idle", t.pc # "run",
         NEW pc \in Pcs \ {"idle", "run", "compare"},
         pc \in {"googleInsert", "googleCredentials", "googleSave"} => t.op = "Google",
         pc \in {"generate", "mail", "sendCheck"} => t.op \in LinkOps,
         pc \in {"insertSubscription", "removeSupplier"} => t.op = "CreateSupplier",
         pc = "emailMark" => t.op = "CreatePublic",
         pc \in {"findByEmail", "insertEmployee", "insertCredentials"} => t.op \in CreateOps,
         pc = "getMeta" => t.op = "VerifySmsPublic",
         pc \in {"getSms", "getSmsMail"} => t.op = "VerifySms"
  PROVE  LET u == [t EXCEPT !.pc = pc]
         IN  /\ u \in Tasks /\ u.pc = pc /\ u.op = t.op /\ u.id = t.id /\ u.arg = t.arg
             /\ u.got = t.got /\ u.row = t.row
<1> DEFINE u == [t EXCEPT !.pc = pc]
<1>1. t \in Records /\ Carries(t) /\ Reaches(t)
  BY DEF Tasks
<1>2. /\ u \in Records /\ u.pc = pc /\ u.op = t.op /\ u.id = t.id /\ u.arg = t.arg
      /\ u.got = t.got /\ u.row = t.row /\ u.next = t.next /\ u.todo = t.todo
  BY <1>1 DEF Records
<1>3. Carries(u)
  BY <1>1, <1>2 DEF Carries
<1>4. u.todo = <<>> /\ Plans(u, <<>>)
  BY <1>1, <1>2, NoPlan DEF Reaches
<1>5. Reaches(u)
  BY <1>1, <1>2, <1>4 DEF Reaches
<1> QED
  BY <1>2, <1>3, <1>4, <1>5 DEF Tasks

LEMMA GetSmsQuiet ==
  ASSUME TypeInv, NEW w \in Workers, GetSms(w)
  PROVE  Quiet(w)
<1> DEFINE u == [task[w] EXCEPT !.pc = "getSmsMail"]
<1>1. At(w, "getSms") /\ UNCHANGED <<store, audit>>
      /\ (Become(w, u) \/ CheckSms(w, Key("sms", task[w].id)))
  BY DEF GetSms, Goto
<1>2. task[w] \in Tasks /\ task[w].pc = "getSms"
  BY <1>1 DEF TypeInv, At
<1>3. CASE Become(w, u)
  <2>1. /\ u \in Tasks /\ u.pc = "getSmsMail" /\ u.op = task[w].op /\ u.id = task[w].id
        /\ u.arg = task[w].arg /\ u.got = task[w].got /\ u.row = task[w].row
    <3>1. task[w].op = "VerifySms" /\ "getSmsMail" \in Pcs
      BY <1>2 DEF Tasks, Reaches, Pcs
    <3> QED
      BY <1>2, <3>1, GotoRecord
  <2>2. QuietGoesOn(w, u)
    BY <1>2, <2>1 DEF QuietGoesOn, At
  <2> QED
    BY <1>1, <1>2, <1>3, <2>1, <2>2 DEF Quiet, At
<1> QED
  BY <1>1, <1>2, <1>3, CheckSmsQuiet

LEMMA GetSmsMailQuiet ==
  ASSUME TypeInv, NEW w \in Workers, GetSmsMail(w)
  PROVE  Quiet(w)
<1>1. At(w, "getSmsMail") /\ UNCHANGED <<store, audit>>
      /\ (Become(w, Idle) \/ CheckSms(w, Key("smsMail", task[w].id)))
  BY DEF GetSmsMail, Throw
<1> QED
  BY <1>1, CheckSmsQuiet, NewTyped DEF Quiet, At

LEMMA GetMetaQuiet ==
  ASSUME TypeInv, NEW w \in Workers, GetMeta(w)
  PROVE  Quiet(w)
<1> DEFINE t == task[w]
           a == SetCommand(Key("smsVerified", t.id), "set")
           b == DeleteCommand({Key("pending", t.id), Key("meta", t.id)})
           todo == <<a, b>>
           u == Do(t, todo)
<1>1. /\ t \in Records /\ Carries(t) /\ t.op = "VerifySmsPublic" /\ t.id \in Employees
      /\ t.pc = "getMeta"
  BY DEF TypeInv, Tasks, Reaches, GetMeta, At
<1>2. a \in Commands /\ Allows(t, a)
  <2>1. Key("smsVerified", t.id) \in Keys /\ "set" \in Values
    BY <1>1, KeysTyped DEF KeyKinds, Values
  <2>2. \A e \in Employees : Key("smsVerified", t.id) \in Marks(e) => e = t.id
    BY DEF Marks, Key
  <2> QED
    BY <1>1, <2>1, <2>2, CommandsOfCode, AllowsSet DEF CodeOps
<1>3. b \in Commands /\ Allows(t, b)
  <2>1. {Key("pending", t.id), Key("meta", t.id)} \in SUBSET Keys
    BY <1>1, KeysTyped DEF KeyKinds
  <2> QED
    BY <1>1, <2>1, CommandsOfCode, AllowsDelete DEF CodeOps
<1>4. todo \in Seq(Commands) /\ todo # <<>> /\ Plans(t, todo)
  BY <1>1, <1>2, <1>3, TwoPlans DEF CodeOps
<1>5. Become(w, u) /\ UNCHANGED <<store, audit>>
  BY DEF GetMeta
<1>6. u \in Tasks
  BY <1>1, <1>4, DoTyped
<1>7. /\ u.op = t.op /\ u.id = t.id /\ u.arg = t.arg /\ u.got = t.got /\ u.row = t.row
      /\ u.pc = "run"
  BY <1>1, <1>4 DEF Do, Records
<1>8. QuietGoesOn(w, u)
  BY <1>1, <1>7 DEF QuietGoesOn, At
<1>9. ~At(w, "insertCredentials") /\ ~At(w, "insertSubscription")
  BY <1>1 DEF At
<1> QED
  BY <1>5, <1>6, <1>8, <1>9 DEF Quiet

-----------------------------------------------------------------------------
(* Verification links.                                                     *)

LEMMA SendLinkQuiet ==
  ASSUME TypeInv, NEW w \in Workers, NEW caller \in Employees, NEW l \in Links,
         SendLink(w, caller, l)
  PROVE  Quiet(w)
<1>1. Accepts(w, "SendLink") /\ FreshLink(l) /\ UNCHANGED <<store, audit>>
  BY DEF SendLink, Asks
<1>2. PICK e \in FindById(Undefined) :
        Become(w, [Idle EXCEPT !.op = "SendLink", !.pc = "generate", !.id = e,
                               !.arg = l, !.next = "mail"])
  BY DEF SendLink, Unverified, CallerId
<1> DEFINE u == [Idle EXCEPT !.op = "SendLink", !.pc = "generate", !.id = e,
                             !.arg = l, !.next = "mail"]
<1>3. e \in Employees
  BY Found
<1>4. /\ u \in Records /\ u.op = "SendLink" /\ u.pc = "generate" /\ u.id = e /\ u.got = {}
      /\ u.next = "mail" /\ u.todo = <<>> /\ u.row = NewCredentials(FALSE) /\ u.arg = l
  BY <1>3, NewTyped DEF Idle, Records, AllOps, Pcs, Args
<1>5. u \in Tasks
  BY <1>3, <1>4, NoPlan DEF Tasks, Carries, Reaches, LinkOps, CodeOps, CreateOps
<1>6. ~At(w, "insertCredentials") /\ ~At(w, "insertSubscription")
  BY <1>1 DEF Accepts, At
<1>7. QuietStart(w, u)
  BY <1>1, <1>4 DEF QuietStart, LinkOps, CodeOps
<1> QED
  BY <1>1, <1>2, <1>5, <1>6, <1>7 DEF Quiet

LEMMA ResendQuiet ==
  ASSUME TypeInv, NEW w \in Workers, NEW caller \in Employees, NEW l \in Links,
         Resend(w, caller, l)
  PROVE  Quiet(w)
<1> DEFINE cmd == UpdateCommand(Undefined, [link |-> NoLink, age |-> "no"])
<1>1. Accepts(w, "Resend") /\ FreshLink(l) /\ UNCHANGED <<store, audit>>
  BY DEF Resend, Asks
<1>2. PICK e \in FindById(Undefined), todo \in {<<>>, <<cmd>>} :
        Become(w, Do([Idle EXCEPT !.op = "Resend", !.id = e, !.arg = l, !.next = "sendCheck"],
                     todo))
  BY DEF Resend, Unverified, CallerId
<1> DEFINE t == [Idle EXCEPT !.op = "Resend", !.id = e, !.arg = l, !.next = "sendCheck"]
           u == Do(t, todo)
<1>3. e \in Employees
  BY Found
<1>4. /\ t \in Records /\ t.op = "Resend" /\ t.id = e /\ t.got = {} /\ t.arg = l
      /\ t.next = "sendCheck" /\ t.todo = <<>> /\ t.row = NewCredentials(FALSE)
  BY <1>3, NewTyped DEF Idle, Records, AllOps, Pcs, Args
<1>5. cmd \in Commands /\ Allows(t, cmd)
  <2>1. cmd \in Commands
    BY SettingsOfCode, CallerUpdate
  <2> QED
    BY <1>4, <2>1 DEF Allows, UpdateCommand, CodeOps
<1>6. todo \in Seq(Commands) /\ Plans(t, todo)
  <2>1. CASE todo = <<>>
    BY <2>1, NoPlan
  <2>2. CASE todo = <<cmd>>
    BY <1>5, <2>2, OnePlan
  <2> QED
    BY <2>1, <2>2
<1>7. Carries(t)
  BY <1>4 DEF Carries, LinkOps
<1> HIDE DEF t
<1>8. u \in Tasks
  BY <1>3, <1>4, <1>6, <1>7, DoTyped
<1>9. /\ u.op = "Resend" /\ u.got = {} /\ u.row = NewCredentials(FALSE)
      /\ u.pc \in {"run", "sendCheck"} /\ u.arg = l /\ u.id = e
  <2>1. CASE todo = <<>>
    BY <2>1, <1>4 DEF Do, After, Records
  <2>2. CASE todo = <<cmd>>
    BY <2>2, <1>4 DEF Do, Records
  <2> QED
    BY <2>1, <2>2
<1>10. ~At(w, "insertCredentials") /\ ~At(w, "insertSubscription")
  BY <1>1 DEF Accepts, At
<1>11. QuietStart(w, u)
  BY <1>1, <1>9 DEF QuietStart, LinkOps, CodeOps
<1>12. Become(w, u)
  BY <1>2 DEF t
<1> QED
  BY <1>1, <1>8, <1>10, <1>11, <1>12 DEF Quiet

\* The second check of a link that is sent again reads the first employee anew.
LEMMA ResendChecksQuiet ==
  ASSUME TypeInv, NEW w \in Workers, ResendChecks(w)
  PROVE  Quiet(w)
<1> DEFINE t == task[w]
<1>1. At(w, "sendCheck") /\ UNCHANGED <<store, audit>>
  BY DEF ResendChecks
<1>2. t \in Records /\ Carries(t) /\ t.op \in LinkOps /\ t.pc = "sendCheck" /\ t.todo = <<>>
  BY <1>1 DEF TypeInv, Tasks, Reaches, At
<1>3. Become(w, Idle) \/ \E e \in FindById(Undefined) :
        Become(w, [t EXCEPT !.pc = "generate", !.id = e, !.next = "mail"])
  BY DEF ResendChecks, Throw, Unverified, CallerId
<1>4. ~At(w, "insertCredentials") /\ ~At(w, "insertSubscription")
  BY <1>1 DEF At
<1>5. ASSUME NEW e \in FindById(Undefined),
             Become(w, [t EXCEPT !.pc = "generate", !.id = e, !.next = "mail"])
      PROVE  Quiet(w)
  <2> DEFINE u == [t EXCEPT !.pc = "generate", !.id = e, !.next = "mail"]
  <2>1. e \in Employees
    BY Found
  <2>2. /\ u \in Records /\ u.op = t.op /\ u.pc = "generate" /\ u.id = e /\ u.got = t.got
        /\ u.next = "mail" /\ u.todo = <<>> /\ u.row = t.row /\ u.arg = t.arg
    BY <1>2, <2>1 DEF Records, Pcs
  <2>3. t.got = {}
    BY <1>2 DEF Carries, LinkOps
  <2>4. u \in Tasks
    BY <1>2, <2>1, <2>2, <2>3, NoPlan DEF Tasks, Carries, Reaches, LinkOps, CodeOps, CreateOps
  <2>5. QuietGoesOn(w, u)
    BY <1>1, <1>2, <2>2 DEF QuietGoesOn, At
  <2> QED
    BY <1>1, <1>4, <1>5, <2>4, <2>5 DEF Quiet
<1> QED
  BY <1>1, <1>3, <1>4, <1>5, NewTyped DEF Quiet

LEMMA GenerateLinkQuiet ==
  ASSUME TypeInv, NEW w \in Workers, GenerateLink(w)
  PROVE  Quiet(w)
<1> DEFINE t == task[w]
           cmd == UpdateCommand(Undefined, [link |-> t.arg, age |-> "ahead"])
           u == Do(t, <<cmd>>)
<1>1. At(w, "generate") /\ UNCHANGED <<store, audit>> /\ (Become(w, Idle) \/ Become(w, u))
  BY DEF GenerateLink, CallerId
<1>2. /\ t \in Records /\ Carries(t) /\ t.op \in LinkOps /\ t.id \in Employees
      /\ t.arg \in Links /\ t.op # "none" /\ t.pc = "generate"
  BY <1>1 DEF TypeInv, Tasks, Carries, Reaches, At
<1>3. cmd \in Commands
  BY <1>2, SettingsOfCode, CallerUpdate
<1>4. Allows(t, cmd)
  BY <1>2 DEF Allows, UpdateCommand, LinkOps, CodeOps
<1>5. <<cmd>> \in Seq(Commands) /\ <<cmd>> # <<>> /\ Plans(t, <<cmd>>)
  BY <1>3, <1>4, OnePlan
<1>6. u \in Tasks
  BY <1>2, <1>5, DoTyped
<1>7. /\ u.op = t.op /\ u.id = t.id /\ u.arg = t.arg /\ u.got = t.got /\ u.row = t.row
      /\ u.pc = "run"
  BY <1>2, <1>5 DEF Do, Records
<1>8. QuietGoesOn(w, u)
  BY <1>2, <1>7 DEF QuietGoesOn, At
<1>9. ~At(w, "insertCredentials") /\ ~At(w, "insertSubscription")
  BY <1>1 DEF At
<1> QED
  BY <1>1, <1>6, <1>8, <1>9, NewTyped DEF Quiet

-----------------------------------------------------------------------------
(* Registration, up to the first insert.                                   *)

LEMMA CreateQuiet ==
  ASSUME TypeInv, NEW w \in Workers, NEW e \in Employees, Create(w, e)
  PROVE  Quiet(w)
<1> DEFINE u == [Idle EXCEPT !.op = "Create", !.pc = "findByEmail", !.id = e]
<1>1. Become(w, u) /\ Accepts(w, "Create") /\ UNCHANGED <<store, audit>>
  BY DEF Create
<1>2. /\ u \in Records /\ u.op = "Create" /\ u.pc = "findByEmail" /\ u.id = e /\ u.got = {}
      /\ u.next = "idle" /\ u.todo = <<>> /\ u.row = NewCredentials(FALSE)
  BY NewTyped DEF Idle, Records, AllOps, Pcs, Args
<1>3. u \in Tasks
  BY <1>2, NoPlan DEF Tasks, Carries, Reaches, LinkOps, CodeOps, CreateOps
<1>4. ~At(w, "insertCredentials") /\ ~At(w, "insertSubscription")
  BY <1>1 DEF Accepts, At
<1>5. QuietStart(w, u)
  BY <1>1, <1>2 DEF QuietStart, LinkOps, CodeOps
<1> QED
  BY <1>1, <1>3, <1>4, <1>5 DEF Quiet

LEMMA MarkedTyped ==
  ASSUME NEW e \in Employees, NEW kind \in {"smsVerified", "emailVerified"}
  PROVE  Marked(kind, e) \in SUBSET Keys /\ Marked(kind, e) \subseteq Marks(e)
BY KeysTyped DEF Marked, Marks, KeyKinds

LEMMA CreatePublicQuiet ==
  ASSUME TypeInv, NEW w \in Workers, NEW e \in Employees, CreatePublic(w, e)
  PROVE  Quiet(w)
<1> DEFINE m == Marked("smsVerified", e)
           u == [Idle EXCEPT !.op = "CreatePublic", !.pc = "emailMark", !.id = e, !.got = m]
<1>1. Become(w, u) /\ Accepts(w, "CreatePublic") /\ UNCHANGED <<store, audit>>
  BY DEF CreatePublic
<1>2. m \in SUBSET Keys /\ m \subseteq Marks(e)
  BY MarkedTyped
<1>3. /\ u \in Records /\ u.op = "CreatePublic" /\ u.pc = "emailMark" /\ u.id = e /\ u.got = m
      /\ u.next = "idle" /\ u.todo = <<>> /\ u.row = NewCredentials(FALSE)
  BY <1>2, NewTyped DEF Idle, Records, AllOps, Pcs, Args
<1>4. u \in Tasks
  BY <1>2, <1>3, NoPlan DEF Tasks, Carries, Reaches, LinkOps, CodeOps, CreateOps
<1>5. ~At(w, "insertCredentials") /\ ~At(w, "insertSubscription")
  BY <1>1 DEF Accepts, At
<1>6. QuietStart(w, u)
  BY <1>1, <1>3 DEF QuietStart, LinkOps, CodeOps
<1> QED
  BY <1>1, <1>4, <1>5, <1>6 DEF Quiet

LEMMA ReadEmailMarkQuiet ==
  ASSUME TypeInv, NEW w \in Workers, ReadEmailMark(w)
  PROVE  Quiet(w)
<1> DEFINE t == task[w]
           m == t.got \cup Marked("emailVerified", t.id)
           u == [t EXCEPT !.pc = "findByEmail", !.got = m]
<1>1. At(w, "emailMark") /\ UNCHANGED <<store, audit>>
      /\ (Become(w, Idle) \/ (m # {} /\ Become(w, u)))
  BY DEF ReadEmailMark
<1>2. /\ t \in Records /\ Carries(t) /\ t.op = "CreatePublic" /\ t.id \in Employees
      /\ t.pc = "emailMark" /\ t.todo = <<>> /\ t.next = "idle"
  BY <1>1 DEF TypeInv, Tasks, Carries, Reaches, LinkOps, At
<1>3. m \in SUBSET Keys /\ m \subseteq Marks(t.id)
  BY <1>2, MarkedTyped DEF Records, Carries
<1>4. /\ u \in Records /\ u.op = t.op /\ u.pc = "findByEmail" /\ u.id = t.id /\ u.got = m
      /\ u.next = "idle" /\ u.todo = <<>> /\ u.row = t.row /\ u.arg = t.arg
  BY <1>2, <1>3 DEF Records, Pcs
<1>5. u \in Tasks
  BY <1>2, <1>3, <1>4, NoPlan DEF Tasks, Carries, Reaches, LinkOps, CodeOps, CreateOps
<1>6. ~At(w, "insertCredentials") /\ ~At(w, "insertSubscription")
  BY <1>1 DEF At
<1>7. m # {} => QuietGoesOn(w, u)
  BY <1>2, <1>4 DEF QuietGoesOn, At
<1> QED
  BY <1>1, <1>5, <1>6, <1>7, NewTyped DEF Quiet

\* An exception of a creation: the request ends, or the supplier is removed.
LEMMA CaughtRecord ==
  ASSUME TypeInv, NEW w \in Workers, ~At(w, "idle"), ~At(w, "run"), Caught(w)
  PROVE  \E u \in Tasks :
           /\ Become(w, u)
           /\ \/ u = Idle
              \/ /\ u.op = task[w].op /\ u.id = task[w].id /\ u.arg = task[w].arg
                 /\ u.got = task[w].got /\ u.row = task[w].row /\ u.pc = "removeSupplier"
<1> DEFINE u == [task[w] EXCEPT !.pc = "removeSupplier"]
<1>1. CASE task[w].op = "CreateSupplier"
  <2>1. Become(w, u)
    BY <1>1 DEF Caught, Goto
  <2>2. /\ u \in Tasks /\ u.op = task[w].op /\ u.id = task[w].id /\ u.arg = task[w].arg
        /\ u.got = task[w].got /\ u.row = task[w].row /\ u.pc = "removeSupplier"
    <3>1. task[w] \in Tasks /\ "removeSupplier" \in Pcs
      BY DEF TypeInv, Pcs
    <3> QED
      BY <1>1, <3>1, GotoRecord DEF At
  <2> QED
    BY <2>1, <2>2
<1>2. CASE task[w].op # "CreateSupplier"
  BY <1>2, NewTyped DEF Caught, Throw
<1> QED
  BY <1>1, <1>2

LEMMA FindAddressQuiet ==
  ASSUME TypeInv, NEW w \in Workers, FindAddress(w)
  PROVE  Quiet(w)
<1> DEFINE u == [task[w] EXCEPT !.pc = "insertEmployee"]
<1>1. At(w, "findByEmail") /\ UNCHANGED <<store, audit>> /\ (Caught(w) \/ Become(w, u))
  BY DEF FindAddress, Goto
<1>2. task[w] \in Tasks /\ task[w].op \in CreateOps /\ task[w].pc = "findByEmail"
  BY <1>1 DEF TypeInv, Tasks, Reaches, At
<1>3. ~At(w, "insertCredentials") /\ ~At(w, "insertSubscription") /\ ~At(w, "idle") /\ ~At(w, "run")
  BY <1>1 DEF At
<1>4. CASE Become(w, u)
  <2>1. /\ u \in Tasks /\ u.op = task[w].op /\ u.id = task[w].id /\ u.arg = task[w].arg
        /\ u.got = task[w].got /\ u.row = task[w].row /\ u.pc = "insertEmployee"
    <3>1. "insertEmployee" \in Pcs
      BY DEF Pcs
    <3> QED
      BY <1>2, <3>1, GotoRecord
  <2>2. QuietGoesOn(w, u)
    BY <1>1, <1>2, <2>1 DEF QuietGoesOn, At
  <2> QED
    BY <1>1, <1>3, <1>4, <2>1, <2>2 DEF Quiet
<1>5. CASE Caught(w)
  <2>1. PICK v \in Tasks :
          /\ Become(w, v)
          /\ \/ v = Idle
             \/ /\ v.op = task[w].op /\ v.id = task[w].id /\ v.arg = task[w].arg
                /\ v.got = task[w].got /\ v.row = task[w].row /\ v.pc = "removeSupplier"
    BY <1>3, <1>5, CaughtRecord
  <2>2. v = Idle \/ QuietGoesOn(w, v)
    BY <1>2, <2>1 DEF QuietGoesOn, At
  <2> QED
    BY <1>1, <1>3, <2>1, <2>2 DEF Quiet
<1> QED
  BY <1>1, <1>4, <1>5

-----------------------------------------------------------------------------
(* The steps that change the store or the history.                         *)

\* A request begins.
Begins(w, u, op) ==
  /\ Become(w, u) /\ Accepts(w, op)
  /\ u.op = op /\ u.got = {} /\ u.row = NewCredentials(FALSE)

\* A request goes on with what it carries.
GoesOn(w, u) ==
  /\ Become(w, u)
  /\ \/ u = Idle
     \/ /\ u.op = task[w].op /\ u.id = task[w].id /\ u.arg = task[w].arg
        /\ u.got = task[w].got /\ u.row = task[w].row
        /\ u.pc \notin {"compare", "googleCredentials", "insertSubscription"}

LEMMA VerifySmsPublicStep ==
  ASSUME TypeInv, NEW w \in Workers, NEW e \in Employees, NEW code \in OtpCodes,
         VerifySmsPublic(w, e, code)
  PROVE  /\ \E u \in Tasks : Begins(w, u, "VerifySmsPublic") /\ u.id = e /\ u.pc = "getMeta"
         /\ redis[Key("pending", e)] = code /\ Proves(e, code, Key("pending", e))
         /\ UNCHANGED store
<1> DEFINE u == [Idle EXCEPT !.op = "VerifySmsPublic", !.pc = "getMeta", !.id = e]
<1>1. /\ Become(w, u) /\ Accepts(w, "VerifySmsPublic") /\ UNCHANGED store
      /\ Entered(Key("pending", e), code) /\ Proves(e, code, Key("pending", e))
  BY DEF VerifySmsPublic
<1>2. /\ u \in Records /\ u.op = "VerifySmsPublic" /\ u.pc = "getMeta" /\ u.id = e
      /\ u.got = {} /\ u.next = "idle" /\ u.todo = <<>> /\ u.row = NewCredentials(FALSE)
  BY NewTyped DEF Idle, Records, AllOps, Pcs, Args
<1>3. u \in Tasks
  BY <1>2, NoPlan DEF Tasks, Carries, Reaches, LinkOps, CodeOps, CreateOps
<1>4. redis[Key("pending", e)] = code
  BY <1>1 DEF Entered, Parsed, Typed
<1> QED
  BY <1>1, <1>2, <1>3, <1>4 DEF Begins

LEMMA VerifyEmailPublicStep ==
  ASSUME TypeInv, NEW w \in Workers, NEW e \in Employees, NEW code \in OtpCodes,
         VerifyEmailPublic(w, e, code)
  PROVE  /\ \E u \in Tasks : Begins(w, u, "VerifyEmailPublic") /\ u.id = e /\ u.pc = "run"
         /\ redis[Key("emailPending", e)] = code /\ Proves(e, code, Key("emailPending", e))
         /\ UNCHANGED store
<1> DEFINE a == SetCommand(Key("emailVerified", e), "set")
           b == DeleteCommand({Key("emailPending", e)})
           todo == <<a, b>>
           t == [Idle EXCEPT !.op = "VerifyEmailPublic", !.id = e]
           u == Do(t, todo)
<1>1. /\ Become(w, u) /\ Accepts(w, "VerifyEmailPublic") /\ UNCHANGED store
      /\ Entered(Key("emailPending", e), code) /\ Proves(e, code, Key("emailPending", e))
  BY DEF VerifyEmailPublic, Begin
<1>2. /\ t \in Records /\ t.op = "VerifyEmailPublic" /\ t.id = e
      /\ t.got = {} /\ t.next = "idle" /\ t.row = NewCredentials(FALSE)
  BY NewTyped DEF Idle, Records, AllOps, Args
<1>3. a \in Commands /\ Allows(t, a)
  <2>1. Key("emailVerified", e) \in Keys /\ "set" \in Values
    BY KeysTyped DEF KeyKinds, Values
  <2>2. \A f \in Employees : Key("emailVerified", e) \in Marks(f) => f = e
    BY DEF Marks, Key
  <2> QED
    BY <1>2, <2>1, <2>2, CommandsOfCode, AllowsSet DEF CodeOps
<1>4. b \in Commands /\ Allows(t, b)
  <2>1. {Key("emailPending", e)} \in SUBSET Keys
    BY KeysTyped DEF KeyKinds
  <2> QED
    BY <1>2, <2>1, CommandsOfCode, AllowsDelete DEF CodeOps
<1>5. todo \in Seq(Commands) /\ todo # <<>> /\ Plans(t, todo)
  BY <1>2, <1>3, <1>4, TwoPlans DEF CodeOps
<1>6. Carries(t)
  BY <1>2 DEF Carries, LinkOps
<1>7. u \in Tasks
  BY <1>2, <1>5, <1>6, DoTyped
<1>8. u.op = "VerifyEmailPublic" /\ u.id = e /\ u.got = {} /\ u.row = NewCredentials(FALSE)
      /\ u.pc = "run"
  BY <1>2, <1>5 DEF Do, Records
<1>9. redis[Key("emailPending", e)] = code
  BY <1>1 DEF Entered, Parsed, Typed
<1> QED
  BY <1>1, <1>7, <1>8, <1>9 DEF Begins

LEMMA FollowLinkStep ==
  ASSUME TypeInv, NEW w \in Workers, NEW e \in Employees, NEW l \in Links,
         FollowLink(w, e, l)
  PROVE  /\ \E u \in Tasks : Begins(w, u, "FollowLink") /\ u.id = e /\ u.pc = "run"
         /\ Sent(l) /\ credentials[e].link = l /\ UNCHANGED store
         /\ audit' = [audit EXCEPT ![e].proved = @ \/ l \in audit[e].mailed]
<1> DEFINE cmd == UpdateCommand(e, [verified |-> TRUE, link |-> NoLink, age |-> "no"])
           t == [Idle EXCEPT !.op = "FollowLink", !.id = e]
           u == Do(t, <<cmd>>)
<1>1. /\ Become(w, u) /\ Accepts(w, "FollowLink") /\ UNCHANGED store
      /\ Sent(l) /\ credentials[e].link = l
      /\ audit' = [audit EXCEPT ![e].proved = @ \/ l \in audit[e].mailed]
  BY DEF FollowLink, Begin, Linked
<1>2. /\ t \in Records /\ t.op = "FollowLink" /\ t.id = e
      /\ t.got = {} /\ t.next = "idle" /\ t.row = NewCredentials(FALSE)
  BY NewTyped DEF Idle, Records, AllOps, Args
<1>3. cmd \in Commands /\ Allows(t, cmd)
  <2>1. cmd \in Commands
    BY SettingsOfCode, CommandsOfCode
  <2> QED
    BY <1>2, <2>1 DEF Allows, UpdateCommand, CodeOps
<1>4. <<cmd>> \in Seq(Commands) /\ <<cmd>> # <<>> /\ Plans(t, <<cmd>>)
  BY <1>3, OnePlan
<1>5. Carries(t)
  BY <1>2 DEF Carries, LinkOps
<1>6. u \in Tasks
  BY <1>2, <1>4, <1>5, DoTyped
<1>7. u.op = "FollowLink" /\ u.id = e /\ u.got = {} /\ u.row = NewCredentials(FALSE)
      /\ u.pc = "run"
  BY <1>2, <1>4 DEF Do, Records
<1> QED
  BY <1>1, <1>6, <1>7 DEF Begins

LEMMA CreateSupplierStep ==
  ASSUME TypeInv, NEW w \in Workers, NEW e \in Employees, NEW s \in Suppliers,
         CreateSupplier(w, s, e)
  PROVE  /\ \E u \in Tasks : /\ Begins(w, u, "CreateSupplier") /\ u.id = e /\ u.arg = s
                            /\ u.pc = "insertSubscription"
         /\ supplier' = [supplier EXCEPT ![s] = "bare"]
         /\ UNCHANGED <<employee, credentials, redis, audit>>
<1> DEFINE u == [Idle EXCEPT !.op = "CreateSupplier", !.pc = "insertSubscription",
                             !.id = e, !.arg = s]
<1>1. /\ Become(w, u) /\ Accepts(w, "CreateSupplier")
      /\ supplier' = [supplier EXCEPT ![s] = "bare"]
      /\ UNCHANGED <<employee, credentials, redis, audit>>
  BY DEF CreateSupplier
<1>2. /\ u \in Records /\ u.op = "CreateSupplier" /\ u.pc = "insertSubscription" /\ u.id = e
      /\ u.got = {} /\ u.next = "idle" /\ u.todo = <<>> /\ u.row = NewCredentials(FALSE)
      /\ u.arg = s
  BY NewTyped DEF Idle, Records, AllOps, Pcs, Args
<1>3. u \in Tasks
  BY <1>2, NoPlan DEF Tasks, Carries, Reaches, LinkOps, CodeOps, CreateOps
<1> QED
  BY <1>1, <1>2, <1>3 DEF Begins

LEMMA CaughtStep ==
  ASSUME TypeInv, NEW w \in Workers, ~At(w, "idle"), ~At(w, "run"), Caught(w)
  PROVE  \E u \in Tasks :
           GoesOn(w, u) /\ u.pc \notin {"insertCredentials", "findByEmail", "insertEmployee"}
                        /\ u.pc # "googleSave"
<1>1. PICK u \in Tasks :
        /\ Become(w, u)
        /\ \/ u = Idle
           \/ /\ u.op = task[w].op /\ u.id = task[w].id /\ u.arg = task[w].arg
              /\ u.got = task[w].got /\ u.row = task[w].row /\ u.pc = "removeSupplier"
  BY CaughtRecord
<1>2. Idle.pc = "idle"
  BY DEF Idle
<1> QED
  BY <1>1, <1>2 DEF GoesOn

LEMMA InsertEmployeeStep ==
  ASSUME TypeInv, NEW w \in Workers, InsertEmployee(w)
  PROVE  /\ At(w, "insertEmployee") /\ task[w].id \in Employees
         /\ UNCHANGED <<credentials, redis, supplier, audit>>
         /\ \E u \in Tasks :
              /\ GoesOn(w, u) /\ u.pc \notin {"findByEmail", "insertEmployee", "googleSave"}
              /\ \/ /\ employee[task[w].id] = "unused" /\ u.pc = "insertCredentials"
                    /\ u.id = task[w].id /\ u.op = task[w].op /\ u.got = task[w].got
                    /\ employee' = [employee EXCEPT ![task[w].id] = "bare"]
                 \/ u.pc # "insertCredentials" /\ employee' = employee
<1>1. /\ At(w, "insertEmployee") /\ UNCHANGED <<credentials, redis, supplier, audit>>
      /\ \/ /\ employee[task[w].id] = "unused" /\ Goto(w, "insertCredentials")
            /\ employee' = [employee EXCEPT ![task[w].id] = "bare"]
         \/ Caught(w) /\ employee' = employee
  BY DEF InsertEmployee
<1>2. /\ task[w] \in Tasks /\ task[w].op \in CreateOps /\ task[w].pc = "insertEmployee"
      /\ task[w].id \in Employees
  BY <1>1 DEF TypeInv, Tasks, Reaches, At
<1>3. ~At(w, "idle") /\ ~At(w, "run")
  BY <1>1 DEF At
<1>4. CASE /\ employee[task[w].id] = "unused" /\ Goto(w, "insertCredentials")
           /\ employee' = [employee EXCEPT ![task[w].id] = "bare"]
  <2> DEFINE u == [task[w] EXCEPT !.pc = "insertCredentials"]
  <2>1. /\ u \in Tasks /\ u.op = task[w].op /\ u.id = task[w].id /\ u.arg = task[w].arg
        /\ u.got = task[w].got /\ u.row = task[w].row /\ u.pc = "insertCredentials"
    <3>1. "insertCredentials" \in Pcs
      BY DEF Pcs
    <3> QED
      BY <1>2, <3>1, GotoRecord
  <2>2. Become(w, u)
    BY <1>4 DEF Goto
  <2> QED
    BY <1>1, <1>2, <1>4, <2>1, <2>2 DEF GoesOn
<1>5. CASE Caught(w) /\ employee' = employee
  BY <1>1, <1>2, <1>3, <1>5, CaughtStep
<1> QED
  BY <1>1, <1>4, <1>5

\* The marks are at most two, so the list of their deletions is finite.
LEMMA MarksFinite ==
  ASSUME NEW e, NEW got \in SUBSET Marks(e)
  PROVE  Cardinality(got) \in Nat
<1>1. IsFiniteSet(Marks(e))
  <2>1. IsFiniteSet({Key("smsVerified", e)})
    BY FS_Singleton
  <2>2. Marks(e) = {Key("smsVerified", e)} \cup {Key("emailVerified", e)}
    BY DEF Marks
  <2> QED
    BY <2>1, <2>2, FS_AddElement
<1> QED
  BY <1>1, FS_Subset, FS_CardinalityType

LEMMA InsertCredentialsStep ==
  ASSUME TypeInv, NEW w \in Workers, InsertCredentials(w)
  PROVE  /\ At(w, "insertCredentials") /\ task[w].id \in Employees
         /\ UNCHANGED <<redis, supplier, audit>>
         /\ \E u \in Tasks :
              /\ GoesOn(w, u)
              /\ u.pc \notin {"insertCredentials", "findByEmail", "insertEmployee", "googleSave"}
         /\ \/ /\ employee[task[w].id] = "bare"
              /\ employee' = [employee EXCEPT ![task[w].id] = "live"]
              /\ credentials' = [credentials EXCEPT ![task[w].id] =
                                  NewCredentials(task[w].op = "CreatePublic")]
            \/ employee[task[w].id] # "bare" /\ UNCHANGED <<employee, credentials>>
<1> DEFINE t == task[w]
           f(i) == DeleteCommand(IF i = 1 /\ Key("smsVerified", t.id) \in t.got
                                 THEN {Key("smsVerified", t.id)} ELSE {Key("emailVerified", t.id)})
           todo == [i \in 1..Cardinality(t.got) |-> f(i)]
           u == Do(t, todo)
<1>1. /\ At(w, "insertCredentials") /\ UNCHANGED <<redis, supplier, audit>>
      /\ \/ /\ employee[t.id] = "bare" /\ Become(w, u)
            /\ employee' = [employee EXCEPT ![t.id] = "live"]
            /\ credentials' = [credentials EXCEPT ![t.id] = NewCredentials(t.op = "CreatePublic")]
         \/ employee[t.id] # "bare" /\ Caught(w) /\ UNCHANGED <<employee, credentials>>
  BY DEF InsertCredentials
<1>2. /\ t \in Records /\ Carries(t) /\ t.op \in CreateOps /\ t.pc = "insertCredentials"
      /\ t.id \in Employees
  BY <1>1 DEF TypeInv, Tasks, Reaches, At
<1>3. ~At(w, "idle") /\ ~At(w, "run")
  BY <1>1 DEF At
<1>4. ASSUME NEW i \in Nat PROVE f(i) \in Commands /\ Allows(t, f(i))
  <2>1. {Key("smsVerified", t.id)} \in SUBSET Keys /\ {Key("emailVerified", t.id)} \in SUBSET Keys
    BY <1>2, KeysTyped DEF KeyKinds
  <2> QED
    BY <1>2, <2>1, CommandsOfCode, AllowsDelete DEF CodeOps, CreateOps
<1>5. Cardinality(t.got) \in Nat
  BY <1>2, MarksFinite DEF Carries
<1>6. todo \in Seq(Commands) /\ \A i \in DOMAIN todo : Allows(t, todo[i])
  <2> HIDE DEF f
  <2> QED
    BY <1>4, <1>5
<1>7. Plans(t, todo)
  BY <1>2, <1>6 DEF Plans, CodeOps, CreateOps
<1> HIDE DEF todo
<1>8. u \in Tasks
  BY <1>2, <1>6, <1>7, DoTyped DEF CreateOps
<1>9. t.next = "idle"
  BY <1>2 DEF Carries, LinkOps, CreateOps
<1>10. u = Idle \/ (/\ u.op = t.op /\ u.id = t.id /\ u.arg = t.arg /\ u.got = t.got
                    /\ u.row = t.row /\ u.pc = "run")
  <2>1. CASE todo = <<>>
    BY <1>9, <2>1 DEF Do, After
  <2>2. CASE todo # <<>>
    BY <1>2, <2>2 DEF Do, Records
  <2> QED
    BY <2>1, <2>2
<1>11. Idle.pc = "idle"
  BY DEF Idle
<1>12. CASE /\ employee[t.id] = "bare" /\ Become(w, u)
            /\ employee' = [employee EXCEPT ![t.id] = "live"]
            /\ credentials' = [credentials EXCEPT ![t.id] = NewCredentials(t.op = "CreatePublic")]
  <2>1. GoesOn(w, u) /\ u.pc \notin {"insertCredentials", "findByEmail", "insertEmployee", "googleSave"}
    BY <1>10, <1>11, <1>12 DEF GoesOn
  <2> QED
    BY <1>1, <1>2, <1>8, <1>12, <2>1
<1>13. CASE employee[t.id] # "bare" /\ Caught(w) /\ UNCHANGED <<employee, credentials>>
  BY <1>1, <1>2, <1>3, <1>13, CaughtStep
<1> QED
  BY <1>1, <1>12, <1>13

LEMMA InsertSubscriptionStep ==
  ASSUME TypeInv, NEW w \in Workers, InsertSubscription(w)
  PROVE  /\ At(w, "insertSubscription") /\ task[w].arg \in Suppliers
         /\ UNCHANGED <<employee, credentials, redis, audit>>
         /\ \E u \in Tasks : /\ GoesOn(w, u) /\ u.op # "CreatePublic"
                            /\ u.pc \notin {"insertCredentials", "googleSave"}
         /\ \/ supplier' = [supplier EXCEPT ![task[w].arg] = "live"]
            \/ supplier[task[w].arg] # "bare" /\ supplier' = supplier
<1> DEFINE u == [task[w] EXCEPT !.pc = "findByEmail"]
<1>1. /\ At(w, "insertSubscription") /\ UNCHANGED <<employee, credentials, redis, audit>>
      /\ \/ supplier' = [supplier EXCEPT ![task[w].arg] = "live"] /\ Become(w, u)
         \/ supplier[task[w].arg] # "bare" /\ supplier' = supplier /\ Become(w, Idle)
  BY DEF InsertSubscription, Goto, Throw
<1>2. /\ task[w] \in Tasks /\ task[w].op = "CreateSupplier" /\ task[w].pc = "insertSubscription"
      /\ task[w].arg \in Suppliers
  BY <1>1 DEF TypeInv, Tasks, Carries, Reaches, At
<1>3. /\ u \in Tasks /\ u.op = task[w].op /\ u.id = task[w].id /\ u.arg = task[w].arg
      /\ u.got = task[w].got /\ u.row = task[w].row /\ u.pc = "findByEmail"
  <2>1. "findByEmail" \in Pcs
    BY DEF Pcs
  <2> QED
    BY <1>2, <2>1, GotoRecord DEF CreateOps
<1>4. Idle.pc = "idle" /\ Idle.op = "none" /\ Idle \in Tasks
  BY NewTyped DEF Idle
<1> QED
  BY <1>1, <1>2, <1>3, <1>4 DEF GoesOn

LEMMA GoogleCredentialsStep ==
  ASSUME TypeInv, NEW w \in Workers, GoogleCredentials(w)
  PROVE  /\ At(w, "googleCredentials") /\ task[w].id \in Employees
         /\ UNCHANGED <<employee, redis, supplier, audit>>
         /\ \E u \in Tasks :
              /\ GoesOn(w, u) /\ u.op \in {"Google", "none"} /\ u.pc # "insertCredentials"
              /\ u.pc = "googleSave" =>
                   /\ employee[task[w].id] = "live" /\ u.id = task[w].id
                   /\ credentials' = [credentials EXCEPT ![task[w].id] = task[w].row]
         /\ SaveCredentials(task[w].id, task[w].row) \/ credentials' = credentials
<1> DEFINE u == [task[w] EXCEPT !.pc = "googleSave"]
<1>1. /\ At(w, "googleCredentials") /\ UNCHANGED <<employee, redis, supplier, audit>>
      /\ \/ SaveCredentials(task[w].id, task[w].row) /\ Become(w, u)
         \/ credentials' = credentials /\ Become(w, Idle)
  BY DEF GoogleCredentials, Goto, Throw
<1>2. /\ task[w] \in Tasks /\ task[w].op = "Google" /\ task[w].pc = "googleCredentials"
      /\ task[w].id \in Employees
  BY <1>1 DEF TypeInv, Tasks, Reaches, At
<1>3. /\ u \in Tasks /\ u.op = task[w].op /\ u.id = task[w].id /\ u.arg = task[w].arg
      /\ u.got = task[w].got /\ u.row = task[w].row /\ u.pc = "googleSave"
  <2>1. "googleSave" \in Pcs
    BY DEF Pcs
  <2> QED
    BY <1>2, <2>1, GotoRecord
<1>4. Idle.pc = "idle" /\ Idle.op = "none" /\ Idle \in Tasks
  BY NewTyped DEF Idle
<1> QED
  BY <1>1, <1>2, <1>3, <1>4 DEF GoesOn, SaveCredentials

\* One statement of the list is run.
LEMMA RunStep ==
  ASSUME TypeInv, NEW w \in Workers, Run(w)
  PROVE  /\ At(w, "run") /\ task[w].id \in Employees /\ UNCHANGED <<employee, supplier>>
         /\ 1 \in DOMAIN task[w].todo /\ task[w].todo[1] \in Commands
         /\ Allows(task[w], task[w].todo[1])
         /\ \E u \in Tasks :
              /\ GoesOn(w, u) /\ u.pc \in {"idle", "run", "mail", "sendCheck"}
              /\ task[w].op \in CodeOps => u = Idle
         /\ LET t == task[w]
                cmd == t.todo[1]
            IN  \/ /\ cmd.do = "update" /\ redis' = redis
                   /\ credentials' = AfterUpdate(cmd.id, cmd.set)
                   /\ audit' = [e \in Employees |->
                        IF e \in WithCredentials(cmd.id) THEN Told(t, cmd, audit[e]) ELSE audit[e]]
                \/ /\ cmd.do # "update" /\ UNCHANGED <<credentials, audit>>
                   /\ redis' = AfterSet(cmd.keys, cmd.value)
<1> DEFINE t == task[w]
           u == Do(t, Tail(t.todo))
<1>1. At(w, "run") /\ UNCHANGED <<employee, supplier>> /\ Become(w, u)
  BY DEF Run
<1>2. /\ t \in Records /\ Carries(t) /\ Reaches(t) /\ Plans(t, t.todo) /\ t.pc = "run"
      /\ t.id \in Employees /\ t.op # "none" /\ t.todo \in Seq(Commands) /\ t.todo # <<>>
  BY <1>1 DEF TypeInv, Tasks, Reaches, At, Records
<1>3. 1 \in DOMAIN t.todo /\ t.todo[1] \in Commands /\ Head(t.todo) = t.todo[1]
  BY <1>2
<1>4. Allows(t, t.todo[1])
  BY <1>2, <1>3 DEF Plans
<1>5. /\ Tail(t.todo) \in Seq(Commands)
      /\ \A i \in DOMAIN Tail(t.todo) : i + 1 \in DOMAIN t.todo /\ Tail(t.todo)[i] = t.todo[i + 1]
      /\ Len(t.todo) <= 1 => Tail(t.todo) = <<>>
      /\ Len(Tail(t.todo)) <= Len(t.todo)
  BY <1>2, SMTT(30)
<1>6. Plans(t, Tail(t.todo))
  <2>1. \A i \in DOMAIN Tail(t.todo) : Allows(t, Tail(t.todo)[i])
    BY <1>2, <1>5 DEF Plans
  <2>2. t.op \in CodeOps => Len(Tail(t.todo)) <= 1
    <3>1. t.op \in CodeOps => Len(t.todo) <= 1
      BY <1>2 DEF Plans
    <3> QED
      BY <1>5, <3>1
  <2> QED
    BY <2>1, <2>2 DEF Plans
<1>7. u \in Tasks
  BY <1>2, <1>5, <1>6, DoTyped
<1>8. \/ u = Idle
      \/ /\ u.op = t.op /\ u.id = t.id /\ u.arg = t.arg /\ u.got = t.got /\ u.row = t.row
         /\ u.pc \in {"run", "mail", "sendCheck"}
  BY ONLY <1>2, <1>5, DoRecord
<1>9. t.op \in CodeOps => u = Idle
  <2>1. t.op \in CodeOps => Tail(t.todo) = <<>> /\ t.next = "idle"
    BY <1>2, <1>5 DEF Plans, Carries, LinkOps, CodeOps
  <2> QED
    BY <2>1 DEF Do, After
<1>10. Idle.pc = "idle"
  BY DEF Idle
<1>11. \E v \in Tasks :
         /\ GoesOn(w, v) /\ v.pc \in {"idle", "run", "mail", "sendCheck"}
         /\ task[w].op \in CodeOps => v = Idle
  BY <1>1, <1>7, <1>8, <1>9, <1>10 DEF GoesOn
<1>12. LET cmd == t.todo[1]
       IN  \/ /\ cmd.do = "update" /\ redis' = redis
              /\ credentials' = AfterUpdate(cmd.id, cmd.set)
              /\ audit' = [e \in Employees |->
                   IF e \in WithCredentials(cmd.id) THEN Told(t, cmd, audit[e]) ELSE audit[e]]
           \/ /\ cmd.do # "update" /\ UNCHANGED <<credentials, audit>>
              /\ redis' = AfterSet(cmd.keys, cmd.value)
  BY <1>3 DEF Run
<1> QED
  BY <1>1, <1>2, <1>3, <1>4, <1>11, <1>12

-----------------------------------------------------------------------------
(* Every step is one of these.                                             *)

StoreStep ==
  \/ \E w \in Workers :
       \/ Quiet(w) \/ Run(w)
       \/ LoginSave(w) \/ GoogleInsert(w) \/ GoogleCredentials(w) \/ GoogleSave(w)
       \/ MailLink(w) \/ InsertEmployee(w) \/ InsertCredentials(w) \/ InsertSubscription(w)
       \/ CompensateSupplier(w)
  \/ \E e \in Employees : LockExpires(e) \/ LinkExpires(e)
  \/ \E k \in Keys : Expire(k)
  \/ \E w \in Workers, e \in Employees, code \in OtpCodes :
       VerifySmsPublic(w, e, code) \/ VerifyEmailPublic(w, e, code)
  \/ \E w \in Workers, e \in Employees, l \in Links : FollowLink(w, e, l)
  \/ \E w \in Workers, e \in Employees : RemoveEmployee(w, e)
  \/ \E w \in Workers, s \in Suppliers, e \in Employees : CreateSupplier(w, s, e)
  \/ \E w \in Workers, s \in Suppliers : RemoveSupplier(w, s)

LEMMA NextSteps ==
  ASSUME TypeInv, Next
  PROVE  StoreStep
<1>1. CASE \E w \in Workers : Run(w)
  BY <1>1 DEF StoreStep
<1>2. CASE LoginNext
  <2>1. \/ \E w \in Workers, e \in Employees, p \in {"old", "new"} : LoginRead(w, e, p)
        \/ \E w \in Workers : LoginSave(w)
        \/ \E e \in Employees : LockExpires(e)
        \/ \E w \in Workers, e \in Employees : Google(w, e)
        \/ \E w \in Workers : GoogleInsert(w) \/ GoogleCredentials(w) \/ GoogleSave(w)
    BY <1>2, Zenon DEF LoginNext
  <2> QED
    BY <2>1, LoginReadQuiet, GoogleQuiet, Zenon DEF StoreStep
<1>3. CASE TwoFactorNext
  <2>1. PICK w \in Workers, e \in Employees :
          \/ \E s \in Secrets : GenerateSecret(w, e, s) \/ Enable(w, e, s) \/ Disable(w, e, s)
          \/ \E c \in BackupCodes : NewBackupCode(w, e, c) \/ UseBackupCode(w, e, c)
          \/ EnableSms(w, e) \/ DisableSms(w, e)
    BY <1>3, Zenon DEF TwoFactorNext
  <2>2. Quiet(w)
    BY <2>1, GenerateSecretQuiet, EnableQuiet, DisableQuiet, NewBackupCodeQuiet,
       UseBackupCodeQuiet, EnableSmsQuiet, DisableSmsQuiet, Zenon
  <2> QED
    BY <2>2, Zenon DEF StoreStep
<1>4. CASE OneTimeCodesNext
  <2>1. CASE \E w \in Workers, e \in Employees, code \in OtpCodes :
               \/ InitiateSms(w, e, code) \/ VerifySms(w, e, code)
               \/ InitiateSmsPublic(w, e, code) \/ InitiateEmailPublic(w, e, code)
    BY <2>1, InitiateSmsQuiet, VerifySmsQuiet, InitiateSmsPublicQuiet, InitiateEmailPublicQuiet,
       Zenon DEF StoreStep
  <2>2. CASE \E w \in Workers, e \in Employees, code \in OtpCodes :
               VerifySmsPublic(w, e, code) \/ VerifyEmailPublic(w, e, code)
    BY <2>2, Zenon DEF StoreStep
  <2>3. CASE \E w \in Workers : GetSms(w) \/ GetSmsMail(w) \/ GetMeta(w)
    BY <2>3, GetSmsQuiet, GetSmsMailQuiet, GetMetaQuiet, Zenon DEF StoreStep
  <2>4. CASE \E k \in Keys : Expire(k)
    BY <2>4, Zenon DEF StoreStep
  <2> QED
    BY <1>4, <2>1, <2>2, <2>3, <2>4, Zenon DEF OneTimeCodesNext
<1>5. CASE EmailVerificationNext
  <2>1. CASE \E w \in Workers, e \in Employees, l \in Links : SendLink(w, e, l) \/ Resend(w, e, l)
    BY <2>1, SendLinkQuiet, ResendQuiet, Zenon DEF StoreStep
  <2>2. CASE \E w \in Workers, e \in Employees, l \in Links : FollowLink(w, e, l)
    BY <2>2, Zenon DEF StoreStep
  <2>3. CASE \E w \in Workers : ResendChecks(w) \/ GenerateLink(w) \/ MailLink(w)
    BY <2>3, ResendChecksQuiet, GenerateLinkQuiet, Zenon DEF StoreStep
  <2>4. CASE \E e \in Employees : LinkExpires(e)
    BY <2>4, Zenon DEF StoreStep
  <2> QED
    BY <1>5, <2>1, <2>2, <2>3, <2>4, Zenon DEF EmailVerificationNext
<1>6. CASE RegistrationNext
  <2>1. CASE \E w \in Workers, e \in Employees :
               \/ Create(w, e) \/ CreatePublic(w, e)
               \/ \E p \in {"old", "new"} : UpdateEmployee(w, e, p)
    BY <2>1, CreateQuiet, CreatePublicQuiet, UpdateEmployeeQuiet, Zenon DEF StoreStep
  <2>2. CASE \E w \in Workers, e \in Employees :
               RemoveEmployee(w, e) \/ \E s \in Suppliers : CreateSupplier(w, s, e)
    BY <2>2, Zenon DEF StoreStep
  <2>3. CASE \E w \in Workers, s \in Suppliers : RemoveSupplier(w, s)
    BY <2>3, Zenon DEF StoreStep
  <2>4. CASE \E w \in Workers :
               \/ ReadEmailMark(w) \/ FindAddress(w) \/ InsertEmployee(w)
               \/ InsertCredentials(w) \/ InsertSubscription(w) \/ CompensateSupplier(w)
    BY <2>4, ReadEmailMarkQuiet, FindAddressQuiet, Zenon DEF StoreStep
  <2> QED
    BY <1>6, <2>1, <2>2, <2>3, <2>4, Zenon DEF RegistrationNext
<1> QED
  BY <1>1, <1>2, <1>3, <1>4, <1>5, <1>6 DEF Next

LEMMA BecomeTyped ==
  ASSUME TypeInv, NEW w \in Workers, NEW u \in Tasks, Become(w, u)
  PROVE  /\ task' \in [Workers -> Tasks] /\ workload' = workload /\ task'[w] = u
         /\ \A v \in Workers \ {w} : task'[v] = task[v]
BY DEF TypeInv, Become

\* The saves of LoginSave and what is told of them.
LEMMA LoginSaveStep ==
  ASSUME TypeInv, NEW w \in Workers, LoginSave(w)
  PROVE  /\ At(w, "compare") /\ task[w].id \in Employees /\ task[w].row \in Columns
         /\ Become(w, Idle) /\ UNCHANGED <<employee, redis, supplier>>
         /\ \/ UNCHANGED <<credentials, audit>>
            \/ /\ employee[task[w].id] = "live"
               /\ \/ /\ credentials' = [credentials EXCEPT ![task[w].id] = Succeeded(task[w].row)]
                     /\ audit' = [audit EXCEPT ![task[w].id].failures = 0]
                  \/ /\ credentials' = [credentials EXCEPT ![task[w].id] = Failed(task[w].row)]
                     /\ audit' = [audit EXCEPT ![task[w].id].failures = @ + 1]
<1>1. /\ At(w, "compare") /\ Become(w, Idle) /\ UNCHANGED <<employee, redis, supplier>>
      /\ \/ UNCHANGED <<credentials, audit>>
         \/ /\ employee[task[w].id] = "live"
            /\ \/ /\ credentials' = [credentials EXCEPT ![task[w].id] = Succeeded(task[w].row)]
                  /\ audit' = [audit EXCEPT ![task[w].id].failures = 0]
               \/ /\ credentials' = [credentials EXCEPT ![task[w].id] = Failed(task[w].row)]
                  /\ audit' = [audit EXCEPT ![task[w].id].failures = @ + 1]
  BY DEF LoginSave, Throw, SaveCredentials
<1>2. task[w].id \in Employees /\ task[w].row \in Columns
  BY <1>1 DEF TypeInv, Tasks, Reaches, Records, At
<1> QED
  BY <1>1, <1>2

LEMMA RowsOfLogin ==
  ASSUME NEW row \in Columns
  PROVE  /\ Succeeded(row) \in Columns /\ Failed(row) \in Columns
         /\ Succeeded(row).attempts = 0 /\ Succeeded(row).lock = "no"
         /\ Failed(row).attempts = row.attempts + 1
         /\ Failed(row).lock = IF row.attempts + 1 >= MaxAttempts THEN "ahead" ELSE row.lock
         /\ \A r \in {Succeeded(row), Failed(row)} :
              /\ r.password = row.password /\ r.secret = row.secret /\ r.enabled = row.enabled
              /\ r.backup = row.backup /\ r.link = row.link /\ r.verified = row.verified
<1>1. /\ Succeeded(row) \in Columns /\ Succeeded(row).attempts = 0 /\ Succeeded(row).lock = "no"
  BY DEF Succeeded, Columns
<1>2. LET r == Succeeded(row)
      IN  /\ r.password = row.password /\ r.secret = row.secret /\ r.enabled = row.enabled
          /\ r.backup = row.backup /\ r.link = row.link /\ r.verified = row.verified
  BY DEF Succeeded, Columns
<1>3. /\ Failed(row) \in Columns /\ Failed(row).attempts = row.attempts + 1
      /\ Failed(row).lock = IF row.attempts + 1 >= MaxAttempts THEN "ahead" ELSE row.lock
  <2> DEFINE lock == IF row.attempts + 1 >= MaxAttempts THEN "ahead" ELSE row.lock
             n == row.attempts + 1
  <2>1. lock \in {"no", "ahead", "past"} /\ n \in Nat
    BY DEF Columns
  <2>2. Failed(row) = [row EXCEPT !.attempts = n, !.lock = lock]
    BY Zenon DEF Failed
  <2> HIDE DEF lock, n
  <2>3. Failed(row) \in Columns /\ Failed(row).attempts = n /\ Failed(row).lock = lock
    BY <2>1, <2>2 DEF Columns
  <2> QED
    BY <2>3 DEF lock, n
<1>4. LET r == Failed(row)
      IN  /\ r.password = row.password /\ r.secret = row.secret /\ r.enabled = row.enabled
          /\ r.backup = row.backup /\ r.link = row.link /\ r.verified = row.verified
  BY DEF Failed, Columns
<1> QED
  BY <1>1, <1>2, <1>3, <1>4

\* A statement of a list keeps the types of the rows.
LEMMA RunTyped ==
  ASSUME TypeInv, NEW w \in Workers, Run(w)
  PROVE  TypeInv'
<1> DEFINE t == task[w]
           cmd == t.todo[1]
<1>1. PICK u \in Tasks : Become(w, u)
  BY RunStep DEF GoesOn
<1>2. task' \in [Workers -> Tasks] /\ workload' = workload
  BY <1>1, BecomeTyped
<1>3. /\ cmd \in Commands /\ UNCHANGED <<employee, supplier>> /\ t \in Tasks
      /\ \/ /\ cmd.do = "update" /\ redis' = redis
            /\ credentials' = AfterUpdate(cmd.id, cmd.set)
            /\ audit' = [e \in Employees |->
                 IF e \in WithCredentials(cmd.id) THEN Told(t, cmd, audit[e]) ELSE audit[e]]
         \/ /\ cmd.do # "update" /\ UNCHANGED <<credentials, audit>>
            /\ redis' = AfterSet(cmd.keys, cmd.value)
  BY RunStep DEF TypeInv
<1>4. cmd.set \in Settings /\ cmd.value \in Values
  BY <1>3, SettingsOfCode DEF Commands, Values
<1>5. AfterSet(cmd.keys, cmd.value) \in [Keys -> Values]
  BY <1>4 DEF AfterSet, TypeInv
<1>6. AfterUpdate(cmd.id, cmd.set) \in [Employees -> Columns]
  BY <1>4, WrittenTyped DEF AfterUpdate, TypeInv
<1>7. ASSUME NEW record \in Audits PROVE Told(t, cmd, record) \in Audits
  <2>1. "password" \in DOMAIN cmd.set => cmd.set.password \in {"old", "new"}
    BY <1>4, SettingKinds
  <2>2. t.op = "UseBackupCode" => t.arg \in BackupCodes
    BY <1>3 DEF Tasks, Carries
  <2> DEFINE p == IF "password" \in DOMAIN cmd.set THEN cmd.set.password ELSE record.password
             s == IF t.op = "UseBackupCode" THEN Counted(record.spent, t.arg) ELSE record.spent
  <2>3. p \in {"old", "new"}
    BY <2>1 DEF Audits
  <2>4. s \in [BackupCodes -> 0..2]
    BY <2>2 DEF Audits, Counted
  <2>5. Told(t, cmd, record) = [record EXCEPT !.password = p, !.spent = s]
    BY Zenon DEF Told
  <2> HIDE DEF p, s
  <2> QED
    BY <2>3, <2>4, <2>5 DEF Audits
<1>8. \/ credentials' = credentials
      \/ credentials' = AfterUpdate(cmd.id, cmd.set)
  BY <1>3
<1>9. redis' = redis \/ redis' = AfterSet(cmd.keys, cmd.value)
  BY <1>3
<1>10. audit' \in [Employees -> Audits]
  <2>1. \A e \in Employees : audit[e] \in Audits /\ Told(t, cmd, audit[e]) \in Audits
    BY <1>7 DEF TypeInv
  <2> QED
    BY <1>3, <2>1 DEF TypeInv
<1> QED
  BY <1>2, <1>3, <1>5, <1>6, <1>8, <1>9, <1>10 DEF TypeInv

LEMMA StoreTyped ==
  ASSUME TypeInv, StoreStep
  PROVE  TypeInv'
<1>1. ASSUME NEW w \in Workers, Quiet(w) PROVE TypeInv'
  <2>1. PICK u \in Tasks : Become(w, u) /\ UNCHANGED <<store, audit>>
    BY <1>1 DEF Quiet
  <2> QED
    BY <2>1, BecomeTyped DEF TypeInv, store
<1>2. ASSUME NEW w \in Workers, LoginSave(w) PROVE TypeInv'
  <2> DEFINE e == task[w].id
  <2>1. task' \in [Workers -> Tasks] /\ workload' = workload
    BY <1>2, LoginSaveStep, BecomeTyped, NewTyped
  <2>2. e \in Employees /\ Succeeded(task[w].row) \in Columns /\ Failed(task[w].row) \in Columns
    BY <1>2, LoginSaveStep, RowsOfLogin
  <2>3. UNCHANGED <<employee, redis, supplier>>
    BY <1>2, LoginSaveStep
  <2>4. credentials' \in [Employees -> Columns]
    BY <1>2, <2>2, LoginSaveStep DEF TypeInv
  <2>5. audit' \in [Employees -> Audits]
    <3>1. audit[e] \in Audits
      BY <2>2 DEF TypeInv
    <3>2. [audit[e] EXCEPT !.failures = 0] \in Audits
          /\ [audit[e] EXCEPT !.failures = @ + 1] \in Audits
      BY <3>1 DEF Audits
    <3> QED
      BY <1>2, <2>2, <3>2, LoginSaveStep DEF TypeInv
  <2> QED
    BY <2>1, <2>3, <2>4, <2>5 DEF TypeInv
<1>3. ASSUME NEW w \in Workers, GoogleInsert(w) \/ GoogleSave(w) PROVE TypeInv'
  <2>1. Become(w, Idle) /\ UNCHANGED <<credentials, redis, supplier, audit>>
    BY <1>3 DEF GoogleInsert, GoogleSave, Throw
  <2>2. task' \in [Workers -> Tasks] /\ workload' = workload
    BY <2>1, BecomeTyped, NewTyped
  <2>3. employee' \in [Employees -> {"unused", "bare", "live", "deleted"}]
    BY <1>3 DEF GoogleInsert, GoogleSave, TypeInv
  <2> QED
    BY <2>1, <2>2, <2>3 DEF TypeInv
<1>4. ASSUME NEW w \in Workers, GoogleCredentials(w) PROVE TypeInv'
  <2>1. PICK u \in Tasks : Become(w, u)
    BY <1>4, GoogleCredentialsStep DEF GoesOn
  <2>2. task' \in [Workers -> Tasks] /\ workload' = workload
    BY <2>1, BecomeTyped
  <2>3. /\ task[w].id \in Employees /\ UNCHANGED <<employee, redis, supplier, audit>>
        /\ SaveCredentials(task[w].id, task[w].row) \/ credentials' = credentials
    BY <1>4, GoogleCredentialsStep
  <2>4. task[w].row \in Columns
    BY DEF TypeInv, Tasks, Records
  <2>5. credentials' \in [Employees -> Columns]
    BY <2>3, <2>4 DEF SaveCredentials, TypeInv
  <2> QED
    BY <2>2, <2>3, <2>5 DEF TypeInv
<1>5. ASSUME NEW w \in Workers, MailLink(w) PROVE TypeInv'
  <2>1. Become(w, Idle) /\ UNCHANGED store /\ At(w, "mail")
    BY <1>5 DEF MailLink, Throw
  <2>2. task' \in [Workers -> Tasks] /\ workload' = workload
    BY <2>1, BecomeTyped, NewTyped
  <2>3. task[w].id \in Employees /\ task[w].arg \in Links
    BY <2>1 DEF TypeInv, Tasks, Carries, Reaches, At
  <2>4. audit' \in [Employees -> Audits]
    <3>1. PICK sent \in {{}, {task[w].arg}} :
            audit' = [audit EXCEPT ![task[w].id].mailed = @ \cup sent]
      BY <1>5 DEF MailLink, Mails
    <3>2. audit[task[w].id] \in Audits
      BY <2>3 DEF TypeInv
    <3>3. [audit[task[w].id] EXCEPT !.mailed = @ \cup sent] \in Audits
      BY <2>3, <3>2 DEF Audits
    <3> QED
      BY <2>3, <3>1, <3>3 DEF TypeInv
  <2> QED
    BY <2>1, <2>2, <2>4 DEF TypeInv, store
<1>6. ASSUME NEW w \in Workers, InsertEmployee(w) PROVE TypeInv'
  <2>1. PICK u \in Tasks : /\ GoesOn(w, u)
                           /\ \/ employee' = [employee EXCEPT ![task[w].id] = "bare"]
                              \/ employee' = employee
    BY <1>6, InsertEmployeeStep
  <2>2. task' \in [Workers -> Tasks] /\ workload' = workload
    BY <2>1, BecomeTyped DEF GoesOn
  <2> QED
    BY <1>6, <2>1, <2>2, InsertEmployeeStep DEF TypeInv
<1>7. ASSUME NEW w \in Workers, InsertCredentials(w) PROVE TypeInv'
  <2>1. PICK u \in Tasks : GoesOn(w, u)
    BY <1>7, InsertCredentialsStep
  <2>2. task' \in [Workers -> Tasks] /\ workload' = workload
    BY <2>1, BecomeTyped DEF GoesOn
  <2>3. NewCredentials(task[w].op = "CreatePublic") \in Columns
    BY NewTyped
  <2>4. employee' \in [Employees -> {"unused", "bare", "live", "deleted"}]
        /\ credentials' \in [Employees -> Columns]
    BY <1>7, <2>3, InsertCredentialsStep DEF TypeInv
  <2> QED
    BY <1>7, <2>2, <2>4, InsertCredentialsStep DEF TypeInv
<1>8. ASSUME NEW w \in Workers, InsertSubscription(w) PROVE TypeInv'
  <2>1. PICK u \in Tasks : GoesOn(w, u)
    BY <1>8, InsertSubscriptionStep
  <2>2. task' \in [Workers -> Tasks] /\ workload' = workload
    BY <2>1, BecomeTyped DEF GoesOn
  <2>3. supplier' \in [Suppliers -> {"unused", "bare", "live", "removed"}]
    BY <1>8, InsertSubscriptionStep DEF TypeInv
  <2> QED
    BY <1>8, <2>2, <2>3, InsertSubscriptionStep DEF TypeInv
<1>9. ASSUME NEW w \in Workers, CompensateSupplier(w) PROVE TypeInv'
  <2>1. Become(w, Idle) /\ UNCHANGED <<employee, credentials, redis, audit>>
    BY <1>9 DEF CompensateSupplier, Throw
  <2>2. task' \in [Workers -> Tasks] /\ workload' = workload
    BY <2>1, BecomeTyped, NewTyped
  <2>3. supplier' \in [Suppliers -> {"unused", "bare", "live", "removed"}]
    BY <1>9 DEF CompensateSupplier, Removed, TypeInv
  <2> QED
    BY <2>1, <2>2, <2>3 DEF TypeInv
<1>10. ASSUME NEW e \in Employees, LockExpires(e) \/ LinkExpires(e) PROVE TypeInv'
  <2>1. credentials' \in [Employees -> Columns]
    <3>1. credentials[e] \in Columns
      BY DEF TypeInv
    <3>2. [credentials[e] EXCEPT !.lock = "past"] \in Columns
          /\ [credentials[e] EXCEPT !.age = "past"] \in Columns
      BY <3>1 DEF Columns
    <3> QED
      BY <1>10, <3>2 DEF LockExpires, LinkExpires, TypeInv
  <2> QED
    BY <1>10, <2>1 DEF LockExpires, LinkExpires, TypeInv
<1>11. ASSUME NEW k \in Keys, Expire(k) PROVE TypeInv'
  BY <1>11 DEF Expire, TypeInv, Values
<1>12. ASSUME NEW w \in Workers, NEW e \in Employees, NEW code \in OtpCodes,
              VerifySmsPublic(w, e, code) \/ VerifyEmailPublic(w, e, code)
       PROVE  TypeInv'
  <2>1. PICK u \in Tasks, k \in {Key("pending", e), Key("emailPending", e)} :
          Become(w, u) /\ Proves(e, code, k) /\ UNCHANGED store
    BY <1>12, VerifySmsPublicStep, VerifyEmailPublicStep DEF Begins
  <2>2. task' \in [Workers -> Tasks] /\ workload' = workload
    BY <2>1, BecomeTyped
  <2>3. audit' \in [Employees -> Audits]
    <3>1. [audit[e] EXCEPT !.proved = @ \/ redis[k] = code] \in Audits
      BY DEF TypeInv, Audits
    <3> QED
      BY <2>1, <3>1 DEF Proves, TypeInv
  <2> QED
    BY <2>1, <2>2, <2>3 DEF TypeInv, store
<1>13. ASSUME NEW w \in Workers, NEW e \in Employees, NEW l \in Links, FollowLink(w, e, l)
       PROVE  TypeInv'
  <2>1. PICK u \in Tasks : Become(w, u)
    BY <1>13, FollowLinkStep DEF Begins
  <2>2. task' \in [Workers -> Tasks] /\ workload' = workload
    BY <2>1, BecomeTyped
  <2>3. audit' \in [Employees -> Audits]
    <3>1. [audit[e] EXCEPT !.proved = @ \/ l \in audit[e].mailed] \in Audits
      BY DEF TypeInv, Audits
    <3> QED
      BY <1>13, <3>1, FollowLinkStep DEF TypeInv
  <2> QED
    BY <1>13, <2>2, <2>3, FollowLinkStep DEF TypeInv, store
<1>14. ASSUME NEW w \in Workers, NEW e \in Employees, RemoveEmployee(w, e) PROVE TypeInv'
  BY <1>14 DEF RemoveEmployee, DeleteRow, TypeInv
<1>15. ASSUME NEW w \in Workers, NEW s \in Suppliers, NEW e \in Employees,
              CreateSupplier(w, s, e)
       PROVE  TypeInv'
  <2>1. PICK u \in Tasks : Become(w, u)
    BY <1>15, CreateSupplierStep DEF Begins
  <2>2. task' \in [Workers -> Tasks] /\ workload' = workload
    BY <2>1, BecomeTyped
  <2> QED
    BY <1>15, <2>2, CreateSupplierStep DEF TypeInv
<1>16. ASSUME NEW w \in Workers, NEW s \in Suppliers, RemoveSupplier(w, s) PROVE TypeInv'
  BY <1>16 DEF RemoveSupplier, Removed, TypeInv
<1> QED
  BY <1>1, <1>2, <1>3, <1>4, <1>5, <1>6, <1>7, <1>8, <1>9, <1>10, <1>11, <1>12, <1>13, <1>14,
     <1>15, <1>16, RunTyped, Zenon DEF StoreStep

LEMMA InitTyped == Init => TypeInv
<1> SUFFICES ASSUME Init PROVE TypeInv
  OBVIOUS
<1>1. [e \in Employees |-> NewCredentials(FALSE)] \in [Employees -> Columns]
  BY NewTyped
<1>2. [password |-> "old", spent |-> [c \in BackupCodes |-> 0], failures |-> 0,
       proved |-> FALSE, mailed |-> {}] \in Audits
  BY DEF Audits
<1>3. task \in [Workers -> Tasks]
  BY NewTyped DEF Init
<1> QED
  BY <1>1, <1>2, <1>3 DEF Init, TypeInv, Values

LEMMA StutterTyped ==
  ASSUME TypeInv, UNCHANGED vars
  PROVE  TypeInv'
BY DEF TypeInv, vars

\* The types that the runs check are part of the inductive ones.
LEMMA TypesChecked == TypeInv => TypeOK
<1> SUFFICES ASSUME TypeInv PROVE TypeOK
  OBVIOUS
<1>1. ASSUME NEW w \in Workers PROVE TaskOK(task[w])
  <2> DEFINE t == task[w]
  <2>1. t \in Records /\ (t.pc = "run" <=> t.todo # <<>>)
    BY DEF TypeInv, Tasks, Reaches
  <2>2. \A i \in DOMAIN t.todo : t.todo[i] \in Commands
    BY <2>1 DEF Records
  <2>3. ASSUME NEW cmd \in Commands PROVE CommandOK(cmd)
    <3>1. cmd.set \in Settings
      BY SettingsOfCode DEF Commands
    <3>2. DOMAIN cmd.set \subseteq DOMAIN NewCredentials(FALSE)
      BY <3>1, SettingKinds DEF NewCredentials
    <3> QED
      BY <3>2 DEF CommandOK, Commands, Values
  <2>4. t.next \in Pcs
    BY <2>1 DEF Records, Pcs
  <2> QED
    BY <2>1, <2>2, <2>3, <2>4 DEF TaskOK, Records
<1> QED
  BY <1>1 DEF TypeInv, TypeOK, Audits

\* Every row, code and request of the account services is well typed, and the
\* statements of each operation are those the services send (AccountStore), for
\* any employees, requests and workloads.
THEOREM AccountsTypeCorrect == Spec => []TypeOK
<1>1. TypeInv /\ [Next]_vars => TypeInv'
  BY NextSteps, StoreTyped, StutterTyped
<1> QED
  BY <1>1, InitTyped, TypesChecked, PTL DEF Spec

=============================================================================
