----------------------------- MODULE CardVisits -----------------------------
(***************************************************************************)
(* The life cycle of a visit: registering a visitor, lending a tracking    *)
(* card, checking in and out, and the two cron jobs that do the same on a  *)
(* schedule (card.service.ts, card-scheduler.service.ts,                   *)
(* appointment.service.ts and the visitor use cases).                      *)
(*                                                                         *)
(* A worker is one asynchronous call chain of the Node process: a request  *)
(* or one iteration of a cron job.  It runs alone between two awaits, so   *)
(* each action is the code up to and including one awaited database call.  *)
(* No handler opens a transaction around its calls and nothing locks a     *)
(* row, so between two actions of a worker any other worker may run.       *)
(***************************************************************************)
EXTENDS VisitStore

CONSTANTS
  Workers,   \* concurrently running requests and job iterations
  Known,     \* visitors registered before the run starts
  Workloads  \* what may be asked of the service

AllOps == {"Register", "CheckIn", "CheckOut", "CheckOutVisitor",
           "UpdateVisitor", "SetImage", "DeleteVisitor", "CreateAppt",
           "UpdateAppt", "Cancel", "Archive", "DeleteAppt", "Assign", "Unassign",
           "AssignJob", "ReleaseJob", "UpdateCard", "RecordLocation",
           "ReportLocation"}

ASSUME KnownAssumption == Known \subseteq Visitors

\* A workload: the operations that may start, the states an update may ask for
\* ("keep" leaves it), whether a database call may fail or the process restart,
\* and whether requests come one at a time.
ASSUME WorkloadsAssumption ==
  Workloads \subseteq [ops : SUBSET AllOps, states : SUBSET (States \cup {"keep"}),
                      faults : BOOLEAN, serial : BOOLEAN]

\* workload never changes.  task[w] is the worker's call chain: the operation, the await it stands at,
\* the ids it works on and the entities it holds in memory.
VARIABLES workload, task

vars == <<store, workload, task>>

AssignPcs == {"findCards", "asgCard", "asgVisitor", "asgSaveVisitor", "asgSaveCard"}

UnassignPcs == {"unCard", "unVisitor", "unSaveVisitor", "unSaveCard"}

Pcs == AssignPcs \cup UnassignPcs \cup
       {"idle", "ciVisitor", "coVisitor", "fetchAppt", "saveAppt",
        "saveVisitor", "saveCard", "lookup", "recSaveCard", "insertLocation"}

NoVisitorEntity == [state |-> "pendiente", card |-> NotLoaded, appts |-> {}]

NoCardEntity == [active |-> FALSE, holder |-> NoVisitor, issued |-> FALSE,
                 locations |-> 0]

Idle == [op |-> "none", pc |-> "idle",
         v |-> NoVisitor, c |-> NoCard, a |-> NoAppt, st |-> "keep",
         ve |-> NoVisitorEntity, ce |-> NoCardEntity, ae |-> UnusedAppt]

Task == [op : AllOps \cup {"none"}, pc : Pcs,
         v  : Visitors \cup {NoVisitor},
         c  : Cards \cup {NoCard},
         a  : Appts \cup {NoAppt},
         st : States \cup {"keep"},
         ve : VisitorEntity, ce : CardRow, ae : ApptRow]

\* A worker about to read a row by its id knows the id.
KnowsIds(t) ==
  /\ t.pc \in {"asgCard", "unCard"} => t.c \in Cards
  /\ t.pc = "fetchAppt" => t.a \in Appts

TaskOK == {t \in Task : KnowsIds(t)}

DataOK == StoreTypeOK /\ task \in [Workers -> TaskOK]

TypeOK == DataOK /\ workload \in Workloads

(***************************************************************************)
(* Init: the database after any number of completed registrations.  Every  *)
(* known visitor has one pending appointment, and a card unless the last   *)
(* step of the registration found none.                                    *)
(***************************************************************************)
InitWith(lent, booked, ends) ==
  /\ \A u, v \in Known : u # v => booked[u] # booked[v]
                               /\ (lent[u] = lent[v] => lent[u] = NoCard)
  /\ visitor = [v \in Visitors |->
       IF v \in Known
       THEN [row |-> "live",
             state |-> IF lent[v] = NoCard THEN "pendiente" ELSE "en_progreso"]
       ELSE [row |-> "unused", state |-> "pendiente"]]
  /\ card = [c \in Cards |->
       LET lender == {v \in Known : lent[v] = c}
       IN  [active    |-> TRUE,
            holder    |-> IF lender = {} THEN NoVisitor ELSE CHOOSE v \in lender : TRUE,
            issued    |-> lender # {},
            locations |-> 0]]
  /\ appt = [a \in Appts |->
       LET owner == {v \in Known : booked[v] = a}
       IN  IF owner = {} THEN UnusedAppt
           ELSE LET v == CHOOSE v \in owner : TRUE
                IN  [row |-> "live", visitor |-> v, status |-> "pendiente",
                     in |-> TRUE, out |-> ends[v]]]
  /\ task = [w \in Workers |-> Idle]

Init ==
  /\ workload \in Workloads
  /\ \E lent \in [Known -> Cards \cup {NoCard}], booked \in [Known -> Appts],
        ends \in [Known -> BOOLEAN] : InitWith(lent, booked, ends)

-----------------------------------------------------------------------------
(* Moving a worker along its call chain.                                   *)

At(w, pc) == task[w].pc = pc

Become(w, t) == task' = [task EXCEPT ![w] = t] /\ UNCHANGED workload

Goto(w, pc) == Become(w, IF pc = "idle" THEN Idle ELSE [task[w] EXCEPT !.pc = pc])

\* May worker w accept operation op?
Accepts(w, op) ==
  /\ At(w, "idle")
  /\ op \in workload.ops
  /\ workload.serial => \A u \in Workers : At(u, "idle")

\* Where assignToVisitor() returns to.
AfterAssign(t) == IF t.op \in {"CheckIn", "AssignJob"} THEN "saveAppt" ELSE "idle"

\* Where unassignFromVisitor() returns to.
AfterUnassign(t) == IF t.op \in {"CheckOut", "ReleaseJob"} THEN "saveAppt" ELSE "idle"

\* Where an exception thrown at t's await is caught: check-in goes on without
\* a card and check-out with the card still lent; everything else ends.
Caught(t) ==
  IF \/ t.op = "CheckIn" /\ t.pc \in AssignPcs
     \/ t.op = "CheckOut" /\ t.pc \in UnassignPcs
  THEN "saveAppt" ELSE "idle"

\* The caller of the two subroutines goes on and no longer refers to the card.
Return(w, pc) ==
  Become(w, IF pc = "idle" THEN Idle
            ELSE [task[w] EXCEPT !.pc = pc, !.c = NoCard, !.ce = NoCardEntity])

Throw(w) == Return(w, Caught(task[w]))

\* An appointment id that no row and no worker uses.
Fresh(a) == appt[a].row = "unused" /\ \A w \in Workers : task[w].a # a

-----------------------------------------------------------------------------
(* CardService.assignToVisitor, with the search for a card before it.      *)

\* findAvailableCards(): TypeORM drops a condition whose value is null, so
\* { is_active: true, visitor_id: null } selects every active card.
AvailableCards == {c \in Cards : card[c].active}

FindCards(w) ==
  /\ At(w, "findCards")
  /\ \/ /\ AvailableCards = {}
        /\ Throw(w)
     \/ \E c \in AvailableCards :
          Become(w, [task[w] EXCEPT !.pc = "asgCard", !.c = c])
  /\ UNCHANGED store

AssignReadCard(w) ==
  /\ At(w, "asgCard")
  /\ Become(w, [task[w] EXCEPT !.pc = "asgVisitor", !.ce = card[task[w].c]])
  /\ UNCHANGED store

\* Mutant of Assignable: a visitor who has left may be given a card.
Assignable_Completed(t) ==
  Live(t.v) /\ CardsOf(t.v) = {} /\ t.ce.active /\ t.ce.holder = NoVisitor

\* The checks of assignToVisitor, on the card just read and the visitor's row.
Assignable(t) ==
  /\ Live(t.v)
  /\ visitor[t.v].state # "completado"
  /\ CardsOf(t.v) = {}
  /\ t.ce.active
  /\ t.ce.holder = NoVisitor

\* Mutant of AssignReadVisitor: the visitor's state is not saved.
AssignReadVisitor_NoState(w) ==
  /\ At(w, "asgVisitor")
  /\ IF Assignable(task[w]) THEN Goto(w, "asgSaveCard") ELSE Throw(w)
  /\ UNCHANGED store

AssignReadVisitor(w) ==
  /\ At(w, "asgVisitor")
  /\ IF Assignable(task[w]) THEN Goto(w, "asgSaveVisitor") ELSE Throw(w)
  /\ UNCHANGED store

\* Mutant of AssignSaveVisitor: the visit is not marked as in progress.
AssignSaveVisitor_KeepsState(w) ==
  /\ At(w, "asgSaveVisitor")
  /\ LET v == task[w].v
     IN  SaveVisitor(v, [state |-> visitor[v].state, card |-> NoCard, appts |-> Appts])
  /\ Goto(w, "asgSaveCard")

AssignSaveVisitor(w) ==
  /\ At(w, "asgSaveVisitor")
  /\ SaveVisitor(task[w].v, [state |-> "en_progreso", card |-> NoCard, appts |-> Appts])
  /\ Goto(w, "asgSaveCard")

AssignSaveCard(w) ==
  /\ At(w, "asgSaveCard")
  /\ LET t == task[w]
         e == [t.ce EXCEPT !.holder = t.v, !.issued = TRUE]
     IN  \/ SaveCard(t.c, e) /\ Return(w, AfterAssign(t))
         \/ CardSaveThrows(t.c, e) /\ Throw(w) /\ UNCHANGED store

-----------------------------------------------------------------------------
(* CardService.unassignFromVisitor.                                        *)

UnassignReadCard(w) ==
  /\ At(w, "unCard")
  /\ LET t == task[w]
     IN  IF card[t.c].holder = NoVisitor
         THEN Throw(w)
         ELSE Become(w, [t EXCEPT !.pc = "unVisitor", !.ce = card[t.c]])
  /\ UNCHANGED store

UnassignReadVisitor(w) ==
  /\ At(w, "unVisitor")
  /\ Goto(w, IF Live(task[w].ce.holder) THEN "unSaveVisitor" ELSE "unSaveCard")
  /\ UNCHANGED store

UnassignSaveVisitor(w) ==
  /\ At(w, "unSaveVisitor")
  /\ SaveVisitor(task[w].ce.holder,
                 [state |-> "completado", card |-> NotLoaded, appts |-> Appts])
  /\ Goto(w, "unSaveCard")

\* Mutant of UnassignSaveCard: only the issue date is cleared.
UnassignSaveCard_KeepsHolder(w) ==
  /\ At(w, "unSaveCard")
  /\ LET t == task[w]
         e == [t.ce EXCEPT !.issued = FALSE]
     IN  \/ SaveCard(t.c, e) /\ Return(w, AfterUnassign(t))
         \/ CardSaveThrows(t.c, e) /\ Throw(w) /\ UNCHANGED store

UnassignSaveCard(w) ==
  /\ At(w, "unSaveCard")
  /\ LET t == task[w]
         e == [t.ce EXCEPT !.holder = NoVisitor, !.issued = FALSE]
     IN  \/ SaveCard(t.c, e) /\ Return(w, AfterUnassign(t))
         \/ CardSaveThrows(t.c, e) /\ Throw(w) /\ UNCHANGED store

-----------------------------------------------------------------------------
(* The saves the other operations share.                                   *)

SaveAppt(w) ==
  /\ At(w, "saveAppt")
  /\ LET t == task[w]
         next == IF t.op = "Register" THEN "findCards"
                 ELSE IF t.op \in {"CheckOutVisitor", "ReleaseJob"} THEN "saveVisitor"
                 ELSE "idle"
     IN  \/ /\ SaveApptRow(t.a, t.ae)
            /\ Become(w, IF next = "idle" THEN Idle
                         ELSE [t EXCEPT !.pc = next, !.a = NoAppt, !.ae = UnusedAppt])
         \/ ApptSaveThrows(t.ae) /\ Throw(w) /\ UNCHANGED store

SaveVisitorEntity(w) ==
  /\ At(w, "saveVisitor")
  /\ LET t == task[w]
     IN  \/ /\ SaveVisitor(t.v, t.ve)
            /\ IF t.op = "CheckOutVisitor" /\ t.ve.card \in Cards
               THEN Become(w, [t EXCEPT !.pc = "unCard", !.c = t.ve.card,
                                        !.ve = NoVisitorEntity])
               ELSE IF t.op = "UpdateVisitor"
               THEN Become(w, [t EXCEPT !.pc = "saveAppt", !.ve = NoVisitorEntity])
               ELSE Become(w, Idle)
         \/ VisitorSaveMayThrow(t.v, t.ve) /\ Throw(w) /\ UNCHANGED store

SaveCardEntity(w) ==
  /\ At(w, "saveCard")
  /\ LET t == task[w]
     IN  \/ SaveCard(t.c, t.ce) /\ Goto(w, IF t.op = "ReportLocation" THEN "lookup" ELSE "idle")
         \/ CardSaveThrows(t.c, t.ce) /\ Throw(w) /\ UNCHANGED store

-----------------------------------------------------------------------------
(* Visitors: the use cases.                                                *)

\* CreateVisitorAndAppointmentUseCase: the visitor is saved first, then the
\* appointment, then a card is looked for; a failure leaves the earlier rows.
Register(w, v, a, ends) ==
  /\ Accepts(w, "Register")
  /\ visitor[v].row = "unused"
  /\ Fresh(a)
  /\ SaveVisitor(v, [state |-> "pendiente", card |-> NotLoaded, appts |-> Appts])
  /\ Become(w, [Idle EXCEPT !.op = "Register", !.pc = "saveAppt", !.v = v, !.a = a,
       !.ae = [row |-> "unused", visitor |-> v, status |-> "pendiente",
               in |-> TRUE, out |-> ends]])

\* Mutant of Found: findById without "card" among its relations.
Found_WithoutCard(v, state) ==
  [state |-> state, card |-> NotLoaded, appts |-> ApptsOf(v)]

\* Mutant of Found: the card is mapped as an array of cards.
Found_CardList(v, state) ==
  [state |-> state, card |-> CardsOf(v), appts |-> ApptsOf(v)]

\* VisitorRepository.findById with its card and its appointments.
Found(v, state) == [state |-> state, card |-> CardSeen(v), appts |-> ApptsOf(v)]

\* appointments[0] of an unordered join is any of them.
CheckOutVisitor(w, v, a) ==
  /\ Accepts(w, "CheckOutVisitor")
  /\ Live(v) /\ visitor[v].state # "completado"
  /\ a \in ApptsOf(v)
  /\ Become(w, [Idle EXCEPT !.op = "CheckOutVisitor", !.pc = "fetchAppt",
                            !.v = v, !.a = a, !.ve = Found(v, "completado")])
  /\ UNCHANGED store

UpdateVisitor(w, v, a, st) ==
  /\ Accepts(w, "UpdateVisitor")
  /\ Live(v)
  /\ a \in ApptsOf(v)
  /\ Become(w, [Idle EXCEPT !.op = "UpdateVisitor", !.pc = "fetchAppt", !.v = v, !.a = a,
       !.st = st, !.ve = Found(v, IF st = "keep" THEN visitor[v].state ELSE st)])
  /\ UNCHANGED store

\* The appointment the two use cases above fetch again, and what they set on it.
FetchAppt(w) ==
  /\ At(w, "fetchAppt")
  /\ LET t == task[w]
         row == appt[t.a]
     IN  \/ /\ row.row # "live" \/ (t.op = "CheckOutVisitor" /\ ~row.in)
            /\ Throw(w)
         \/ /\ row.row = "live" /\ t.op = "CheckOutVisitor" /\ row.in
            /\ Become(w, [t EXCEPT !.pc = "saveAppt",
                 !.ae = [row EXCEPT !.status = "completado", !.out = TRUE]])
         \/ /\ row.row = "live" /\ t.op = "UpdateVisitor"
            /\ \E in, out \in BOOLEAN :
                 Become(w, [t EXCEPT !.pc = "saveVisitor",
                   !.ae = [row EXCEPT !.status = IF t.st = "keep" THEN @ ELSE t.st,
                                      !.in = @ \/ in, !.out = @ \/ out]])
  /\ UNCHANGED store

\* UpdateVisitorProfileImageUseCase: reads and saves the whole visitor.
SetImage(w, v) ==
  /\ Accepts(w, "SetImage")
  /\ Live(v)
  /\ Become(w, [Idle EXCEPT !.op = "SetImage", !.pc = "saveVisitor", !.v = v,
                            !.ve = Found(v, visitor[v].state)])
  /\ UNCHANGED store

\* The read only checks that the row exists, which removing it does again.
DeleteVisitor(w, v) ==
  /\ Accepts(w, "DeleteVisitor")
  /\ Live(v)
  /\ RemoveVisitor(v)
  /\ UNCHANGED <<workload, task>>

-----------------------------------------------------------------------------
(* Appointments: AppointmentService.                                       *)

\* The visitor check and the insert read the same row, so they are one step.
CreateAppt(w, v, a) ==
  /\ Accepts(w, "CreateAppt")
  /\ Fresh(a)
  /\ SaveApptRow(a, [UnusedAppt EXCEPT !.visitor = v])
  /\ UNCHANGED <<workload, task>>

\* findOne, and the fields the operation sets before it saves.
TakeAppt(w, op, pc, a, e) ==
  /\ Accepts(w, op)
  /\ appt[a].row = "live"
  /\ Become(w, [Idle EXCEPT !.op = op, !.pc = pc, !.v = appt[a].visitor, !.a = a, !.ae = e])
  /\ UNCHANGED store

UpdateAppt(w, a, st, in, out) ==
  TakeAppt(w, "UpdateAppt", "saveAppt", a,
           [appt[a] EXCEPT !.status = IF st = "keep" THEN @ ELSE st,
                           !.in = @ \/ in, !.out = @ \/ out])

\* Mutant of CheckIn: the check-in time is not set.
CheckIn_NoTime(w, a) ==
  /\ appt[a].status = "pendiente"
  /\ TakeAppt(w, "CheckIn", "ciVisitor", a, [appt[a] EXCEPT !.status = "en_progreso"])

CheckIn(w, a) ==
  /\ appt[a].status = "pendiente"
  /\ TakeAppt(w, "CheckIn", "ciVisitor", a,
              [appt[a] EXCEPT !.status = "en_progreso", !.in = TRUE])

CheckInReadVisitor(w) ==
  /\ At(w, "ciVisitor")
  /\ LET v == task[w].v
     IN  IF ~Live(v) THEN Throw(w)
         ELSE Goto(w, IF CardsOf(v) = {} THEN "findCards" ELSE "saveAppt")
  /\ UNCHANGED store

CheckOut(w, a) ==
  /\ appt[a].status = "en_progreso"
  /\ TakeAppt(w, "CheckOut", "coVisitor", a,
              [appt[a] EXCEPT !.status = "completado", !.out = TRUE])

CheckOutReadVisitor(w) ==
  /\ At(w, "coVisitor")
  /\ LET t == task[w]
     IN  IF Live(t.v) /\ CardsOf(t.v) # {}
         THEN Become(w, [t EXCEPT !.pc = "unCard", !.c = CardSeen(t.v)])
         ELSE Goto(w, "saveAppt")
  /\ UNCHANGED store

\* Mutant of Cancel: completed appointments are cancelled too.
Cancel_Completed(w, a) ==
  TakeAppt(w, "Cancel", "saveAppt", a, [appt[a] EXCEPT !.status = "cancelado"])

Cancel(w, a) ==
  /\ appt[a].status # "completado"
  /\ TakeAppt(w, "Cancel", "saveAppt", a, [appt[a] EXCEPT !.status = "cancelado"])

\* archiveAppointment and unarchiveAppointment set a flag that is left out, and
\* save the whole row they read.
Archive(w, a) == TakeAppt(w, "Archive", "saveAppt", a, appt[a])

DeleteAppt(w, a) ==
  /\ Accepts(w, "DeleteAppt")
  /\ appt[a].row = "live"
  /\ RemoveAppt(a)
  /\ UNCHANGED <<workload, task>>

-----------------------------------------------------------------------------
(* Cards: the requests of CardController.                                  *)

Assign(w, c, v) ==
  /\ Accepts(w, "Assign")
  /\ Become(w, [Idle EXCEPT !.op = "Assign", !.pc = "asgCard", !.c = c, !.v = v])
  /\ UNCHANGED store

Unassign(w, c) ==
  /\ Accepts(w, "Unassign")
  /\ Become(w, [Idle EXCEPT !.op = "Unassign", !.pc = "unCard", !.c = c])
  /\ UNCHANGED store

UpdateCard(w, c, active) ==
  /\ Accepts(w, "UpdateCard")
  /\ Become(w, [Idle EXCEPT !.op = "UpdateCard", !.pc = "saveCard", !.c = c,
                            !.ce = [card[c] EXCEPT !.active = active]])
  /\ UNCHANGED store

\* Bound: at most MaxLocations locations of one card, the pending ones included.
MayRecord(c) ==
  card[c].locations + Cardinality({w \in Workers :
      task[w].op \in {"RecordLocation", "ReportLocation"} /\ task[w].c = c}) < MaxLocations

RecordLocation(w, c) ==
  /\ Accepts(w, "RecordLocation")
  /\ MayRecord(c)
  /\ Become(w, [Idle EXCEPT !.op = "RecordLocation", !.pc = "lookup", !.c = c])
  /\ UNCHANGED store

\* receiveCardLocation: the card is found by its number, without relations,
\* and saved with the report's battery and signal data.
ReportLocation(w, c) ==
  /\ Accepts(w, "ReportLocation")
  /\ MayRecord(c)
  /\ Become(w, [Idle EXCEPT !.op = "ReportLocation", !.pc = "saveCard", !.c = c,
                            !.ce = [card[c] EXCEPT !.locations = MaxLocations]])
  /\ UNCHANGED store

\* What recordLocation is called with: a request passes the card's number,
\* receiveCardLocation the card's id.
LookupKey(t) == IF t.op = "ReportLocation" THEN <<"id", t.c>> ELSE <<"number", t.c>>

\* findOneByCardNumber.
CardsNumbered(key) == {c \in Cards : key = <<"number", c>>}

RecordLookup(w) ==
  /\ At(w, "lookup")
  /\ LET t == task[w]
         found == CardsNumbered(LookupKey(t))
     IN  \/ found = {} /\ Throw(w)
         \/ \E c \in found :
              Become(w, [t EXCEPT !.pc = "recSaveCard", !.c = c, !.ce = card[c]])
  /\ UNCHANGED store

RecordSaveCard(w) ==
  /\ At(w, "recSaveCard")
  /\ LET t == task[w]
     IN  \/ SaveCard(t.c, t.ce) /\ Goto(w, "insertLocation")
         \/ CardSaveThrows(t.c, t.ce) /\ Throw(w) /\ UNCHANGED store

RecordInsert(w) ==
  /\ At(w, "insertLocation")
  /\ card' = [card EXCEPT ![task[w].c].locations = @ + 1]
  /\ Goto(w, "idle")
  /\ UNCHANGED <<visitor, appt>>

-----------------------------------------------------------------------------
(* The cron jobs.  A pass takes the due appointments one after the other   *)
(* from the rows its query read; here a pass has one due appointment, and  *)
(* a pass with several is that many workers whose queries ran together.    *)
(* No clock: any appointment with the time set may be due.                 *)

AssignJob(w, a) ==
  /\ appt[a].status = "pendiente" /\ appt[a].in
  /\ CardsOf(appt[a].visitor) = {}
  /\ TakeAppt(w, "AssignJob", "findCards", a, [appt[a] EXCEPT !.status = "en_progreso"])

ReleaseJob(w, a) ==
  /\ Accepts(w, "ReleaseJob")
  /\ appt[a].row = "live" /\ appt[a].status = "en_progreso" /\ appt[a].out
  /\ LET v == appt[a].visitor
     IN  /\ CardsOf(v) # {}
         /\ Become(w, [Idle EXCEPT !.op = "ReleaseJob", !.pc = "unCard",
              !.v = v, !.c = CardSeen(v), !.a = a,
              !.ve = [state |-> "completado", card |-> CardSeen(v), appts |-> Appts],
              !.ae = [appt[a] EXCEPT !.status = "completado"]])
  /\ UNCHANGED store

-----------------------------------------------------------------------------
\* A database call that fails throws at the await; a restart drops the chain.
Fault(w) ==
  /\ workload.faults /\ ~At(w, "idle")
  /\ Throw(w) \/ Become(w, Idle)
  /\ UNCHANGED store

Accept(w) ==
  \/ \E v \in Visitors, a \in Appts, ends \in BOOLEAN : Register(w, v, a, ends)
  \/ \E v \in Visitors, a \in Appts : CheckOutVisitor(w, v, a)
  \/ \E v \in Visitors, a \in Appts, st \in workload.states : UpdateVisitor(w, v, a, st)
  \/ \E v \in Visitors : SetImage(w, v)
  \/ \E v \in Visitors : DeleteVisitor(w, v)
  \/ \E v \in Visitors, a \in Appts : CreateAppt(w, v, a)
  \/ \E a \in Appts, st \in workload.states, in, out \in BOOLEAN : UpdateAppt(w, a, st, in, out)
  \/ \E a \in Appts : CheckIn(w, a)
  \/ \E a \in Appts : CheckOut(w, a)
  \/ \E a \in Appts : Cancel(w, a)
  \/ \E a \in Appts : Archive(w, a)
  \/ \E a \in Appts : DeleteAppt(w, a)
  \/ \E c \in Cards, v \in Visitors : Assign(w, c, v)
  \/ \E c \in Cards : Unassign(w, c)
  \/ \E c \in Cards, active \in BOOLEAN : UpdateCard(w, c, active)
  \/ \E c \in Cards : RecordLocation(w, c)
  \/ \E c \in Cards : ReportLocation(w, c)
  \/ \E a \in Appts : AssignJob(w, a)
  \/ \E a \in Appts : ReleaseJob(w, a)

\* The next await of a call chain that has begun.
Step(w) ==
  \/ FindCards(w)
  \/ AssignReadCard(w)
  \/ AssignReadVisitor(w)
  \/ AssignSaveVisitor(w)
  \/ AssignSaveCard(w)
  \/ UnassignReadCard(w)
  \/ UnassignReadVisitor(w)
  \/ UnassignSaveVisitor(w)
  \/ UnassignSaveCard(w)
  \/ SaveAppt(w)
  \/ SaveVisitorEntity(w)
  \/ SaveCardEntity(w)
  \/ FetchAppt(w)
  \/ CheckInReadVisitor(w)
  \/ CheckOutReadVisitor(w)
  \/ RecordLookup(w)
  \/ RecordSaveCard(w)
  \/ RecordInsert(w)

Next == \E w \in Workers : Accept(w) \/ Step(w) \/ Fault(w)

Spec == Init /\ [][Next]_vars

\* An awaited database call eventually answers; nobody has to send a request.
FairSpec == Spec /\ \A w \in Workers : WF_vars(Step(w))
-----------------------------------------------------------------------------
(* Properties.                                                             *)

AtRest == \A w \in Workers : At(w, "idle")

\* Operations that end no visit.
AssignOps == {"Register", "CheckIn", "Assign", "AssignJob"}

\* Requests one after the other, none of which fails, sets a visitor's state by hand
\* or is the release job, whose last save lends the card again.
Orderly == workload.serial /\ ~workload.faults /\ workload.states \subseteq {"keep"}
           /\ "ReleaseJob" \notin workload.ops

\* Requests one after the other: exactly the visitors whose visit is in progress
\* hold a card, and a card carries an issue date exactly while it is lent
\* (assignToVisitor and unassignFromVisitor write the three together).
CardsMatchVisits ==
  Orderly /\ AtRest =>
    /\ \A v \in Visitors :
         (Live(v) /\ visitor[v].state = "en_progreso") <=> CardsOf(v) # {}
    /\ \A c \in Cards : card[c].issued <=> card[c].holder # NoVisitor

\* Once no request runs, a visitor who has checked out holds no card, however the
\* ways to check out and the other requests interleaved.
CompletedIsFree ==
  AtRest => \A v \in Visitors : visitor[v].state = "completado" => CardsOf(v) = {}

\* While assignments overlap, a card is only ever lent to a visitor whose visit is
\* already in progress: a failure or a restart between assignToVisitor's two saves
\* leaves a visit without a card, never a card whose visitor is not in.
LentIsVisiting ==
  workload.ops \subseteq AssignOps =>
    \A v \in Visitors : CardsOf(v) # {} => visitor[v].state = "en_progreso"

\* The appointment times agree with the status, whichever way of checking in or
\* out overlaps with which: nobody is in a meeting, or done with it, without the
\* check-in time, nor done without the check-out time (checkIn, checkOut, the jobs),
\* unless an update asks for such a status itself.
TimesMatchStatus ==
  workload.states \cap {"en_progreso", "completado"} = {} =>
    \A a \in Appts : appt[a].row = "live" =>
      /\ appt[a].status = "en_progreso" => appt[a].in
      /\ appt[a].status = "completado" => appt[a].in /\ appt[a].out

\* What the foreign keys and the unique column leave true of the three tables,
\* whatever the stale saves, the re-inserted rows and the removals did.
ReferencesIntact ==
  /\ \A c, d \in Cards :
       card[c].holder = card[d].holder => c = d \/ card[c].holder = NoVisitor
  /\ \A c \in Cards : card[c].holder # NoVisitor => Live(card[c].holder)
  /\ \A a \in Appts : appt[a].row = "live" => Live(appt[a].visitor)

\* A card goes back to the pool before it is lent to somebody else.
NoDirectTransfer ==
  [][\A c \in Cards : card[c].holder # NoVisitor =>
        card'[c].holder \in {card[c].holder, NoVisitor}]_vars

\* Requests one after the other: an appointment's status only moves forward, though
\* seven operations write it, each with a check of its own.  A completed one is
\* final, and none becomes pending again, unless an update asks for it.
StatusMovesForward ==
  [][workload.serial /\ workload.states \subseteq {"keep"} =>
     \A a \in Appts : appt[a].row = "live" /\ appt'[a].row = "live" =>
       /\ appt[a].status = "completado" => appt'[a].status = "completado"
       /\ appt'[a].status = "pendiente" => appt[a].status = "pendiente"]_vars

\* A visitor who has checked out ends up without a card for good.
EventuallyReleased ==
  \A v \in Visitors : visitor[v].state = "completado" ~> [](CardsOf(v) = {})

Lending == INSTANCE CardLending WITH
  holder <- [c \in Cards |-> card[c].holder],
  left   <- {v \in Visitors : visitor[v].state = "completado"}

\* The visit service keeps the promises of CardLending: it lends free cards to
\* visitors who have none, and every visit that ends gives its card back.
LendsCards == Lending!Spec
=============================================================================
