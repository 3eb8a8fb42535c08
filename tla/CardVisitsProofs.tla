-------------------------- MODULE CardVisitsProofs --------------------------
(***************************************************************************)
(* Theorems about CardVisits for every set of workers, visitors, cards and *)
(* appointments.                                                           *)
(***************************************************************************)
EXTENDS CardVisits, TLAPS

(***************************************************************************)
(* Type correctness.                                                       *)
(***************************************************************************)

\* The initial task of a worker has the type of a task.
LEMMA IdleType == Idle \in TaskOK
BY DEF Idle, TaskOK, Task, KnowsIds, AllOps, Pcs, AssignPcs, UnassignPcs, States,
       VisitorEntity, NoVisitorEntity, CardRow, NoCardEntity, ApptRow, UnusedAppt,
       RowStates

\* Moving one worker to a well-typed task keeps all tasks well typed.
LEMMA BecomeType ==
  ASSUME task \in [Workers -> TaskOK], NEW w \in Workers, NEW t \in TaskOK, Become(w, t)
  PROVE  task' \in [Workers -> TaskOK]
BY DEF Become

\* save(visitor) keeps the rows well typed, whatever entity it is given.
LEMMA SaveVisitorType ==
  ASSUME StoreTypeOK, NEW v \in Visitors \cup {NoVisitor}, NEW e,
         e.state \in States, SaveVisitor(v, e)
  PROVE  StoreTypeOK'
<1>1. visitor' \in [Visitors -> VisitorRow]
  BY DEF SaveVisitor, StoreTypeOK, VisitorRow, RowStates
<1>2. card' \in [Cards -> CardRow]
  BY DEF SaveVisitor, StoreTypeOK, CardsAligned, CardRow
<1>3. appt' \in [Appts -> ApptRow]
  BY DEF SaveVisitor, StoreTypeOK
<1> QED BY <1>1, <1>2, <1>3 DEF StoreTypeOK

\* save(card) keeps the rows well typed.
LEMMA SaveCardType ==
  ASSUME StoreTypeOK, NEW c, NEW e \in CardRow, SaveCard(c, e)
  PROVE  StoreTypeOK'
<1>1. card' \in [Cards -> CardRow]
  <2> SUFFICES ASSUME NEW d \in Cards PROVE card'[d] \in CardRow
    BY DEF SaveCard, StoreTypeOK
  <2>1. CASE d = c
    BY <2>1 DEF SaveCard, StoreTypeOK, CardRow
  <2>2. CASE d # c
    BY <2>2 DEF SaveCard, StoreTypeOK
  <2> QED BY <2>1, <2>2
<1> QED BY <1>1 DEF StoreTypeOK, SaveCard

\* save(appointment) keeps the rows well typed.
LEMMA SaveApptType ==
  ASSUME StoreTypeOK, NEW a, NEW e \in ApptRow, SaveApptRow(a, e)
  PROVE  StoreTypeOK'
<1>1. [e EXCEPT !.row = "live"] \in ApptRow
  BY DEF ApptRow, RowStates
<1>2. appt' \in [Appts -> ApptRow]
  BY <1>1 DEF StoreTypeOK, SaveApptRow
<1> QED BY <1>2 DEF StoreTypeOK, SaveApptRow

\* remove() keeps the rows well typed.
LEMMA RemoveType ==
  ASSUME StoreTypeOK
  PROVE  /\ \A v \in Visitors : RemoveVisitor(v) => StoreTypeOK'
         /\ \A a \in Appts : RemoveAppt(a) => StoreTypeOK'
BY DEF StoreTypeOK, RemoveVisitor, RemoveAppt, VisitorRow, ApptRow, RowStates

\* A read of a visitor's card finds a card of that visitor, or none.
LEMMA CardSeenType ==
  ASSUME NEW v
  PROVE  /\ CardSeen(v) \in Cards \cup {NoCard}
         /\ CardsOf(v) # {} => CardSeen(v) \in Cards /\ card[CardSeen(v)].holder = v
         /\ CardsOf(v) = {} => CardSeen(v) = NoCard
BY DEF CardSeen, CardsOf

\* Advancing a worker to an await that reads no row by id keeps it well typed.
LEMMA GotoType ==
  ASSUME task \in [Workers -> TaskOK], NEW w \in Workers,
         NEW pc \in Pcs \ {"asgCard", "unCard", "fetchAppt"}
  PROVE  /\ Goto(w, pc) => task' \in [Workers -> TaskOK]
         /\ Return(w, pc) => task' \in [Workers -> TaskOK]
<1>0. task[w] \in Task /\ NoCardEntity \in CardRow
  BY DEF TaskOK, CardRow, NoCardEntity
<1>1. [task[w] EXCEPT !.pc = pc] \in TaskOK
  <2>1. [task[w] EXCEPT !.pc = pc] \in Task /\ [task[w] EXCEPT !.pc = pc].pc = pc
    BY <1>0 DEF Task
  <2> QED BY <2>1 DEF TaskOK, KnowsIds
<1>2. [task[w] EXCEPT !.pc = pc, !.c = NoCard, !.ce = NoCardEntity] \in TaskOK
  <2> DEFINE t == [task[w] EXCEPT !.pc = pc, !.c = NoCard, !.ce = NoCardEntity]
  <2>1. t \in Task /\ t.pc = pc
    BY <1>0 DEF Task
  <2> HIDE DEF t
  <2>2. t \in TaskOK
    BY <2>1 DEF TaskOK, KnowsIds
  <2> QED BY <2>2 DEF t
<1> QED BY <1>1, <1>2, IdleType, BecomeType DEF Goto, Return

\* An exception leaves the worker well typed.
LEMMA ThrowType ==
  ASSUME task \in [Workers -> TaskOK], NEW w \in Workers, Throw(w)
  PROVE  task' \in [Workers -> TaskOK]
<1>1. Caught(task[w]) \in {"saveAppt", "idle"}
  BY DEF Caught
<1>2. Caught(task[w]) \in Pcs \ {"asgCard", "unCard", "fetchAppt"}
  BY <1>1 DEF Pcs
<1> QED BY <1>2, GotoType DEF Throw

\* The places the two subroutines return to are awaits.
LEMMA AfterType ==
  ASSUME NEW t
  PROVE  /\ AfterAssign(t) \in Pcs \ {"asgCard", "unCard", "fetchAppt"}
         /\ AfterUnassign(t) \in Pcs \ {"asgCard", "unCard", "fetchAppt"}
BY DEF AfterAssign, AfterUnassign, Pcs

\* A request that starts is well typed.
LEMMA AcceptType ==
  ASSUME TypeOK, NEW w \in Workers, Accept(w)
  PROVE  DataOK'
<1> USE DEF DataOK
<1>0. /\ StoreTypeOK
      /\ task \in [Workers -> TaskOK]
      /\ workload.states \subseteq States \cup {"keep"}
  BY WorkloadsAssumption DEF TypeOK
<1> DEFINE ItIs(t) == /\ t \in TaskOK
                      /\ Become(w, t)
                      /\ UNCHANGED store
<1>a. ASSUME NEW t, ItIs(t) PROVE DataOK'
  BY <1>0, <1>a, BecomeType DEF store, StoreTypeOK
<1>b. ASSUME NEW op \in AllOps, NEW pc \in Pcs \ {"asgCard", "unCard", "fetchAppt"},
             NEW a \in Appts, NEW e \in ApptRow, TakeAppt(w, op, pc, a, e)
      PROVE  DataOK'
  <2> DEFINE t == [Idle EXCEPT !.op = op, !.pc = pc, !.v = appt[a].visitor,
                               !.a = a, !.ae = e]
  <2>1. appt[a].visitor \in Visitors \cup {NoVisitor}
    BY <1>0 DEF StoreTypeOK, ApptRow
  <2>2. t \in TaskOK
    BY <2>1, IdleType DEF TaskOK, Task, KnowsIds
  <2> QED BY <1>b, <2>2, <1>a DEF TakeAppt
<1>c. \A a \in Appts, st \in States, in, out \in BOOLEAN :
        /\ [appt[a] EXCEPT !.status = st] \in ApptRow
        /\ [appt[a] EXCEPT !.status = st, !.in = in] \in ApptRow
        /\ [appt[a] EXCEPT !.status = st, !.out = out] \in ApptRow
        /\ [appt[a] EXCEPT !.status = st, !.in = in, !.out = out] \in ApptRow
  BY <1>0 DEF StoreTypeOK, ApptRow
<1>d. \A a \in Appts : appt[a].status \in States /\ appt[a].in \in BOOLEAN
                       /\ appt[a].out \in BOOLEAN
  BY <1>0 DEF StoreTypeOK, ApptRow
<1>e. {"pendiente", "en_progreso", "completado", "cancelado"} \subseteq States
  BY DEF States
<1>f. ASSUME NEW v \in Visitors, NEW st \in States
      PROVE  Found(v, st) \in VisitorEntity
  BY CardSeenType DEF Found, VisitorEntity, ApptsOf
<1>g. /\ {"asgCard", "unCard", "fetchAppt", "saveAppt", "saveVisitor", "saveCard",
          "lookup"} \subseteq Pcs
      /\ {"Register", "CheckOutVisitor", "UpdateVisitor", "SetImage", "Assign",
          "Unassign", "UpdateCard", "RecordLocation", "ReportLocation",
          "ReleaseJob"} \subseteq AllOps
  BY DEF Pcs, AssignPcs, UnassignPcs, AllOps
<1>1. ASSUME NEW v \in Visitors, NEW a \in Appts, NEW ends \in BOOLEAN,
             Register(w, v, a, ends)
      PROVE  DataOK'
  <2> DEFINE e == [row |-> "unused", visitor |-> v, status |-> "pendiente",
                   in |-> TRUE, out |-> ends]
             t == [Idle EXCEPT !.op = "Register", !.pc = "saveAppt", !.v = v,
                               !.a = a, !.ae = e]
             ve == [state |-> "pendiente", card |-> NotLoaded, appts |-> Appts]
  <2>1. e \in ApptRow
    BY DEF ApptRow, RowStates, States
  <2>2. t \in TaskOK
    BY <2>1, IdleType, <1>g DEF TaskOK, Task, KnowsIds
  <2>3. ve.state \in States
    BY <1>e
  <2>4. SaveVisitor(v, ve) /\ Become(w, t)
    BY <1>1 DEF Register
  <2>5. StoreTypeOK'
    <3> HIDE DEF ve
    <3> QED BY <1>0, <2>3, <2>4, SaveVisitorType
  <2> HIDE DEF t
  <2> QED BY <1>0, <2>2, <2>4, <2>5, BecomeType
<1>2. ASSUME NEW v \in Visitors, NEW a \in Appts, CheckOutVisitor(w, v, a)
      PROVE  DataOK'
  <2>1. Found(v, "completado") \in VisitorEntity
    BY <1>e, <1>f
  <2>2. [Idle EXCEPT !.op = "CheckOutVisitor", !.pc = "fetchAppt", !.v = v, !.a = a,
                     !.ve = Found(v, "completado")] \in TaskOK
    BY <2>1, IdleType, <1>g DEF TaskOK, Task, KnowsIds
  <2> QED BY <1>2, <2>2, <1>a DEF CheckOutVisitor
<1>3. ASSUME NEW v \in Visitors, NEW a \in Appts, NEW st \in workload.states,
             UpdateVisitor(w, v, a, st)
      PROVE  DataOK'
  <2> DEFINE s == IF st = "keep" THEN visitor[v].state ELSE st
  <2>1. s \in States
    BY <1>0 DEF StoreTypeOK, VisitorRow
  <2>2. Found(v, s) \in VisitorEntity
    BY <2>1, <1>f
  <2>3. [Idle EXCEPT !.op = "UpdateVisitor", !.pc = "fetchAppt", !.v = v, !.a = a,
                     !.st = st, !.ve = Found(v, s)] \in TaskOK
    BY <1>0, <2>2, IdleType, <1>g DEF TaskOK, Task, KnowsIds
  <2> QED BY <1>3, <2>3, <1>a DEF UpdateVisitor
<1>4. ASSUME NEW v \in Visitors, SetImage(w, v) PROVE DataOK'
  <2>1. Found(v, visitor[v].state) \in VisitorEntity
    BY <1>0, <1>f DEF StoreTypeOK, VisitorRow
  <2>2. [Idle EXCEPT !.op = "SetImage", !.pc = "saveVisitor", !.v = v,
                     !.ve = Found(v, visitor[v].state)] \in TaskOK
    BY <2>1, IdleType, <1>g DEF TaskOK, Task, KnowsIds
  <2> QED BY <1>4, <2>2, <1>a DEF SetImage
<1>5. ASSUME NEW v \in Visitors, DeleteVisitor(w, v) PROVE DataOK'
  BY <1>0, <1>5, RemoveType DEF DeleteVisitor
<1>6. ASSUME NEW v \in Visitors, NEW a \in Appts, CreateAppt(w, v, a) PROVE DataOK'
  <2>1. [UnusedAppt EXCEPT !.visitor = v] \in ApptRow
    BY DEF UnusedAppt, ApptRow, RowStates, States
  <2> QED BY <1>0, <1>6, <2>1, SaveApptType DEF CreateAppt
<1>7. ASSUME NEW a \in Appts, NEW st \in workload.states, NEW in \in BOOLEAN,
             NEW out \in BOOLEAN, UpdateAppt(w, a, st, in, out)
      PROVE  DataOK'
  <2> DEFINE s == IF st = "keep" THEN appt[a].status ELSE st
             e == [appt[a] EXCEPT !.status = s, !.in = appt[a].in \/ in,
                                  !.out = appt[a].out \/ out]
  <2>1. s \in States
    BY <1>0, <1>d
  <2>2. e \in ApptRow
    <3> HIDE DEF s
    <3> QED BY <1>c, <2>1
  <2>3. TakeAppt(w, "UpdateAppt", "saveAppt", a, e)
    BY <1>7 DEF UpdateAppt
  <2> HIDE DEF e
  <2> QED BY <2>2, <2>3, <1>b DEF AllOps, Pcs
<1>8. ASSUME NEW a \in Appts, CheckIn(w, a) PROVE DataOK'
  BY <1>8, <1>b, <1>c, <1>e DEF CheckIn, AllOps, Pcs
<1>9. ASSUME NEW a \in Appts, CheckOut(w, a) PROVE DataOK'
  BY <1>9, <1>b, <1>c, <1>e DEF CheckOut, AllOps, Pcs
<1>10. ASSUME NEW a \in Appts, Cancel(w, a) PROVE DataOK'
  BY <1>10, <1>b, <1>c, <1>e DEF Cancel, AllOps, Pcs
<1>11. ASSUME NEW a \in Appts, DeleteAppt(w, a) PROVE DataOK'
  BY <1>0, <1>11, RemoveType DEF DeleteAppt
<1>12. ASSUME NEW c \in Cards, NEW v \in Visitors, Assign(w, c, v) PROVE DataOK'
  <2>1. [Idle EXCEPT !.op = "Assign", !.pc = "asgCard", !.c = c, !.v = v] \in TaskOK
    BY IdleType, <1>g DEF TaskOK, Task, KnowsIds
  <2> QED BY <1>12, <2>1, <1>a DEF Assign
<1>13. ASSUME NEW c \in Cards, Unassign(w, c) PROVE DataOK'
  <2>1. [Idle EXCEPT !.op = "Unassign", !.pc = "unCard", !.c = c] \in TaskOK
    BY IdleType, <1>g DEF TaskOK, Task, KnowsIds
  <2> QED BY <1>13, <2>1, <1>a DEF Unassign
<1>14. ASSUME NEW c \in Cards, NEW active \in BOOLEAN, UpdateCard(w, c, active)
       PROVE  DataOK'
  <2>1. [card[c] EXCEPT !.active = active] \in CardRow
    BY <1>0 DEF StoreTypeOK, CardRow
  <2>2. [Idle EXCEPT !.op = "UpdateCard", !.pc = "saveCard", !.c = c,
                     !.ce = [card[c] EXCEPT !.active = active]] \in TaskOK
    BY <2>1, IdleType, <1>g DEF TaskOK, Task, KnowsIds
  <2> QED BY <1>14, <2>2, <1>a DEF UpdateCard
<1>15. ASSUME NEW c \in Cards, RecordLocation(w, c) PROVE DataOK'
  <2>1. [Idle EXCEPT !.op = "RecordLocation", !.pc = "lookup", !.c = c] \in TaskOK
    BY IdleType, <1>g DEF TaskOK, Task, KnowsIds
  <2> QED BY <1>15, <2>1, <1>a DEF RecordLocation
<1>16. ASSUME NEW c \in Cards, ReportLocation(w, c) PROVE DataOK'
  <2>1. [card[c] EXCEPT !.locations = MaxLocations] \in CardRow
    BY <1>0, MaxLocationsAssumption DEF StoreTypeOK, CardRow
  <2>2. [Idle EXCEPT !.op = "ReportLocation", !.pc = "saveCard", !.c = c,
                     !.ce = [card[c] EXCEPT !.locations = MaxLocations]] \in TaskOK
    BY <2>1, IdleType, <1>g DEF TaskOK, Task, KnowsIds
  <2> QED BY <1>16, <2>2, <1>a DEF ReportLocation
<1>17. ASSUME NEW a \in Appts, AssignJob(w, a) PROVE DataOK'
  BY <1>17, <1>b, <1>c, <1>e DEF AssignJob, AllOps, Pcs, AssignPcs
<1>18. ASSUME NEW a \in Appts, ReleaseJob(w, a) PROVE DataOK'
  <2> DEFINE v == appt[a].visitor
             ve == [state |-> "completado", card |-> CardSeen(v), appts |-> Appts]
             t == [Idle EXCEPT !.op = "ReleaseJob", !.pc = "unCard", !.v = v,
                               !.c = CardSeen(v), !.a = a, !.ve = ve,
                               !.ae = [appt[a] EXCEPT !.status = "completado"]]
  <2>1. v \in Visitors \cup {NoVisitor} /\ CardSeen(v) \in Cards
    BY <1>0, <1>18, CardSeenType DEF ReleaseJob, StoreTypeOK, ApptRow
  <2>2. ve \in VisitorEntity
    BY <2>1, <1>e DEF VisitorEntity
  <2>3. t \in TaskOK
    <3> HIDE DEF v, ve
    <3> QED BY <2>1, <2>2, <1>c, <1>e, <1>g, IdleType
            DEF TaskOK, Task, KnowsIds
  <2>4. Become(w, t) /\ UNCHANGED store
    BY <1>18 DEF ReleaseJob
  <2> HIDE DEF t
  <2> QED BY <2>3, <2>4, <1>a
<1>19. ASSUME NEW a \in Appts, Archive(w, a) PROVE DataOK'
  <2>1. appt[a] \in ApptRow
    BY <1>0 DEF StoreTypeOK
  <2> QED BY <1>19, <2>1, <1>b DEF Archive, AllOps, Pcs
<1> QED
  BY <1>1, <1>2, <1>3, <1>4, <1>5, <1>6, <1>7, <1>8, <1>9, <1>10, <1>11, <1>12,
     <1>13, <1>14, <1>15, <1>16, <1>17, <1>18, <1>19 DEF Accept

\* An await that completes keeps the rows and the tasks well typed.
LEMMA StepType ==
  ASSUME DataOK, NEW w \in Workers, Step(w)
  PROVE  DataOK'
<1> DEFINE t == task[w]
<1>0. /\ StoreTypeOK
      /\ task \in [Workers -> TaskOK]
      /\ t \in TaskOK
  BY DEF DataOK
<1>a. UNCHANGED store => StoreTypeOK'
  BY <1>0 DEF store, StoreTypeOK
<1>b. /\ t.v \in Visitors \cup {NoVisitor}
      /\ t.ce \in CardRow /\ t.ae \in ApptRow /\ t.ve \in VisitorEntity
  BY <1>0 DEF TaskOK, Task
<1>c. t.ce.holder \in Visitors \cup {NoVisitor}
  BY <1>b DEF CardRow
<1>d. {"idle", "findCards", "asgVisitor", "asgSaveVisitor", "asgSaveCard", "unVisitor",
       "unSaveVisitor", "unSaveCard", "saveAppt", "saveVisitor", "lookup",
       "recSaveCard", "insertLocation"} \subseteq Pcs \ {"asgCard", "unCard", "fetchAppt"}
  BY DEF Pcs, AssignPcs, UnassignPcs
<1>e. {"asgCard", "unCard"} \subseteq Pcs
  BY DEF Pcs, AssignPcs, UnassignPcs
<1>f. \A c \in Cards : card[c] \in CardRow
  BY <1>0 DEF StoreTypeOK
<1>g. {"pendiente", "en_progreso", "completado", "cancelado"} \subseteq States
  BY DEF States
<1>h. NoVisitorEntity \in VisitorEntity /\ UnusedAppt \in ApptRow
  BY DEF NoVisitorEntity, VisitorEntity, UnusedAppt, ApptRow, RowStates, States
<1> HIDE DEF t
<1>1. CASE FindCards(w)
  <2>1. ASSUME NEW c \in AvailableCards PROVE [t EXCEPT !.pc = "asgCard", !.c = c] \in TaskOK
    BY <1>0, <1>e DEF AvailableCards, TaskOK, Task, KnowsIds
  <2> QED BY <1>1, <1>0, <1>a, <2>1, ThrowType, BecomeType DEF FindCards, DataOK, t
<1>2. CASE AssignReadCard(w)
  <2>1. t.c \in Cards
    BY <1>0, <1>2 DEF AssignReadCard, At, TaskOK, KnowsIds, t
  <2>2. [t EXCEPT !.pc = "asgVisitor", !.ce = card[t.c]] \in TaskOK
    BY <1>0, <1>d, <1>f, <2>1 DEF TaskOK, Task, KnowsIds
  <2> QED BY <1>2, <1>0, <1>a, <2>2, BecomeType DEF AssignReadCard, DataOK, t
<1>3. CASE AssignReadVisitor(w)
  BY <1>3, <1>0, <1>a, <1>d, GotoType, ThrowType DEF AssignReadVisitor, DataOK
<1>4. CASE AssignSaveVisitor(w)
  <2> DEFINE e == [state |-> "en_progreso", card |-> NoCard, appts |-> Appts]
  <2>1. e.state \in States
    BY <1>g
  <2>2. SaveVisitor(t.v, e)
    BY <1>4 DEF AssignSaveVisitor, t
  <2> HIDE DEF e
  <2>3. StoreTypeOK'
    BY <1>0, <1>b, <2>1, <2>2, SaveVisitorType
  <2> QED BY <1>4, <1>0, <1>d, <2>3, GotoType DEF AssignSaveVisitor, DataOK
<1>5. CASE AssignSaveCard(w)
  <2> DEFINE e == [t.ce EXCEPT !.holder = t.v, !.issued = TRUE]
  <2>1. e \in CardRow
    BY <1>b DEF CardRow
  <2>2. \/ SaveCard(t.c, e) /\ Return(w, AfterAssign(t))
        \/ Throw(w) /\ UNCHANGED store
    BY <1>5 DEF AssignSaveCard, t
  <2> HIDE DEF e
  <2> QED BY <1>0, <1>a, <2>1, <2>2, SaveCardType, AfterType, GotoType, ThrowType DEF DataOK
<1>6. CASE UnassignReadCard(w)
  <2>1. t.c \in Cards
    BY <1>0, <1>6 DEF UnassignReadCard, At, TaskOK, KnowsIds, t
  <2>2. [t EXCEPT !.pc = "unVisitor", !.ce = card[t.c]] \in TaskOK
    BY <1>0, <1>d, <1>f, <2>1 DEF TaskOK, Task, KnowsIds
  <2> QED BY <1>6, <1>0, <1>a, <2>2, ThrowType, BecomeType DEF UnassignReadCard, DataOK, t
<1>7. CASE UnassignReadVisitor(w)
  BY <1>7, <1>0, <1>a, <1>d, GotoType DEF UnassignReadVisitor, DataOK
<1>8. CASE UnassignSaveVisitor(w)
  <2> DEFINE e == [state |-> "completado", card |-> NotLoaded, appts |-> Appts]
  <2>1. e.state \in States
    BY <1>g
  <2>2. SaveVisitor(t.ce.holder, e)
    BY <1>8 DEF UnassignSaveVisitor, t
  <2> HIDE DEF e
  <2>3. StoreTypeOK'
    BY <1>0, <1>c, <2>1, <2>2, SaveVisitorType
  <2> QED BY <1>8, <1>0, <1>d, <2>3, GotoType DEF UnassignSaveVisitor, DataOK
<1>9. CASE UnassignSaveCard(w)
  <2> DEFINE e == [t.ce EXCEPT !.holder = NoVisitor, !.issued = FALSE]
  <2>1. e \in CardRow
    BY <1>b DEF CardRow
  <2>2. \/ SaveCard(t.c, e) /\ Return(w, AfterUnassign(t))
        \/ Throw(w) /\ UNCHANGED store
    BY <1>9 DEF UnassignSaveCard, t
  <2> HIDE DEF e
  <2> QED BY <1>0, <1>a, <2>1, <2>2, SaveCardType, AfterType, GotoType, ThrowType DEF DataOK
<1>10. CASE SaveAppt(w)
  <2>1. PICK next \in {"findCards", "saveVisitor", "idle"} :
          \/ /\ SaveApptRow(t.a, t.ae)
             /\ Become(w, IF next = "idle" THEN Idle
                          ELSE [t EXCEPT !.pc = next, !.a = NoAppt, !.ae = UnusedAppt])
          \/ Throw(w) /\ UNCHANGED store
    BY <1>10 DEF SaveAppt, t
  <2>2. [t EXCEPT !.pc = next, !.a = NoAppt, !.ae = UnusedAppt] \in TaskOK
    BY <1>0, <1>d, <1>h DEF TaskOK, Task, KnowsIds
  <2> QED BY <1>0, <1>a, <1>b, <2>1, <2>2, IdleType, SaveApptType, BecomeType, ThrowType
          DEF DataOK
<1>11. CASE SaveVisitorEntity(w)
  <2>1. \/ /\ SaveVisitor(t.v, t.ve)
           /\ \/ /\ t.ve.card \in Cards
                 /\ Become(w, [t EXCEPT !.pc = "unCard", !.c = t.ve.card,
                                        !.ve = NoVisitorEntity])
              \/ Become(w, [t EXCEPT !.pc = "saveAppt", !.ve = NoVisitorEntity])
              \/ Become(w, Idle)
        \/ Throw(w) /\ UNCHANGED store
    BY <1>11 DEF SaveVisitorEntity, t
  <2>2. t.ve.card \in Cards =>
          [t EXCEPT !.pc = "unCard", !.c = t.ve.card, !.ve = NoVisitorEntity] \in TaskOK
    BY <1>0, <1>e, <1>h DEF TaskOK, Task, KnowsIds
  <2>3. [t EXCEPT !.pc = "saveAppt", !.ve = NoVisitorEntity] \in TaskOK
    BY <1>0, <1>d, <1>h DEF TaskOK, Task, KnowsIds
  <2>4. SaveVisitor(t.v, t.ve) => StoreTypeOK'
    BY <1>0, <1>b, SaveVisitorType DEF VisitorEntity
  <2> QED BY <1>0, <1>a, <2>1, <2>2, <2>3, <2>4, IdleType, BecomeType, ThrowType DEF DataOK
<1>12. CASE SaveCardEntity(w)
  <2>1. PICK next \in {"lookup", "idle"} :
          \/ SaveCard(t.c, t.ce) /\ Goto(w, next)
          \/ Throw(w) /\ UNCHANGED store
    BY <1>12 DEF SaveCardEntity, t
  <2> QED BY <1>0, <1>a, <1>b, <1>d, <2>1, SaveCardType, GotoType, ThrowType DEF DataOK
<1>13. CASE FetchAppt(w)
  <2> DEFINE row == appt[t.a]
  <2>1. row \in ApptRow
    BY <1>0, <1>13 DEF FetchAppt, At, TaskOK, KnowsIds, StoreTypeOK, t
  <2>2. CASE Throw(w) /\ UNCHANGED store
    BY <1>0, <1>a, <2>2, ThrowType DEF DataOK
  <2>3. CASE /\ Become(w, [t EXCEPT !.pc = "saveAppt",
                  !.ae = [row EXCEPT !.status = "completado", !.out = TRUE]])
             /\ UNCHANGED store
    <3>1. [row EXCEPT !.status = "completado", !.out = TRUE] \in ApptRow
      BY <1>g, <2>1 DEF ApptRow
    <3>2. [t EXCEPT !.pc = "saveAppt",
             !.ae = [row EXCEPT !.status = "completado", !.out = TRUE]] \in TaskOK
      BY <1>0, <1>d, <3>1 DEF TaskOK, Task, KnowsIds
    <3> QED BY <1>0, <1>a, <2>3, <3>2, BecomeType DEF DataOK
  <2>4. ASSUME NEW in \in BOOLEAN, NEW out \in BOOLEAN,
               Become(w, [t EXCEPT !.pc = "saveVisitor",
                 !.ae = [row EXCEPT !.status = IF t.st = "keep" THEN @ ELSE t.st,
                                    !.in = @ \/ in, !.out = @ \/ out]]),
               UNCHANGED store
        PROVE  DataOK'
    <3> DEFINE s == IF t.st = "keep" THEN row.status ELSE t.st
               e == [row EXCEPT !.status = s, !.in = row.in \/ in, !.out = row.out \/ out]
    <3>1. s \in States
      BY <1>0, <2>1 DEF TaskOK, Task, ApptRow
    <3>2. e \in ApptRow
      <4> HIDE DEF s
      <4> QED BY <2>1, <3>1 DEF ApptRow
    <3>3. Become(w, [t EXCEPT !.pc = "saveVisitor", !.ae = e])
      BY <2>4
    <3> HIDE DEF e
    <3>4. [t EXCEPT !.pc = "saveVisitor", !.ae = e] \in TaskOK
      BY <1>0, <1>d, <3>2 DEF TaskOK, Task, KnowsIds
    <3> QED BY <1>0, <1>a, <2>4, <3>3, <3>4, BecomeType DEF DataOK
  <2> QED BY <1>13, <2>2, <2>3, <2>4 DEF FetchAppt, t
<1>14. CASE CheckInReadVisitor(w)
  BY <1>14, <1>0, <1>a, <1>d, GotoType, ThrowType DEF CheckInReadVisitor, DataOK
<1>15. CASE CheckOutReadVisitor(w)
  <2>1. CardsOf(t.v) # {} => [t EXCEPT !.pc = "unCard", !.c = CardSeen(t.v)] \in TaskOK
    BY <1>0, <1>e, CardSeenType DEF TaskOK, Task, KnowsIds
  <2> QED BY <1>15, <1>0, <1>a, <1>d, <2>1, GotoType, BecomeType
          DEF CheckOutReadVisitor, DataOK, t
<1>16. CASE RecordLookup(w)
  <2>1. ASSUME NEW c \in Cards
        PROVE  [t EXCEPT !.pc = "recSaveCard", !.c = c, !.ce = card[c]] \in TaskOK
    BY <1>0, <1>d, <1>f DEF TaskOK, Task, KnowsIds
  <2> QED BY <1>16, <1>0, <1>a, <2>1, ThrowType, BecomeType
          DEF RecordLookup, CardsNumbered, DataOK, t
<1>17. CASE RecordSaveCard(w)
  BY <1>17, <1>0, <1>a, <1>b, <1>d, SaveCardType, GotoType, ThrowType
     DEF RecordSaveCard, DataOK, t
<1>18. CASE RecordInsert(w)
  <2>1. card' \in [Cards -> CardRow]
    <3> SUFFICES ASSUME NEW c \in Cards PROVE card'[c] \in CardRow
      BY <1>0, <1>18 DEF RecordInsert, StoreTypeOK
    <3>1. card[c] \in CardRow /\ card[c].locations + 1 \in Nat
      BY <1>f DEF CardRow
    <3>2. card'[c] \in {card[c], [card[c] EXCEPT !.locations = card[c].locations + 1]}
      BY <1>0, <1>18 DEF RecordInsert, StoreTypeOK
    <3> QED BY <3>1, <3>2 DEF CardRow
  <2>2. StoreTypeOK'
    BY <1>0, <1>18, <2>1 DEF RecordInsert, StoreTypeOK
  <2> QED BY <1>18, <1>0, <1>d, <2>2, GotoType DEF RecordInsert, DataOK
<1> QED
  BY <1>1, <1>2, <1>3, <1>4, <1>5, <1>6, <1>7, <1>8, <1>9, <1>10, <1>11, <1>12,
     <1>13, <1>14, <1>15, <1>16, <1>17, <1>18 DEF Step

\* No step changes the workload.
LEMMA WorkloadStays == Next => workload' = workload
<1> SUFFICES ASSUME NEW w \in Workers, Accept(w) \/ Step(w) \/ Fault(w)
             PROVE  workload' = workload
  BY DEF Next
<1>1. \A t : Become(w, t) => workload' = workload
  BY DEF Become
<1>2. /\ \A pc : Goto(w, pc) \/ Return(w, pc) => workload' = workload
      /\ Throw(w) => workload' = workload
  BY <1>1 DEF Goto, Return, Throw
<1>3. \A op, pc, a, e : TakeAppt(w, op, pc, a, e) => workload' = workload
  BY <1>1 DEF TakeAppt
<1>4. CASE Accept(w)
  BY <1>1, <1>3, <1>4, Zenon
     DEF Accept, Register, CheckOutVisitor, UpdateVisitor, SetImage, DeleteVisitor,
         CreateAppt, UpdateAppt, CheckIn, CheckOut, Cancel, Archive, DeleteAppt, Assign,
         Unassign, UpdateCard, RecordLocation, ReportLocation, AssignJob, ReleaseJob
<1>5. CASE Step(w)
  BY <1>1, <1>2, <1>5, Zenon
     DEF Step, FindCards, AssignReadCard, AssignReadVisitor, AssignSaveVisitor,
         AssignSaveCard, UnassignReadCard, UnassignReadVisitor, UnassignSaveVisitor,
         UnassignSaveCard, SaveAppt, SaveVisitorEntity, SaveCardEntity, FetchAppt,
         CheckInReadVisitor, CheckOutReadVisitor, RecordLookup, RecordSaveCard, RecordInsert
<1>6. CASE Fault(w)
  BY <1>1, <1>2, <1>6 DEF Fault
<1> QED BY <1>4, <1>5, <1>6

\* The database after any registrations is well typed.
LEMMA InitType == Init => TypeOK
<1> SUFFICES ASSUME Init PROVE TypeOK
  OBVIOUS
<1>0. PICK lent \in [Known -> Cards \cup {NoCard}], booked \in [Known -> Appts],
           ends \in [Known -> BOOLEAN] : InitWith(lent, booked, ends)
  BY DEF Init
<1> USE <1>0 DEF InitWith
<1>1. visitor \in [Visitors -> VisitorRow]
  BY DEF VisitorRow, RowStates, States
<1>2. card \in [Cards -> CardRow]
  <2> SUFFICES ASSUME NEW c \in Cards PROVE card[c] \in CardRow
    OBVIOUS
  <2> DEFINE lender == {v \in Known : lent[v] = c}
  <2>1. lender # {} => (CHOOSE v \in lender : TRUE) \in Visitors
    BY KnownAssumption
  <2> QED BY <2>1 DEF CardRow
<1>3. appt \in [Appts -> ApptRow]
  <2> SUFFICES ASSUME NEW a \in Appts PROVE appt[a] \in ApptRow
    BY DEF UnusedAppt
  <2> DEFINE owner == {v \in Known : booked[v] = a}
             v0 == CHOOSE v \in owner : TRUE
  <2>1. CASE owner = {}
    BY <2>1 DEF UnusedAppt, ApptRow, RowStates, States
  <2>2. CASE owner # {}
    <3>1. v0 \in Known
      BY <2>2
    <3>2. v0 \in Visitors /\ ends[v0] \in BOOLEAN
      BY <3>1, KnownAssumption
    <3>3. appt[a] = [row |-> "live", visitor |-> v0, status |-> "pendiente",
                     in |-> TRUE, out |-> ends[v0]]
      BY <2>2
    <3>4. [row |-> "live", visitor |-> v0, status |-> "pendiente",
           in |-> TRUE, out |-> ends[v0]] \in ApptRow
      BY <3>2 DEF ApptRow, RowStates, States
    <3> QED BY <3>3, <3>4
  <2> QED BY <2>1, <2>2
<1>4. task \in [Workers -> TaskOK]
  BY IdleType
<1>5. workload \in Workloads
  BY DEF Init
<1> QED BY <1>1, <1>2, <1>3, <1>4, <1>5 DEF TypeOK, DataOK, StoreTypeOK

\* Every step of the system, a fault included, keeps the types.
LEMMA NextType == TypeOK /\ [Next]_vars => TypeOK'
<1> SUFFICES ASSUME TypeOK, [Next]_vars PROVE TypeOK'
  OBVIOUS
<1>0. DataOK
  BY DEF TypeOK
<1>1. CASE UNCHANGED vars
  BY <1>1 DEF vars, store, TypeOK, DataOK, StoreTypeOK
<1>2. ASSUME NEW w \in Workers, Fault(w) PROVE DataOK'
  BY <1>0, <1>2, ThrowType, BecomeType, IdleType DEF Fault, DataOK, StoreTypeOK, store
<1>3. CASE Next
  <2>1. DataOK'
    BY <1>0, <1>2, <1>3, AcceptType, StepType DEF Next
  <2> QED BY <1>3, <2>1, WorkloadStays DEF TypeOK
<1> QED BY <1>1, <1>3

\* The rows and the in-memory entities of every call chain stay well typed,
\* whatever operations run, interleave, fail or are cut off by a restart.
THEOREM TypeCorrect == Spec => []TypeOK
BY InitType, NextType, PTL DEF Spec

=============================================================================
