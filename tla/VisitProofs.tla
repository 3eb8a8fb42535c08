----------------------------- MODULE VisitProofs -----------------------------
(***************************************************************************)
(* What stays true of the rows of visitors, cards and appointments for     *)
(* every workload: the references between them, the times of appointments  *)
(* and the visits that lent cards belong to.  Then what requests that come *)
(* one after the other keep: cards and visits that match, and the promises *)
(* of CardLending.  For every set of visitors, cards and appointments.     *)
(***************************************************************************)
EXTENDS CardVisitsProofs

(***************************************************************************)
(* Every await executes at most one statement on the rows.                 *)
(***************************************************************************)

\* What a step may do to the three tables.
Statement ==
  \/ UNCHANGED store
  \/ \E v \in Visitors \cup {NoVisitor}, e \in VisitorEntity : SaveVisitor(v, e)
  \/ \E c \in Cards \cup {NoCard}, e \in CardRow : SaveCard(c, e)
  \/ \E a \in Appts \cup {NoAppt}, e \in ApptRow : SaveApptRow(a, e)
  \/ \E v \in Visitors : RemoveVisitor(v)
  \/ \E a \in Appts : RemoveAppt(a)
  \/ \E c \in Cards \cup {NoCard} :
       /\ card' = [card EXCEPT ![c].locations = @ + 1]
       /\ UNCHANGED <<visitor, appt>>

\* Accepting a request executes one of these statements, or none.
LEMMA AcceptStatement ==
  ASSUME TypeOK, NEW w \in Workers, Accept(w)
  PROVE  Statement
<1>1. ASSUME NEW v \in Visitors, NEW a \in Appts, NEW ends \in BOOLEAN, Register(w, v, a, ends)
      PROVE  Statement
  <2>1. [state |-> "pendiente", card |-> NotLoaded, appts |-> Appts] \in VisitorEntity
    BY DEF VisitorEntity, States
  <2> QED BY <1>1, <2>1 DEF Register, Statement
<1>2. ASSUME NEW v \in Visitors, NEW a \in Appts, CreateAppt(w, v, a)
      PROVE  Statement
  <2>1. [UnusedAppt EXCEPT !.visitor = v] \in ApptRow
    BY DEF UnusedAppt, ApptRow, RowStates, States
  <2> QED BY <1>2, <2>1 DEF CreateAppt, Statement
<1>3. ASSUME NEW v \in Visitors, DeleteVisitor(w, v) PROVE Statement
  BY <1>3 DEF DeleteVisitor, Statement
<1>4. ASSUME NEW a \in Appts, DeleteAppt(w, a) PROVE Statement
  BY <1>4 DEF DeleteAppt, Statement
<1>5. \A op, pc, a, e : TakeAppt(w, op, pc, a, e) => UNCHANGED store
  BY DEF TakeAppt
<1>6. \/ \E v \in Visitors, a \in Appts, ends \in BOOLEAN : Register(w, v, a, ends)
      \/ \E v \in Visitors, a \in Appts : CreateAppt(w, v, a)
      \/ \E v \in Visitors : DeleteVisitor(w, v)
      \/ \E a \in Appts : DeleteAppt(w, a)
      \/ UNCHANGED store
  BY <1>5, Zenon DEF Accept, CheckOutVisitor, UpdateVisitor, SetImage, UpdateAppt,
     CheckIn, CheckOut, Cancel, Archive, Assign, Unassign, UpdateCard, RecordLocation,
     ReportLocation, AssignJob, ReleaseJob
<1> QED BY <1>1, <1>2, <1>3, <1>4, <1>6 DEF Statement

\* So does every await of a call chain.
LEMMA StepStatement ==
  ASSUME TypeOK, NEW w \in Workers, Step(w)
  PROVE  Statement
<1> DEFINE t == task[w]
<1>0. t \in Task
  BY DEF TypeOK, DataOK, TaskOK
<1>a. /\ t.v \in Visitors \cup {NoVisitor} /\ t.c \in Cards \cup {NoCard}
      /\ t.a \in Appts \cup {NoAppt}
      /\ t.ce \in CardRow /\ t.ae \in ApptRow /\ t.ve \in VisitorEntity
  BY <1>0 DEF Task
<1>b. t.ce.holder \in Visitors \cup {NoVisitor}
  BY <1>a DEF CardRow
<1> HIDE DEF t
<1>1. CASE AssignSaveVisitor(w)
  <2>1. [state |-> "en_progreso", card |-> NoCard, appts |-> Appts] \in VisitorEntity
    BY DEF VisitorEntity, States
  <2> QED BY <1>1, <1>a, <2>1 DEF AssignSaveVisitor, Statement, t
<1>2. CASE AssignSaveCard(w)
  <2>1. [t.ce EXCEPT !.holder = t.v, !.issued = TRUE] \in CardRow
    BY <1>a DEF CardRow
  <2> QED BY <1>2, <1>a, <2>1 DEF AssignSaveCard, Statement, t
<1>3. CASE UnassignSaveVisitor(w)
  <2>1. [state |-> "completado", card |-> NotLoaded, appts |-> Appts] \in VisitorEntity
    BY DEF VisitorEntity, States
  <2> QED BY <1>3, <1>b, <2>1 DEF UnassignSaveVisitor, Statement, t
<1>4. CASE UnassignSaveCard(w)
  <2>1. [t.ce EXCEPT !.holder = NoVisitor, !.issued = FALSE] \in CardRow
    BY <1>a DEF CardRow
  <2> QED BY <1>4, <1>a, <2>1 DEF UnassignSaveCard, Statement, t
<1>5. CASE SaveAppt(w)
  BY <1>5, <1>a DEF SaveAppt, Statement, t
<1>6. CASE SaveVisitorEntity(w)
  BY <1>6, <1>a DEF SaveVisitorEntity, Statement, t
<1>7. CASE SaveCardEntity(w)
  BY <1>7, <1>a DEF SaveCardEntity, Statement, t
<1>8. CASE RecordSaveCard(w)
  BY <1>8, <1>a DEF RecordSaveCard, Statement, t
<1>9. CASE RecordInsert(w)
  BY <1>9, <1>a DEF RecordInsert, Statement, t
<1>10. \/ AssignSaveVisitor(w) \/ AssignSaveCard(w) \/ UnassignSaveVisitor(w)
       \/ UnassignSaveCard(w) \/ SaveAppt(w) \/ SaveVisitorEntity(w) \/ SaveCardEntity(w)
       \/ RecordSaveCard(w) \/ RecordInsert(w)
       \/ UNCHANGED store
  BY Zenon DEF Step, FindCards, AssignReadCard, AssignReadVisitor, UnassignReadCard,
     UnassignReadVisitor, FetchAppt, CheckInReadVisitor, CheckOutReadVisitor, RecordLookup
<1> QED BY <1>1, <1>2, <1>3, <1>4, <1>5, <1>6, <1>7, <1>8, <1>9, <1>10 DEF Statement

\* Every step, a fault and a stutter included, is one statement or none.
LEMMA OneStatement == TypeOK /\ [Next]_vars => Statement
<1> SUFFICES ASSUME TypeOK, [Next]_vars PROVE Statement
  OBVIOUS
<1>1. CASE UNCHANGED vars
  BY <1>1 DEF vars, Statement
<1>2. ASSUME NEW w \in Workers, Fault(w) PROVE Statement
  BY <1>2 DEF Fault, Statement
<1> QED BY <1>1, <1>2, AcceptStatement, StepStatement DEF Next

(***************************************************************************)
(* The references between the tables.                                      *)
(***************************************************************************)

\* A save of a visitor, stale or not, keeps the references: its alignment gives
\* the card it was read with to this visitor alone.
LEMMA SaveVisitorReferences ==
  ASSUME StoreTypeOK, ReferencesIntact,
         NEW v \in Visitors \cup {NoVisitor}, NEW e \in VisitorEntity, SaveVisitor(v, e)
  PROVE  ReferencesIntact'
<1>1. \A u : Live(u) => Live(u)'
  BY DEF Live, SaveVisitor, StoreTypeOK, VisitorRow
<1>2. v \in Visitors => Live(v)'
  BY DEF Live, SaveVisitor, StoreTypeOK, VisitorRow
<1>3. \A c \in Cards : card'[c].holder = IF e.card = NotLoaded THEN card[c].holder
                                          ELSE IF c = e.card THEN v
                                          ELSE IF card[c].holder = v THEN NoVisitor
                                          ELSE card[c].holder
  BY DEF SaveVisitor, CardsAligned, StoreTypeOK, CardRow
<1>4. appt' = appt
  BY DEF SaveVisitor
<1> QED BY <1>1, <1>2, <1>3, <1>4 DEF ReferencesIntact

\* Each of the other statements respects the keys of the tables.
LEMMA StatementReferences ==
  ASSUME StoreTypeOK, ReferencesIntact, Statement
  PROVE  ReferencesIntact'
<1>1. ASSUME NEW c \in Cards \cup {NoCard}, NEW e \in CardRow, SaveCard(c, e)
      PROVE  ReferencesIntact'
  <2>1. \A d \in Cards : card'[d].holder = IF d = c THEN e.holder ELSE card[d].holder
    BY <1>1 DEF SaveCard, StoreTypeOK, CardRow
  <2>2. e.holder # NoVisitor => Live(e.holder) /\ \A d \in Cards : card[d].holder = e.holder => d = c
    BY <1>1 DEF SaveCard, CardSaveThrows, HolderTaken, HolderMissing, CardsOf
  <2> QED BY <1>1, <2>1, <2>2 DEF SaveCard, ReferencesIntact, Live
<1>2. ASSUME NEW a \in Appts \cup {NoAppt}, NEW e \in ApptRow, SaveApptRow(a, e)
      PROVE  ReferencesIntact'
  <2>1. Live(e.visitor)
    BY <1>2 DEF SaveApptRow, ApptSaveThrows
  <2>2. \A b \in Appts : appt'[b].row = "live" =>
          appt'[b].visitor = e.visitor \/ appt'[b] = appt[b]
    BY <1>2 DEF SaveApptRow, StoreTypeOK, ApptRow
  <2> QED BY <1>2, <2>1, <2>2 DEF SaveApptRow, ReferencesIntact, Live
<1>3. ASSUME NEW v \in Visitors, RemoveVisitor(v) PROVE ReferencesIntact'
  <2>1. \A u : u # v /\ Live(u) => Live(u)'
    BY <1>3 DEF RemoveVisitor, Live, StoreTypeOK, VisitorRow
  <2>2. \A c \in Cards : card[c].holder # v
    BY <1>3 DEF RemoveVisitor, CardsOf
  <2>3. \A a \in Appts : appt'[a].row = "live" => appt'[a] = appt[a] /\ appt[a].visitor # v
    BY <1>3 DEF RemoveVisitor, ApptsOf, StoreTypeOK, ApptRow
  <2>4. card' = card
    BY <1>3 DEF RemoveVisitor
  <2> QED BY <2>1, <2>2, <2>3, <2>4 DEF ReferencesIntact
<1>4. ASSUME NEW a \in Appts, RemoveAppt(a) PROVE ReferencesIntact'
  <2>1. \A b \in Appts : appt'[b].row = "live" => appt'[b] = appt[b]
    BY <1>4 DEF RemoveAppt, StoreTypeOK, ApptRow
  <2> QED BY <1>4, <2>1 DEF RemoveAppt, ReferencesIntact, Live
<1>5. ASSUME NEW c \in Cards \cup {NoCard},
             card' = [card EXCEPT ![c].locations = @ + 1], UNCHANGED <<visitor, appt>>
      PROVE  ReferencesIntact'
  <2>1. \A d \in Cards : card'[d].holder = card[d].holder
    BY <1>5 DEF StoreTypeOK, CardRow
  <2> QED BY <1>5, <2>1 DEF ReferencesIntact, Live
<1>6. CASE UNCHANGED store
  BY <1>6 DEF store, ReferencesIntact, Live
<1> QED BY <1>1, <1>2, <1>3, <1>4, <1>5, <1>6, SaveVisitorReferences DEF Statement

\* The registrations before the run lent each card to at most one visitor.
LEMMA InitHolders ==
  ASSUME NEW lent \in [Known -> Cards \cup {NoCard}], NEW booked, NEW ends,
         InitWith(lent, booked, ends), NEW c \in Cards, card[c].holder # NoVisitor
  PROVE  card[c].holder \in Known /\ lent[card[c].holder] = c
<1> DEFINE lender == {v \in Known : lent[v] = c}
<1>1. card[c].holder = IF lender = {} THEN NoVisitor ELSE CHOOSE v \in lender : TRUE
  BY DEF InitWith
<1>2. card[c].holder \in lender
  BY <1>1
<1> QED BY <1>2

\* They leave the references intact: two visitors have different cards and
\* appointments.
LEMMA InitReferences == Init => ReferencesIntact
<1> SUFFICES ASSUME Init PROVE ReferencesIntact
  OBVIOUS
<1>0. PICK lent \in [Known -> Cards \cup {NoCard}], booked \in [Known -> Appts],
           ends \in [Known -> BOOLEAN] : InitWith(lent, booked, ends)
  BY DEF Init
<1>1. \A v \in Known : Live(v)
  BY <1>0, KnownAssumption DEF InitWith, Live
<1>2. \A c \in Cards : card[c].holder # NoVisitor =>
        card[c].holder \in Known /\ lent[card[c].holder] = c
  BY <1>0, InitHolders
<1>3. \A a \in Appts : appt[a].row = "live" => appt[a].visitor \in Known
  <2> SUFFICES ASSUME NEW a \in Appts, appt[a].row = "live"
               PROVE  appt[a].visitor \in Known
    OBVIOUS
  <2> DEFINE owner == {v \in Known : booked[v] = a}
             v0 == CHOOSE v \in owner : TRUE
  <2>1. appt[a] = IF owner = {} THEN UnusedAppt
                  ELSE [row |-> "live", visitor |-> v0, status |-> "pendiente",
                        in |-> TRUE, out |-> ends[v0]]
    BY <1>0 DEF InitWith
  <2>2. owner # {}
    BY <2>1 DEF UnusedAppt
  <2>3. v0 \in Known
    BY <2>2
  <2> QED BY <2>1, <2>2, <2>3
<1> QED BY <1>1, <1>2, <1>3 DEF ReferencesIntact

\* So does every step of the system.
LEMMA ReferencesStep == TypeOK /\ ReferencesIntact /\ [Next]_vars => ReferencesIntact'
BY OneStatement, StatementReferences DEF TypeOK, DataOK

\* Whatever operations, stale saves, faults and restarts do, a card has at most
\* one holder and nobody holds two, and no row refers to a visitor that is gone.
THEOREM ReferencesStayIntact == Spec => []ReferencesIntact
BY InitReferences, ReferencesStep, TypeCorrect, PTL DEF Spec

(***************************************************************************)
(* The times of appointments.                                              *)
(***************************************************************************)

SameTimes(e, f) == e.status = f.status /\ e.in = f.in /\ e.out = f.out

\* Of the awaits, only saveAppt writes appointments.
LEMMA StepAppts ==
  ASSUME NEW w \in Workers, Step(w) \/ Fault(w)
  PROVE  SaveAppt(w) \/ appt' = appt
<1>1. /\ \A v, e : SaveVisitor(v, e) => appt' = appt
      /\ \A c, e : SaveCard(c, e) => appt' = appt
      /\ UNCHANGED store => appt' = appt
  BY DEF SaveVisitor, SaveCard, store
<1>2. CASE Step(w)
  BY <1>1, <1>2, Zenon
     DEF Step, FindCards, AssignReadCard, AssignReadVisitor, AssignSaveVisitor,
         AssignSaveCard, UnassignReadCard, UnassignReadVisitor, UnassignSaveVisitor,
         UnassignSaveCard, SaveVisitorEntity, SaveCardEntity, FetchAppt,
         CheckInReadVisitor, CheckOutReadVisitor, RecordLookup, RecordSaveCard, RecordInsert
<1>3. CASE Fault(w)
  BY <1>1, <1>3 DEF Fault
<1> QED BY <1>2, <1>3

\* An appointment's status and times change only when a call chain saves its own
\* copy of it, or when the row is first created.
LEMMA ApptWrites ==
  ASSUME TypeOK, NEW w \in Workers, Accept(w) \/ Step(w) \/ Fault(w), NEW a \in Appts
  PROVE  \/ SameTimes(appt'[a], appt[a])
         \/ SaveAppt(w) /\ a = task[w].a /\ SameTimes(appt'[a], task[w].ae)
         \/ appt[a].row = "unused" /\ SameTimes(appt'[a], UnusedAppt)
<1>0. /\ appt \in [Appts -> ApptRow] /\ task[w].ae \in ApptRow
      /\ UnusedAppt \in ApptRow
  BY DEF TypeOK, DataOK, StoreTypeOK, TaskOK, Task, UnusedAppt, ApptRow, RowStates, States
<1>1. CASE appt' = appt
  BY <1>1 DEF SameTimes
<1>2. CASE SaveAppt(w)
  <2>1. SaveApptRow(task[w].a, task[w].ae) \/ appt' = appt
    BY <1>2 DEF SaveAppt, store
  <2>2. SaveApptRow(task[w].a, task[w].ae) =>
          appt'[a] = IF a = task[w].a THEN [task[w].ae EXCEPT !.row = "live"] ELSE appt[a]
    BY <1>0 DEF SaveApptRow
  <2> QED BY <1>0, <1>1, <1>2, <2>1, <2>2 DEF SameTimes, ApptRow
<1>3. ASSUME NEW v \in Visitors, NEW b \in Appts, CreateAppt(w, v, b)
      PROVE  \/ SameTimes(appt'[a], appt[a])
             \/ appt[a].row = "unused" /\ SameTimes(appt'[a], UnusedAppt)
  <2>1. appt'[a] = IF a = b THEN [UnusedAppt EXCEPT !.visitor = v, !.row = "live"] ELSE appt[a]
    BY <1>0, <1>3 DEF CreateAppt, SaveApptRow
  <2>2. a = b => appt[a].row = "unused"
    BY <1>3 DEF CreateAppt, Fresh
  <2> QED BY <1>0, <2>1, <2>2 DEF SameTimes, ApptRow
<1>4. ASSUME NEW v \in Visitors, DeleteVisitor(w, v) PROVE SameTimes(appt'[a], appt[a])
  BY <1>0, <1>4 DEF DeleteVisitor, RemoveVisitor, SameTimes, ApptRow
<1>5. ASSUME NEW b \in Appts, DeleteAppt(w, b) PROVE SameTimes(appt'[a], appt[a])
  BY <1>0, <1>5 DEF DeleteAppt, RemoveAppt, SameTimes, ApptRow
<1>6. /\ \A v, e : SaveVisitor(v, e) => appt' = appt
      /\ UNCHANGED store => appt' = appt
      /\ \A op, pc, b, e : TakeAppt(w, op, pc, b, e) => appt' = appt
  BY DEF SaveVisitor, store, TakeAppt
<1>7. CASE Step(w) \/ Fault(w)
  BY <1>1, <1>2, <1>7, StepAppts
<1>8. CASE Accept(w)
  <2>1. \/ \E v \in Visitors, b \in Appts : CreateAppt(w, v, b)
        \/ \E v \in Visitors : DeleteVisitor(w, v)
        \/ \E b \in Appts : DeleteAppt(w, b)
        \/ appt' = appt
    BY <1>6, <1>8, Zenon
       DEF Accept, Register, CheckOutVisitor, UpdateVisitor, SetImage, UpdateAppt,
           CheckIn, CheckOut, Cancel, Archive, Assign, Unassign, UpdateCard,
           RecordLocation, ReportLocation, AssignJob, ReleaseJob
  <2> QED BY <1>1, <1>3, <1>4, <1>5, <2>1
<1> QED BY <1>7, <1>8

\* Where a call chain goes on, it keeps its operation and the state an update asked
\* for, and it keeps the appointment it holds or drops it once saved.
Kept(t, u) == /\ u = Idle \/ (u.op = t.op /\ u.st = t.st /\ u.pc \notin {"idle", "fetchAppt"})
              /\ \/ u.a = t.a /\ u.ae = t.ae
                 \/ u.a = NoAppt /\ u.ae = UnusedAppt

\* Only a chain that fetches its appointment anew holds another one.
LEMMA StepKeepsTask ==
  ASSUME TypeOK, NEW w \in Workers, Step(w) \/ Fault(w)
  PROVE  \/ \E u : Become(w, u) /\ Kept(task[w], u)
         \/ FetchAppt(w) /\ \E e : \E pc \in {"saveAppt", "saveVisitor"} :
                              Become(w, [task[w] EXCEPT !.pc = pc, !.ae = e])
<1> DEFINE t == task[w]
           Moves == \E u : Become(w, u) /\ Kept(t, u)
           Fetches == FetchAppt(w) /\ \E e : \E pc \in {"saveAppt", "saveVisitor"} :
                                        Become(w, [t EXCEPT !.pc = pc, !.ae = e])
           On == Pcs \ {"idle", "fetchAppt"}
<1>0. t \in Task
  BY DEF TypeOK, DataOK, TaskOK
<1>1. Kept(t, Idle)
  BY DEF Kept, Idle
<1>2. ASSUME NEW pc \in On
      PROVE  /\ Kept(t, [t EXCEPT !.pc = pc])
             /\ Kept(t, [t EXCEPT !.pc = pc, !.c = NoCard, !.ce = NoCardEntity])
             /\ Kept(t, [t EXCEPT !.pc = pc, !.ve = NoVisitorEntity])
             /\ Kept(t, [t EXCEPT !.pc = pc, !.a = NoAppt, !.ae = UnusedAppt])
             /\ \A c : /\ Kept(t, [t EXCEPT !.pc = pc, !.c = c])
                       /\ Kept(t, [t EXCEPT !.pc = pc, !.ce = c])
                       /\ Kept(t, [t EXCEPT !.pc = pc, !.c = c, !.ve = NoVisitorEntity])
                       /\ \A e : Kept(t, [t EXCEPT !.pc = pc, !.c = c, !.ce = e])
  BY <1>0 DEF Task, Kept
<1>m. ASSUME NEW u, Become(w, u), Kept(t, u) PROVE Moves
  BY <1>m
<1> HIDE DEF t, Moves
<1>3. ASSUME NEW pc \in On \cup {"idle"}, Goto(w, pc) \/ Return(w, pc) PROVE Moves
  BY <1>1, <1>2, <1>3, <1>m DEF Goto, Return, t
<1>d. {"saveAppt", "findCards", "saveVisitor", "unCard", "asgCard", "asgVisitor", "unVisitor",
       "recSaveCard", "asgSaveVisitor", "asgSaveCard", "unSaveVisitor", "unSaveCard",
       "lookup", "insertLocation"} \subseteq On
  BY DEF Pcs, AssignPcs, UnassignPcs
<1> HIDE DEF On
<1>4. Throw(w) => Moves
  BY <1>3, <1>d DEF Throw, Caught
<1>5. ASSUME SaveAppt(w)
     PROVE  Moves
  <2>1. \/ Throw(w) \/ Become(w, Idle)
        \/ \E pc \in {"findCards", "saveVisitor"} :
             Become(w, [t EXCEPT !.pc = pc, !.a = NoAppt, !.ae = UnusedAppt])
    BY <1>5 DEF SaveAppt, t
  <2> QED BY <1>1, <1>2, <1>4, <1>d, <1>m, <2>1
<1>6. ASSUME SaveVisitorEntity(w)
     PROVE  Moves
  <2>1. \/ Throw(w) \/ Become(w, Idle)
        \/ \E c : Become(w, [t EXCEPT !.pc = "unCard", !.c = c, !.ve = NoVisitorEntity])
        \/ Become(w, [t EXCEPT !.pc = "saveAppt", !.ve = NoVisitorEntity])
    BY <1>6 DEF SaveVisitorEntity, t
  <2> QED BY <1>1, <1>2, <1>4, <1>d, <1>m, <2>1
<1>7. ASSUME FetchAppt(w) PROVE Moves \/ Fetches
  <2>1. \/ Throw(w)
        \/ \E e : \E pc \in {"saveAppt", "saveVisitor"} : Become(w, [t EXCEPT !.pc = pc, !.ae = e])
    BY <1>7 DEF FetchAppt, t
  <2>2. Moves \/ Fetches
    BY <1>4, <1>7, <2>1
  <2> QED BY <2>2
<1>8. ASSUME FindCards(w) \/ AssignReadCard(w)
     PROVE  Moves
  <2>1. \/ Throw(w)
        \/ \E c : Become(w, [t EXCEPT !.pc = "asgCard", !.c = c])
        \/ \E e : Become(w, [t EXCEPT !.pc = "asgVisitor", !.ce = e])
    BY <1>8 DEF FindCards, AssignReadCard, t
  <2> QED BY <1>2, <1>4, <1>d, <1>m, <2>1 DEF t
<1>9. ASSUME UnassignReadCard(w)
     PROVE  Moves
  <2>1. Throw(w) \/ Become(w, [t EXCEPT !.pc = "unVisitor", !.ce = card[t.c]])
    BY <1>9 DEF UnassignReadCard, t
  <2> QED BY <1>2, <1>4, <1>d, <1>m, <2>1 DEF t
<1>10. ASSUME CheckOutReadVisitor(w)
      PROVE  Moves
  BY <1>2, <1>3, <1>10, <1>d, <1>m DEF CheckOutReadVisitor, t
<1>11. ASSUME RecordLookup(w)
      PROVE  Moves
  <2>1. \/ Throw(w)
        \/ \E c : Become(w, [t EXCEPT !.pc = "recSaveCard", !.c = c, !.ce = card[c]])
    BY <1>11 DEF RecordLookup, t
  <2> QED BY <1>2, <1>4, <1>d, <1>m, <2>1 DEF t
<1>12. ASSUME \/ AssignReadVisitor(w) \/ AssignSaveVisitor(w) \/ UnassignReadVisitor(w)
            \/ UnassignSaveVisitor(w) \/ SaveCardEntity(w) \/ CheckInReadVisitor(w)
            \/ RecordSaveCard(w) \/ RecordInsert(w)
      PROVE  Moves
  BY <1>3, <1>4, <1>12, <1>d DEF AssignReadVisitor, AssignSaveVisitor, UnassignReadVisitor,
     UnassignSaveVisitor, SaveCardEntity, CheckInReadVisitor, RecordSaveCard, RecordInsert
<1>13. ASSUME AssignSaveCard(w) \/ UnassignSaveCard(w)
      PROVE  Moves
  <2>1. \A u : AfterAssign(u) \in On \cup {"idle"} /\ AfterUnassign(u) \in On \cup {"idle"}
    BY <1>d DEF AfterAssign, AfterUnassign
  <2> QED BY <1>3, <1>4, <1>13, <2>1 DEF AssignSaveCard, UnassignSaveCard
<1>14. ASSUME Fault(w)
      PROVE  Moves
  BY <1>1, <1>4, <1>14, <1>m DEF Fault
<1> HIDE DEF Fetches
<1>15. Moves \/ Fetches
  BY <1>5, <1>6, <1>7, <1>8, <1>9, <1>10, <1>11, <1>12, <1>13, <1>14 DEF Step
<1> QED BY <1>15 DEF Moves, Fetches, t

\* No update asks for a status that an appointment gets with a time.
NoStatusAsked == workload.states \cap {"en_progreso", "completado"} = {}

Timed(e) == /\ e.status = "en_progreso" => e.in
            /\ e.status = "completado" => e.in /\ e.out

TimedTask(t) == Timed(t.ae) /\ t.st \in workload.states \cup {"keep"}

\* The inductive form of TimesMatchStatus: the appointments the call chains hold,
\* which they will save over the rows, have their times too.
TimesInv == NoStatusAsked => /\ \A a \in Appts : Timed(appt[a])
                             /\ \A w \in Workers : TimedTask(task[w])

\* A request takes an appointment with the times its new status requires.
LEMMA AcceptTimed ==
  ASSUME TypeOK, TimesInv, NoStatusAsked, NEW w \in Workers, Accept(w)
  PROVE  UNCHANGED <<workload, task>> \/ \E t : Become(w, t) /\ TimedTask(t)
<1> DEFINE Goal == UNCHANGED <<workload, task>> \/ \E t : Become(w, t) /\ TimedTask(t)
<1>0. /\ Idle \in Task
      /\ \A a \in Appts : appt[a] \in ApptRow /\ Timed(appt[a])
      /\ \A a \in Appts : appt[a].in \in BOOLEAN /\ appt[a].out \in BOOLEAN
  BY IdleType DEF TaskOK, TypeOK, DataOK, StoreTypeOK, ApptRow, TimesInv
<1>a. TimedTask(Idle)
  BY DEF TimedTask, Timed, Idle, UnusedAppt
<1>b. ASSUME NEW op, NEW pc, NEW a, NEW e, Timed(e), TakeAppt(w, op, pc, a, e)
      PROVE  Goal
  <2>1. TimedTask([Idle EXCEPT !.op = op, !.pc = pc, !.v = appt[a].visitor, !.a = a, !.ae = e])
    BY <1>b DEF TimedTask, Idle
  <2> QED BY <1>b, <2>1 DEF TakeAppt
<1>1. ASSUME NEW v \in Visitors, NEW a \in Appts, NEW ends \in BOOLEAN,
             Register(w, v, a, ends)
      PROVE  Goal
  <2>1. TimedTask([Idle EXCEPT !.op = "Register", !.pc = "saveAppt", !.v = v, !.a = a,
          !.ae = [row |-> "unused", visitor |-> v, status |-> "pendiente",
                  in |-> TRUE, out |-> ends]])
    BY DEF TimedTask, Timed, Idle
  <2> QED BY <1>1, <2>1 DEF Register
<1>2. ASSUME NEW v \in Visitors, NEW a \in Appts, NEW st \in workload.states,
             UpdateVisitor(w, v, a, st)
      PROVE  Goal
  <2>1. \A e : TimedTask([Idle EXCEPT !.op = "UpdateVisitor", !.pc = "fetchAppt", !.v = v,
                                      !.a = a, !.st = st, !.ve = e])
    BY DEF TimedTask, Timed, Idle, UnusedAppt
  <2> QED BY <1>2, <2>1 DEF UpdateVisitor
<1>3. ASSUME NEW a \in Appts, NEW st \in workload.states, NEW in \in BOOLEAN,
             NEW out \in BOOLEAN, UpdateAppt(w, a, st, in, out)
      PROVE  Goal
  <2> DEFINE s == IF st = "keep" THEN appt[a].status ELSE st
             e == [appt[a] EXCEPT !.status = s, !.in = appt[a].in \/ in,
                                  !.out = appt[a].out \/ out]
  <2>1. e.status = s /\ e.in = (appt[a].in \/ in) /\ e.out = (appt[a].out \/ out)
    BY <1>0 DEF ApptRow
  <2>2. st \notin {"en_progreso", "completado"}
    BY DEF NoStatusAsked
  <2>3. TakeAppt(w, "UpdateAppt", "saveAppt", a, e)
    BY <1>3 DEF UpdateAppt
  <2> HIDE DEF e
  <2>4. Timed(e)
    BY <1>0, <2>1, <2>2 DEF Timed
  <2> QED BY <1>b, <2>3, <2>4
<1>4. ASSUME NEW a \in Appts, CheckIn(w, a) PROVE Goal
  <2>1. Timed([appt[a] EXCEPT !.status = "en_progreso", !.in = TRUE])
    BY <1>0 DEF Timed, ApptRow
  <2> QED BY <1>4, <1>b, <2>1 DEF CheckIn
<1>5. ASSUME NEW a \in Appts, CheckOut(w, a) PROVE Goal
  <2>1. Timed([appt[a] EXCEPT !.status = "completado", !.out = TRUE])
    BY <1>0, <1>5 DEF CheckOut, Timed, ApptRow
  <2> QED BY <1>5, <1>b, <2>1 DEF CheckOut
<1>6. ASSUME NEW a \in Appts, Cancel(w, a) PROVE Goal
  <2>1. Timed([appt[a] EXCEPT !.status = "cancelado"])
    BY <1>0 DEF Timed, ApptRow
  <2> QED BY <1>6, <1>b, <2>1 DEF Cancel
<1>7. ASSUME NEW a \in Appts, Archive(w, a) PROVE Goal
  BY <1>0, <1>7, <1>b DEF Archive
<1>8. ASSUME NEW a \in Appts, AssignJob(w, a) PROVE Goal
  <2>1. Timed([appt[a] EXCEPT !.status = "en_progreso"])
    BY <1>0, <1>8 DEF AssignJob, Timed, ApptRow
  <2> QED BY <1>8, <1>b, <2>1 DEF AssignJob
<1>9. ASSUME NEW a \in Appts, ReleaseJob(w, a) PROVE Goal
  <2> DEFINE e == [appt[a] EXCEPT !.status = "completado"]
  <2>1. Timed(e)
    BY <1>0, <1>9 DEF ReleaseJob, Timed, ApptRow
  <2>2. PICK v, c, ve : Become(w, [Idle EXCEPT !.op = "ReleaseJob", !.pc = "unCard", !.v = v,
                                               !.c = c, !.a = a, !.ve = ve, !.ae = e])
    BY <1>9, Zenon DEF ReleaseJob
  <2> HIDE DEF e
  <2>3. TimedTask([Idle EXCEPT !.op = "ReleaseJob", !.pc = "unCard", !.v = v,
                               !.c = c, !.a = a, !.ve = ve, !.ae = e])
    BY <2>1 DEF TimedTask, Idle
  <2> QED BY <2>2, <2>3
<1>c. ASSUME NEW t, Become(w, t), t.ae = UnusedAppt, t.st = "keep" PROVE Goal
  BY <1>a, <1>c DEF TimedTask, Idle
<1>10. ASSUME NEW v \in Visitors, NEW a \in Appts, CheckOutVisitor(w, v, a) PROVE Goal
  BY <1>10, <1>c DEF CheckOutVisitor, Idle
<1>11. ASSUME NEW v \in Visitors, SetImage(w, v) PROVE Goal
  BY <1>11, <1>c DEF SetImage, Idle
<1>12. ASSUME NEW c \in Cards, NEW v \in Visitors, Assign(w, c, v) PROVE Goal
  BY <1>12, <1>c DEF Assign, Idle
<1>13. ASSUME NEW c \in Cards, Unassign(w, c) \/ RecordLocation(w, c) PROVE Goal
  BY <1>13, <1>c DEF Unassign, RecordLocation, Idle
<1>14. ASSUME NEW c \in Cards, NEW active, UpdateCard(w, c, active) \/ ReportLocation(w, c)
       PROVE  Goal
  BY <1>14, <1>c DEF UpdateCard, ReportLocation, Idle
<1>15. ASSUME NEW v, NEW a, CreateAppt(w, v, a) \/ DeleteVisitor(w, v) \/ DeleteAppt(w, a)
       PROVE  Goal
  BY <1>15 DEF CreateAppt, DeleteVisitor, DeleteAppt
<1> HIDE DEF Goal
<1>16. Goal
  BY <1>1, <1>2, <1>3, <1>4, <1>5, <1>6, <1>7, <1>8, <1>9, <1>10, <1>11, <1>12, <1>13,
     <1>14, <1>15 DEF Accept
<1> QED BY <1>16 DEF Goal

\* An await that goes on holds an appointment with its times.
LEMMA StepTimed ==
  ASSUME TypeOK, TimesInv, NoStatusAsked, NEW w \in Workers, Step(w) \/ Fault(w)
  PROVE  \E t : Become(w, t) /\ TimedTask(t)
<1>0. TimedTask(task[w]) /\ TimedTask(Idle) /\ Timed(UnusedAppt)
  BY DEF TimesInv, TimedTask, Timed, Idle, UnusedAppt
<1>1. CASE \E t : Become(w, t) /\ Kept(task[w], t)
  BY <1>0, <1>1 DEF Kept, TimedTask, Idle
<1>2. CASE FetchAppt(w)
  <2> DEFINE row == appt[task[w].a]
  <2>1. row \in ApptRow /\ Timed(row) /\ task[w] \in Task
    BY <1>2 DEF FetchAppt, At, TypeOK, DataOK, TaskOK, KnowsIds, StoreTypeOK, TimesInv
  <2>a. ASSUME NEW pc, NEW e, Timed(e)
        PROVE  TimedTask([task[w] EXCEPT !.pc = pc, !.ae = e])
    BY <1>0, <2>1, <2>a DEF Task, TimedTask
  <2>2. CASE Throw(w)
    <3>1. \A pc : TimedTask([task[w] EXCEPT !.pc = pc, !.c = NoCard, !.ce = NoCardEntity])
      BY <1>0, <2>1 DEF Task, TimedTask
    <3> QED BY <1>0, <2>2, <3>1 DEF Throw, Return
  <2>3. CASE /\ row.in
             /\ Become(w, [task[w] EXCEPT !.pc = "saveAppt",
                  !.ae = [row EXCEPT !.status = "completado", !.out = TRUE]])
    <3>1. Timed([row EXCEPT !.status = "completado", !.out = TRUE])
      BY <2>1, <2>3 DEF Timed, ApptRow
    <3> QED BY <2>3, <3>1, <2>a
  <2>4. ASSUME NEW in \in BOOLEAN, NEW out \in BOOLEAN,
               Become(w, [task[w] EXCEPT !.pc = "saveVisitor",
                 !.ae = [row EXCEPT !.status = IF task[w].st = "keep" THEN @ ELSE task[w].st,
                                    !.in = @ \/ in, !.out = @ \/ out]])
        PROVE  \E u : Become(w, u) /\ TimedTask(u)
    <3> DEFINE s == IF task[w].st = "keep" THEN row.status ELSE task[w].st
               e == [row EXCEPT !.status = s, !.in = row.in \/ in, !.out = row.out \/ out]
    <3>1. e.status = s /\ e.in = (row.in \/ in) /\ e.out = (row.out \/ out)
      BY <2>1 DEF ApptRow
    <3>2. task[w].st \notin {"en_progreso", "completado"}
      BY <1>0 DEF NoStatusAsked, TimedTask
    <3>3. row.in \in BOOLEAN /\ row.out \in BOOLEAN
      BY <2>1 DEF ApptRow
    <3>4. Become(w, [task[w] EXCEPT !.pc = "saveVisitor", !.ae = e])
      BY <2>4
    <3> HIDE DEF e
    <3>5. Timed(e)
      <4> HIDE DEF row
      <4> QED BY <2>1, <3>1, <3>2, <3>3 DEF Timed
    <3> QED BY <3>4, <3>5, <2>a
  <2> QED BY <1>2, <2>2, <2>3, <2>4 DEF FetchAppt
<1> QED BY <1>1, <1>2, StepKeepsTask

\* The rows and the copies keep their times in every step.
LEMMA TimesStep == TypeOK /\ TimesInv /\ [Next]_vars => TimesInv'
<1> SUFFICES ASSUME TypeOK, TimesInv, [Next]_vars PROVE TimesInv'
  OBVIOUS
<1>1. CASE UNCHANGED vars
  BY <1>1 DEF vars, store, TimesInv, NoStatusAsked, TimedTask
<1>2. ASSUME NEW w \in Workers, Accept(w) \/ Step(w) \/ Fault(w), NoStatusAsked'
      PROVE  TimesInv'
  <2>0. workload' = workload /\ NoStatusAsked
    BY <1>2, WorkloadStays DEF Next, NoStatusAsked
  <2>1. ASSUME NEW a \in Appts PROVE Timed(appt'[a])
    <3>1. Timed(UnusedAppt)
      BY DEF Timed, UnusedAppt
    <3> QED BY <1>2, <2>0, <3>1, ApptWrites DEF TimesInv, TimedTask, SameTimes, Timed
  <2>2. ASSUME NEW u \in Workers PROVE TimedTask(task[u])'
    <3>1. UNCHANGED <<workload, task>> \/ \E t : Become(w, t) /\ TimedTask(t)
      BY <1>2, <2>0, AcceptTimed, StepTimed
    <3>2. TimedTask(task[u])
      BY <2>0 DEF TimesInv
    <3> QED BY <2>0, <3>1, <3>2 DEF Become, TypeOK, DataOK, TimedTask
  <2> QED BY <2>1, <2>2 DEF TimesInv
<1> QED BY <1>1, <1>2 DEF Next, TimesInv

\* Whichever ways of checking in and out overlap, nobody is in a meeting or done
\* with it without the times that go with the status.
THEOREM TimesStayMatched == Spec => []TimesMatchStatus
<1>1. Init => TimesInv
  <2> SUFFICES ASSUME Init PROVE TimesInv
    OBVIOUS
  <2>0. PICK lent \in [Known -> Cards \cup {NoCard}], booked \in [Known -> Appts],
             ends \in [Known -> BOOLEAN] : InitWith(lent, booked, ends)
    BY DEF Init
  <2>1. \A a \in Appts : appt[a].status = "pendiente"
    BY <2>0 DEF InitWith, UnusedAppt
  <2>2. \A w \in Workers : task[w] = Idle
    BY <2>0 DEF InitWith
  <2> QED BY <2>1, <2>2 DEF TimesInv, TimedTask, Timed, Idle, UnusedAppt
<1>2. TimesInv => TimesMatchStatus
  BY DEF TimesInv, TimesMatchStatus, NoStatusAsked, Timed
<1> QED BY <1>1, <1>2, TimesStep, TypeCorrect, PTL DEF Spec

(***************************************************************************)
(* The status of appointments, requests one after the other.               *)
(***************************************************************************)

\* One request at a time, and no update asks for a status.
SerialUpdates == workload.serial /\ workload.states \subseteq {"keep"}

\* A completed appointment stays completed, and none becomes pending.
Forward(from, to) == /\ from = "completado" => to = "completado"
                     /\ to = "pendiente" => from = "pendiente"

ForwardTask(t) ==
  /\ t.st = "keep"
  /\ t.pc = "idle" => t.a = NoAppt
  /\ t.pc # "fetchAppt" /\ t.a \in Appts =>
       (appt[t.a].row = "live" => Forward(appt[t.a].status, t.ae.status))

\* The inductive invariant behind StatusMovesForward: only one worker runs, and the
\* appointment it holds is ahead of the row it will be saved over.
ForwardInv ==
  SerialUpdates =>
    /\ \A u, w \in Workers : ~At(u, "idle") /\ ~At(w, "idle") => u = w
    /\ \A w \in Workers : ForwardTask(task[w])

\* A request takes an appointment forward.
LEMMA AcceptForward ==
  ASSUME TypeOK, SerialUpdates, NEW w \in Workers, Accept(w)
  PROVE  \/ UNCHANGED <<workload, task>>
         \/ \E u : Become(w, u) /\ ForwardTask(u) /\ appt' = appt
<1> DEFINE Goal == \/ UNCHANGED <<workload, task>>
                   \/ \E u : Become(w, u) /\ ForwardTask(u) /\ appt' = appt
<1>0. \A a \in Appts : appt[a] \in ApptRow
  BY DEF TypeOK, DataOK, StoreTypeOK
<1>a. ASSUME NEW u, Become(w, u), appt' = appt, u.st = "keep", u.pc # "idle",
             u.pc = "fetchAppt" \/ u.a = NoAppt
      PROVE  Goal
  BY <1>a, NoApptAssumption DEF ForwardTask
<1>b. ASSUME NEW op, NEW pc, pc # "idle", NEW a, NEW e, Forward(appt[a].status, e.status),
             TakeAppt(w, op, pc, a, e)
      PROVE  Goal
  <2>1. PICK u : /\ u = [Idle EXCEPT !.op = op, !.pc = pc, !.v = appt[a].visitor, !.a = a,
                                     !.ae = e]
                 /\ Become(w, u)
    BY <1>b DEF TakeAppt
  <2>2. u.st = "keep" /\ u.pc = pc /\ u.a = a /\ u.ae = e
    BY <2>1 DEF Idle
  <2> QED BY <1>b, <2>1, <2>2 DEF TakeAppt, ForwardTask, store
<1>1. ASSUME NEW v \in Visitors, NEW a \in Appts, NEW ends \in BOOLEAN,
             Register(w, v, a, ends)
      PROVE  Goal
  <2>1. PICK u : /\ u = [Idle EXCEPT !.op = "Register", !.pc = "saveAppt", !.v = v, !.a = a,
                           !.ae = [row |-> "unused", visitor |-> v, status |-> "pendiente",
                                   in |-> TRUE, out |-> ends]]
                 /\ Become(w, u)
    BY <1>1 DEF Register
  <2>2. u.st = "keep" /\ u.pc = "saveAppt" /\ u.a = a
    BY <2>1 DEF Idle
  <2> QED BY <1>1, <2>1, <2>2 DEF Register, Fresh, SaveVisitor, ForwardTask
<1>2. ASSUME NEW v \in Visitors, NEW a \in Appts, NEW st \in workload.states,
             UpdateVisitor(w, v, a, st)
      PROVE  Goal
  <2>1. PICK u, ve : /\ u = [Idle EXCEPT !.op = "UpdateVisitor", !.pc = "fetchAppt", !.v = v,
                                         !.a = a, !.st = st, !.ve = ve]
                     /\ Become(w, u) /\ appt' = appt
    BY <1>2, Zenon DEF UpdateVisitor, store
  <2> QED BY <1>a, <2>1 DEF Idle, SerialUpdates
<1>3. ASSUME NEW a \in Appts, NEW st \in workload.states, NEW in, NEW out,
             UpdateAppt(w, a, st, in, out)
      PROVE  Goal
  <2> DEFINE e == [appt[a] EXCEPT !.status = IF st = "keep" THEN @ ELSE st,
                                  !.in = @ \/ in, !.out = @ \/ out]
  <2>1. e.status = appt[a].status
    BY <1>0 DEF SerialUpdates, ApptRow
  <2>2. TakeAppt(w, "UpdateAppt", "saveAppt", a, e)
    BY <1>3 DEF UpdateAppt
  <2> HIDE DEF e
  <2> QED BY <1>b, <2>1, <2>2 DEF Forward
<1>4. ASSUME NEW a \in Appts, CheckIn(w, a) PROVE Goal
  <2>1. [appt[a] EXCEPT !.status = "en_progreso", !.in = TRUE].status = "en_progreso"
    BY <1>0 DEF ApptRow
  <2> QED BY <1>4, <1>b, <2>1 DEF CheckIn, Forward
<1>5. ASSUME NEW a \in Appts, CheckOut(w, a) PROVE Goal
  <2>1. [appt[a] EXCEPT !.status = "completado", !.out = TRUE].status = "completado"
    BY <1>0 DEF ApptRow
  <2> QED BY <1>5, <1>b, <2>1 DEF CheckOut, Forward
<1>6. ASSUME NEW a \in Appts, Cancel(w, a) PROVE Goal
  <2>1. [appt[a] EXCEPT !.status = "cancelado"].status = "cancelado"
    BY <1>0 DEF ApptRow
  <2> QED BY <1>6, <1>b, <2>1 DEF Cancel, Forward
<1>7. ASSUME NEW a \in Appts, Archive(w, a) PROVE Goal
  BY <1>7, <1>b DEF Archive, Forward
<1>8. ASSUME NEW a \in Appts, AssignJob(w, a) PROVE Goal
  <2>1. [appt[a] EXCEPT !.status = "en_progreso"].status = "en_progreso"
    BY <1>0 DEF ApptRow
  <2> QED BY <1>8, <1>b, <2>1 DEF AssignJob, Forward
<1>9. ASSUME NEW a \in Appts, ReleaseJob(w, a) PROVE Goal
  <2> DEFINE e == [appt[a] EXCEPT !.status = "completado"]
  <2>1. Forward(appt[a].status, e.status)
    BY <1>0 DEF Forward, ApptRow
  <2>2. PICK u, v, c, ve : /\ u = [Idle EXCEPT !.op = "ReleaseJob", !.pc = "unCard", !.v = v,
                                               !.c = c, !.a = a, !.ve = ve, !.ae = e]
                           /\ Become(w, u) /\ appt' = appt
    BY <1>9, Zenon DEF ReleaseJob, store
  <2> HIDE DEF e
  <2>3. u.st = "keep" /\ u.pc = "unCard" /\ u.a = a /\ u.ae = e
    BY <2>2 DEF Idle
  <2> QED BY <2>1, <2>2, <2>3 DEF ForwardTask
<1>10. ASSUME NEW v \in Visitors, NEW a \in Appts, CheckOutVisitor(w, v, a) PROVE Goal
  BY <1>10, <1>a DEF CheckOutVisitor, Idle, store
<1>11. ASSUME NEW v \in Visitors, SetImage(w, v) PROVE Goal
  BY <1>11, <1>a DEF SetImage, Idle, store
<1>12. ASSUME NEW c \in Cards, NEW v \in Visitors, Assign(w, c, v) PROVE Goal
  BY <1>12, <1>a DEF Assign, Idle, store
<1>13. ASSUME NEW c \in Cards, Unassign(w, c) \/ RecordLocation(w, c) PROVE Goal
  BY <1>13, <1>a DEF Unassign, RecordLocation, Idle, store
<1>14. ASSUME NEW c \in Cards, NEW active, UpdateCard(w, c, active) \/ ReportLocation(w, c)
       PROVE  Goal
  BY <1>14, <1>a DEF UpdateCard, ReportLocation, Idle, store
<1>15. ASSUME NEW v, NEW a, CreateAppt(w, v, a) \/ DeleteVisitor(w, v) \/ DeleteAppt(w, a)
       PROVE  Goal
  BY <1>15 DEF CreateAppt, DeleteVisitor, DeleteAppt
<1> HIDE DEF Goal
<1>16. Goal
  BY <1>1, <1>2, <1>3, <1>4, <1>5, <1>6, <1>7, <1>8, <1>9, <1>10, <1>11, <1>12, <1>13,
     <1>14, <1>15 DEF Accept
<1> QED BY <1>16 DEF Goal

\* An await moves an appointment forward, and drops it once it is saved.
LEMMA StepForward ==
  ASSUME TypeOK, ForwardInv, SerialUpdates, NEW w \in Workers, Step(w) \/ Fault(w)
  PROVE  \E u : Become(w, u) /\ ForwardTask(u)'
<1> DEFINE Goal == \E u : Become(w, u) /\ ForwardTask(u)'
<1>0. task[w] \in Task /\ ForwardTask(task[w])
  BY DEF TypeOK, DataOK, TaskOK, ForwardInv
<1>a. ASSUME NEW u, Become(w, u), u.a = NoAppt, u.st = "keep" PROVE Goal
  BY <1>a, NoApptAssumption DEF ForwardTask
<1> HIDE DEF Goal
<1>b. Idle.a = NoAppt /\ Idle.st = "keep"
  BY DEF Idle
<1>1. ASSUME SaveAppt(w) PROVE Goal
  <2>1. \/ Become(w, Idle)
        \/ \E pc : Become(w, [task[w] EXCEPT !.pc = pc, !.a = NoAppt, !.ae = UnusedAppt])
    BY <1>1 DEF SaveAppt, Throw, Return, Caught, At, AssignPcs, UnassignPcs
  <2>2. \A pc : LET u == [task[w] EXCEPT !.pc = pc, !.a = NoAppt, !.ae = UnusedAppt]
                IN  u.a = NoAppt /\ u.st = "keep"
    BY <1>0 DEF Task, ForwardTask
  <2> QED BY <1>a, <1>b, <2>1, <2>2
<1>2. ASSUME appt' = appt, NEW u, Become(w, u), Kept(task[w], u), ~FetchAppt(w),
             ~At(w, "fetchAppt")
      PROVE  Goal
  <2>1. CASE u = Idle
    BY <1>2, <1>a, <1>b, <2>1
  <2>2. CASE u # Idle
    BY <1>0, <1>2, <1>a, <2>2 DEF Kept, ForwardTask, At, Goal
  <2> QED BY <2>1, <2>2
<1>3. ASSUME FetchAppt(w) PROVE Goal
  <2> DEFINE row == appt[task[w].a]
  <2>0. task[w].a \in Appts /\ row \in ApptRow /\ appt' = appt /\ task[w].st = "keep"
    BY <1>0, <1>3 DEF FetchAppt, At, TypeOK, DataOK, TaskOK, KnowsIds, StoreTypeOK, store,
                      ForwardTask
  <2>a. ASSUME NEW pc \in {"saveAppt", "saveVisitor"}, NEW e, Forward(row.status, e.status),
               Become(w, [task[w] EXCEPT !.pc = pc, !.ae = e])
        PROVE  Goal
    <3>1. PICK u : u = [task[w] EXCEPT !.pc = pc, !.ae = e] /\ Become(w, u)
      BY <2>a
    <3>2. u.a = task[w].a /\ u.st = "keep" /\ u.pc = pc /\ u.ae = e
      BY <1>0, <2>0, <3>1 DEF Task
    <3> QED BY <2>0, <2>a, <3>1, <3>2 DEF ForwardTask, Goal
  <2>1. CASE Throw(w)
    BY <1>a, <1>b, <1>3, <2>1 DEF Throw, Return, Caught, FetchAppt, At, AssignPcs, UnassignPcs
  <2>2. CASE Become(w, [task[w] EXCEPT !.pc = "saveAppt",
                          !.ae = [row EXCEPT !.status = "completado", !.out = TRUE]])
    <3>1. [row EXCEPT !.status = "completado", !.out = TRUE].status = "completado"
      BY <2>0 DEF ApptRow
    <3> QED BY <2>a, <2>2, <3>1 DEF Forward
  <2>3. ASSUME NEW in, NEW out,
               Become(w, [task[w] EXCEPT !.pc = "saveVisitor",
                 !.ae = [row EXCEPT !.status = IF task[w].st = "keep" THEN @ ELSE task[w].st,
                                    !.in = @ \/ in, !.out = @ \/ out]])
        PROVE  Goal
    <3> DEFINE e == [row EXCEPT !.status = IF task[w].st = "keep" THEN @ ELSE task[w].st,
                                !.in = @ \/ in, !.out = @ \/ out]
    <3>1. e.status = row.status
      BY <2>0 DEF ApptRow
    <3>2. Become(w, [task[w] EXCEPT !.pc = "saveVisitor", !.ae = e])
      BY <2>3
    <3> HIDE DEF e, row
    <3> QED BY <2>a, <3>1, <3>2 DEF Forward
  <2> QED BY <1>3, <2>1, <2>2, <2>3 DEF FetchAppt
<1>4. ASSUME Fault(w) PROVE Goal
  <2>1. CASE Become(w, Idle)
    BY <1>a, <1>b, <2>1
  <2>2. CASE Throw(w)
    <3>1. CASE Caught(task[w]) = "idle"
      BY <1>a, <1>b, <2>2, <3>1 DEF Throw, Return
    <3>2. CASE Caught(task[w]) # "idle"
      <4>1. PICK u : /\ u = [task[w] EXCEPT !.pc = "saveAppt", !.c = NoCard,
                                             !.ce = NoCardEntity]
                     /\ Become(w, u)
        BY <2>2, <3>2 DEF Throw, Return, Caught
      <4>2. u.a = task[w].a /\ u.ae = task[w].ae /\ u.st = task[w].st /\ u.pc = "saveAppt"
        BY <1>0, <4>1 DEF Task
      <4>3. ~At(w, "fetchAppt")
        BY <3>2 DEF Caught, At, AssignPcs, UnassignPcs
      <4> QED BY <1>0, <1>4, <4>1, <4>2, <4>3 DEF Fault, store, ForwardTask, At, Goal
    <3> QED BY <3>1, <3>2
  <2> QED BY <1>4, <2>1, <2>2 DEF Fault
<1>5. Step(w) => FetchAppt(w) \/ ~At(w, "fetchAppt")
  BY DEF Step, At, FindCards, AssignReadCard, AssignReadVisitor, AssignSaveVisitor,
         AssignSaveCard, UnassignReadCard, UnassignReadVisitor, UnassignSaveVisitor,
         UnassignSaveCard, SaveAppt, SaveVisitorEntity, SaveCardEntity,
         CheckInReadVisitor, CheckOutReadVisitor, RecordLookup, RecordSaveCard, RecordInsert
<1>6. Goal
  BY <1>1, <1>2, <1>3, <1>4, <1>5, StepKeepsTask, StepAppts
<1> QED BY <1>6 DEF Goal

\* A worker that takes a step has begun a request.
LEMMA StepRuns ==
  ASSUME NEW w \in Workers, Step(w) \/ Fault(w)
  PROVE  ~At(w, "idle")
BY DEF Step, Fault, At, FindCards, AssignReadCard, AssignReadVisitor, AssignSaveVisitor,
       AssignSaveCard, UnassignReadCard, UnassignReadVisitor, UnassignSaveVisitor,
       UnassignSaveCard, SaveAppt, SaveVisitorEntity, SaveCardEntity, FetchAppt,
       CheckInReadVisitor, CheckOutReadVisitor, RecordLookup, RecordSaveCard, RecordInsert

\* A worker that accepts a request is idle, and so are all others when requests
\* come one at a time.
LEMMA AcceptRuns ==
  ASSUME NEW w \in Workers, Accept(w)
  PROVE  At(w, "idle") /\ (workload.serial => \A u \in Workers : At(u, "idle"))
BY Zenon DEF Accept, Accepts, Register, CheckOutVisitor, UpdateVisitor, SetImage, DeleteVisitor,
   CreateAppt, TakeAppt, UpdateAppt, CheckIn, CheckOut, Cancel, Archive, DeleteAppt, Assign,
   Unassign, UpdateCard, RecordLocation, ReportLocation, AssignJob, ReleaseJob

\* The invariant is inductive, and it is what a step needs to move every
\* appointment forward.
LEMMA ForwardStep ==
  ASSUME TypeOK, ForwardInv, SerialUpdates, NEW w \in Workers,
         Accept(w) \/ Step(w) \/ Fault(w)
  PROVE  /\ ForwardInv'
         /\ \A a \in Appts : appt[a].row = "live" /\ appt'[a].row = "live" =>
              Forward(appt[a].status, appt'[a].status)
<1>0. /\ workload' = workload /\ task \in [Workers -> TaskOK]
      /\ \A u \in Workers : ForwardTask(task[u])
      /\ \A u, x \in Workers : ~At(u, "idle") /\ ~At(x, "idle") => u = x
  BY WorkloadStays DEF Next, TypeOK, DataOK, ForwardInv
<1>1. \A u \in Workers \ {w} : At(u, "idle")
  BY <1>0, AcceptRuns, StepRuns DEF SerialUpdates
<1>2. \/ UNCHANGED task /\ At(w, "idle")
      \/ \E u : Become(w, u) /\ ForwardTask(u)'
  <2>1. CASE Accept(w)
    BY <2>1, AcceptForward, AcceptRuns DEF ForwardTask
  <2> QED BY <2>1, StepForward
<1>3. \A u \in Workers \ {w} : task'[u] = task[u]
  BY <1>0, <1>2 DEF Become
<1>4. ASSUME NEW u \in Workers, task'[u] = task[u], At(u, "idle") PROVE ForwardTask(task[u])'
  BY <1>0, <1>4, NoApptAssumption DEF ForwardTask, At
<1>5. ASSUME NEW u \in Workers PROVE ForwardTask(task[u])'
  <2>1. CASE u # w
    BY <1>1, <1>3, <1>4, <2>1
  <2>2. CASE u = w /\ UNCHANGED task /\ At(w, "idle")
    BY <1>4, <2>2
  <2>3. CASE u = w /\ \E x : Become(w, x) /\ ForwardTask(x)'
    <3>1. PICK x : Become(w, x) /\ ForwardTask(x)'
      BY <2>3
    <3>2. task'[u] = x
      BY <1>0, <2>3, <3>1 DEF Become
    <3> QED BY <3>1, <3>2 DEF ForwardTask
  <2> QED BY <1>2, <2>1, <2>2, <2>3
<1>6. \A u, x \in Workers : ~At(u, "idle")' /\ ~At(x, "idle")' => u = x
  BY <1>1, <1>3 DEF At
<1>7. ASSUME NEW a \in Appts, appt[a].row = "live" PROVE Forward(appt[a].status, appt'[a].status)
  <2>1. CASE SaveAppt(w) /\ a = task[w].a /\ SameTimes(appt'[a], task[w].ae)
    BY <1>0, <1>7, <2>1 DEF SaveAppt, At, ForwardTask, SameTimes
  <2>2. CASE SameTimes(appt'[a], appt[a])
    BY <2>2 DEF SameTimes, Forward
  <2> QED BY <1>7, <2>1, <2>2, ApptWrites
<1> QED BY <1>5, <1>6, <1>7 DEF ForwardInv

\* Requests one after the other, every step of which may fail: a completed
\* appointment is final and none becomes pending again, unless an update asks.
THEOREM StatusNeverGoesBack == Spec => StatusMovesForward
<1>1. Init => ForwardInv
  <2>1. Init => \A w \in Workers : task[w] = Idle
    BY DEF Init, InitWith
  <2> QED BY <2>1, NoApptAssumption DEF ForwardInv, ForwardTask, At, Idle
<1>2. TypeOK /\ ForwardInv /\ [Next]_vars => ForwardInv'
  <2> SUFFICES ASSUME TypeOK, ForwardInv, [Next]_vars PROVE ForwardInv'
    OBVIOUS
  <2>1. CASE UNCHANGED vars
    BY <2>1 DEF vars, store, ForwardInv, SerialUpdates, ForwardTask, At
  <2>2. CASE Next
    <3>1. workload' = workload
      BY <2>2, WorkloadStays
    <3>2. CASE SerialUpdates
      BY <2>2, <3>2, ForwardStep DEF Next
    <3>3. CASE ~SerialUpdates
      BY <3>1, <3>3 DEF ForwardInv, SerialUpdates
    <3> QED BY <3>2, <3>3
  <2> QED BY <2>1, <2>2
<1>3. TypeOK /\ ForwardInv /\ [Next]_vars =>
        [workload.serial /\ workload.states \subseteq {"keep"} =>
           \A a \in Appts : appt[a].row = "live" /\ appt'[a].row = "live" =>
             /\ appt[a].status = "completado" => appt'[a].status = "completado"
             /\ appt'[a].status = "pendiente" => appt[a].status = "pendiente"]_vars
  BY ForwardStep DEF Next, SerialUpdates, Forward
<1> QED BY <1>1, <1>2, <1>3, TypeCorrect, PTL DEF Spec, StatusMovesForward

(***************************************************************************)
(* Lending while assignments overlap.                                      *)
(***************************************************************************)

\* The awaits of the operations that only assign cards.
LendPcs == {"idle", "saveAppt", "ciVisitor"} \cup AssignPcs

\* A chain about to lend its card has marked the visit as in progress.
LendTask(t) ==
  /\ t.op \in AssignOps \cup {"none"} /\ t.pc \in LendPcs
  /\ t.pc = "asgSaveCard" /\ t.v \in Visitors =>
       Live(t.v) /\ visitor[t.v].state = "en_progreso"

\* The inductive form of LentIsVisiting.
LentInv ==
  workload.ops \subseteq AssignOps =>
    /\ \A v \in Visitors : CardsOf(v) # {} => visitor[v].state = "en_progreso"
    /\ \A w \in Workers : LendTask(task[w])

\* What each operation of such a workload, and each of its awaits, does.
LEMMA LendActions ==
  ASSUME TypeOK, LentInv, workload.ops \subseteq AssignOps, NEW w \in Workers,
         Accept(w) \/ Step(w) \/ Fault(w)
  PROVE  \/ \E v \in Visitors, a \in Appts, ends \in BOOLEAN : Register(w, v, a, ends)
         \/ UNCHANGED store /\ \E t : /\ Become(w, t)
                                      /\ t.op \in AssignOps \cup {"none"}
                                      /\ t.pc \in LendPcs \ {"asgSaveCard"}
         \/ AssignSaveVisitor(w)
         \/ AssignSaveCard(w)
         \/ SaveAppt(w)
<1> DEFINE Goes == UNCHANGED store /\ \E t : /\ Become(w, t)
                                             /\ t.op \in AssignOps \cup {"none"}
                                             /\ t.pc \in LendPcs \ {"asgSaveCard"}
           Plain(t) == /\ t.op \in AssignOps \cup {"none"}
                       /\ t.pc \in LendPcs \ {"asgSaveCard"}
<1>0. /\ task[w] \in Task /\ task[w].op \in AssignOps \cup {"none"}
      /\ task[w].pc \in LendPcs
  BY DEF TypeOK, DataOK, TaskOK, LentInv, LendTask
<1>a. ASSUME NEW op, Accepts(w, op) PROVE op \in AssignOps
  BY <1>a DEF Accepts
<1>b. Plain(Idle)
  BY DEF Idle, LendPcs
<1>c. ASSUME NEW pc \in LendPcs \ {"asgSaveCard"}, Goto(w, pc) \/ Return(w, pc), UNCHANGED store
      PROVE  Goes
  <2>1. /\ Plain([task[w] EXCEPT !.pc = pc])
        /\ Plain([task[w] EXCEPT !.pc = pc, !.c = NoCard, !.ce = NoCardEntity])
    BY <1>0 DEF Task
  <2> QED BY <1>b, <1>c, <2>1 DEF Goto, Return
<1>d. Throw(w) /\ UNCHANGED store => Goes
  BY <1>c DEF Throw, Caught, LendPcs
<1>1. CASE Accept(w)
  <2>1. ASSUME NEW a \in Appts, CheckIn(w, a) \/ AssignJob(w, a) PROVE Goes
    <3>1. \A op \in AssignOps : \A v, e :
            /\ Plain([Idle EXCEPT !.op = op, !.pc = "ciVisitor", !.v = v, !.a = a, !.ae = e])
            /\ Plain([Idle EXCEPT !.op = op, !.pc = "findCards", !.v = v, !.a = a, !.ae = e])
      BY DEF Idle, LendPcs, AssignPcs
    <3> QED BY <2>1, <3>1 DEF CheckIn, AssignJob, TakeAppt, AssignOps
  <2>2. ASSUME NEW c \in Cards, NEW v \in Visitors, Assign(w, c, v) PROVE Goes
    <3>1. Plain([Idle EXCEPT !.op = "Assign", !.pc = "asgCard", !.c = c, !.v = v])
      BY DEF Idle, LendPcs, AssignPcs, AssignOps
    <3> QED BY <2>2, <3>1 DEF Assign
  <2>3. \/ \E v \in Visitors, a \in Appts, ends \in BOOLEAN : Register(w, v, a, ends)
        \/ \E a \in Appts : CheckIn(w, a) \/ AssignJob(w, a)
        \/ \E c \in Cards, v \in Visitors : Assign(w, c, v)
    <3>0. \A op \in {"CheckOutVisitor", "UpdateVisitor", "SetImage", "DeleteVisitor",
                     "CreateAppt", "UpdateAppt", "CheckOut", "Cancel", "Archive", "DeleteAppt",
                     "Unassign", "UpdateCard", "RecordLocation", "ReportLocation",
                     "ReleaseJob"} : ~Accepts(w, op)
      BY <1>a DEF AssignOps
    <3>1. /\ \A v, a : ~CheckOutVisitor(w, v, a) /\ ~CreateAppt(w, v, a)
          /\ \A v, a, st : ~UpdateVisitor(w, v, a, st)
          /\ \A v : ~SetImage(w, v) /\ ~DeleteVisitor(w, v)
      BY <3>0 DEF CheckOutVisitor, CreateAppt, UpdateVisitor, SetImage, DeleteVisitor
    <3>2. /\ \A a, st, in, out : ~UpdateAppt(w, a, st, in, out)
          /\ \A a : /\ ~CheckOut(w, a) /\ ~Cancel(w, a) /\ ~Archive(w, a)
                    /\ ~DeleteAppt(w, a) /\ ~ReleaseJob(w, a)
      BY <3>0 DEF UpdateAppt, CheckOut, Cancel, Archive, DeleteAppt, ReleaseJob, TakeAppt
    <3>3. \A c : /\ ~Unassign(w, c) /\ ~RecordLocation(w, c) /\ ~ReportLocation(w, c)
                 /\ \A active : ~UpdateCard(w, c, active)
      BY <3>0 DEF Unassign, RecordLocation, ReportLocation, UpdateCard
    <3> QED BY <1>1, <3>1, <3>2, <3>3, Zenon DEF Accept
  <2> QED BY <2>1, <2>2, <2>3
<1>2. CASE Step(w)
  <2>1. \/ FindCards(w) \/ AssignReadCard(w) \/ AssignReadVisitor(w) \/ CheckInReadVisitor(w)
        \/ AssignSaveVisitor(w) \/ AssignSaveCard(w) \/ SaveAppt(w)
    BY <1>0, <1>2 DEF Step, At, LendPcs, AssignPcs, UnassignReadCard, UnassignReadVisitor,
       UnassignSaveVisitor, UnassignSaveCard, SaveVisitorEntity, SaveCardEntity, FetchAppt,
       CheckOutReadVisitor, RecordLookup, RecordSaveCard, RecordInsert
  <2>2. CASE FindCards(w) \/ AssignReadCard(w)
    <3>1. \A c : /\ Plain([task[w] EXCEPT !.pc = "asgCard", !.c = c])
                 /\ Plain([task[w] EXCEPT !.pc = "asgVisitor", !.ce = c])
      BY <1>0 DEF Task, LendPcs, AssignPcs
    <3> QED BY <1>d, <2>2, <3>1 DEF FindCards, AssignReadCard
  <2>3. CASE AssignReadVisitor(w) \/ CheckInReadVisitor(w)
    <3>1. {"asgSaveVisitor", "findCards", "saveAppt"} \subseteq LendPcs \ {"asgSaveCard"}
      BY DEF LendPcs, AssignPcs
    <3> QED BY <1>c, <1>d, <2>3, <3>1 DEF AssignReadVisitor, CheckInReadVisitor
  <2> QED BY <2>1, <2>2, <2>3
<1>3. CASE Fault(w)
  BY <1>b, <1>d, <1>3 DEF Fault
<1> QED BY <1>1, <1>2, <1>3

\* A card is lent only by a chain whose visitor is in, and a visitor's state is
\* overwritten only while registering, before any card can be lent.
LEMMA LentStep == TypeOK /\ ReferencesIntact /\ LentInv /\ [Next]_vars => LentInv'
<1> SUFFICES ASSUME TypeOK, ReferencesIntact, LentInv, [Next]_vars PROVE LentInv'
  OBVIOUS
<1>1. CASE UNCHANGED vars
  BY <1>1 DEF vars, store, LentInv, LendTask, CardsOf, Live
<1>2. ASSUME NEW w \in Workers, Accept(w) \/ Step(w) \/ Fault(w),
             (workload.ops \subseteq AssignOps)'
      PROVE  /\ \A v \in Visitors : CardsOf(v)' # {} => visitor'[v].state = "en_progreso"
             /\ \A u \in Workers : LendTask(task[u])'
  <2> DEFINE t == task[w]
  <2>0. /\ workload.ops \subseteq AssignOps
        /\ \A v \in Visitors : CardsOf(v) # {} => visitor[v].state = "en_progreso"
        /\ \A u \in Workers : LendTask(task[u])
        /\ visitor \in [Visitors -> VisitorRow] /\ card \in [Cards -> CardRow]
        /\ task \in [Workers -> TaskOK]
        /\ t \in Task
        /\ t.v \in Visitors \cup {NoVisitor} /\ t.c \in Cards \cup {NoCard} /\ t.ce \in CardRow
    BY <1>2, WorkloadStays DEF Next, LentInv, TypeOK, DataOK, StoreTypeOK, TaskOK, Task
  <2> HIDE DEF t
  \* A step that keeps the visitors in progress, lends no card and leaves w
  \* before its last save.
  <2>a. ASSUME \A v \in Visitors : Live(v) => Live(v)' /\ (visitor[v].state = "en_progreso"
                                                 => visitor'[v].state = "en_progreso"),
               \A v \in Visitors : CardsOf(v)' # {} => CardsOf(v) # {},
               NEW u, Become(w, u), u.op \in AssignOps \cup {"none"}, u.pc \in LendPcs,
               u.pc = "asgSaveCard" /\ u.v \in Visitors =>
                 Live(u.v)' /\ visitor'[u.v].state = "en_progreso"
        PROVE  /\ \A v \in Visitors : CardsOf(v)' # {} => visitor'[v].state = "en_progreso"
               /\ \A x \in Workers : LendTask(task[x])'
    <3>1. \A x \in Workers : task'[x] = IF x = w THEN u ELSE task[x]
      BY <2>0, <2>a DEF Become
    <3>2. ASSUME NEW x \in Workers PROVE LendTask(task[x])'
      <4>1. CASE x = w
        BY <2>a, <3>1, <4>1 DEF LendTask, Live
      <4>2. CASE x # w
        BY <2>0, <2>a, <3>1, <4>2 DEF LendTask, Live
      <4> QED BY <4>1, <4>2
    <3>3. \A v \in Visitors : CardsOf(v) # {} => Live(v)
      BY NoVisitorAssumption DEF ReferencesIntact, CardsOf
    <3> QED BY <2>0, <2>a, <3>2, <3>3
  <2>1. ASSUME NEW v \in Visitors, NEW a \in Appts, NEW ends \in BOOLEAN,
               Register(w, v, a, ends)
        PROVE  /\ \A x \in Visitors : CardsOf(x)' # {} => visitor'[x].state = "en_progreso"
               /\ \A u \in Workers : LendTask(task[u])'
    <3>1. CardsOf(v) = {} /\ ~Live(v)
      BY <2>1, NoVisitorAssumption DEF Register, ReferencesIntact, CardsOf, Live
    <3>2. /\ visitor' = [visitor EXCEPT ![v] = [row |-> "live", state |-> "pendiente"]]
          /\ \A c \in Cards : card'[c].holder = card[c].holder
      BY <2>0, <2>1 DEF Register, SaveVisitor, CardsAligned, CardRow
    <3>3. \A x \in Visitors : CardsOf(x)' = CardsOf(x)
      BY <3>2 DEF CardsOf
    <3>4. \E u : /\ Become(w, u) /\ u.op = "Register" /\ u.pc = "saveAppt"
      <4> DEFINE u == [Idle EXCEPT !.op = "Register", !.pc = "saveAppt", !.v = v, !.a = a,
                         !.ae = [row |-> "unused", visitor |-> v, status |-> "pendiente",
                                 in |-> TRUE, out |-> ends]]
      <4>1. Become(w, u)
        BY <2>1 DEF Register
      <4>2. u.op = "Register" /\ u.pc = "saveAppt"
        BY DEF Idle
      <4> HIDE DEF u
      <4> QED BY <4>1, <4>2
    <3>5. \A x \in Workers : LendTask(task[x])'
      <4> SUFFICES ASSUME NEW x \in Workers PROVE LendTask(task[x])'
        OBVIOUS
      <4>1. x # w => task'[x] = task[x]
        BY <2>0, <3>4 DEF Become
      <4>2. x = w => task'[x].op = "Register" /\ task'[x].pc = "saveAppt"
        BY <2>0, <3>4 DEF Become
      <4>3. \A y : Live(y) => Live(y)' /\ visitor'[y] = visitor[y]
        BY <2>0, <3>1, <3>2 DEF Live
      <4>4. LendTask(task[x])
        BY <2>0
      <4> QED BY <4>1, <4>2, <4>3, <4>4 DEF LendTask, LendPcs, AssignOps
    <3> QED BY <2>0, <3>1, <3>2, <3>3, <3>5
  <2>2. ASSUME UNCHANGED store, NEW u, Become(w, u), u.op \in AssignOps \cup {"none"},
               u.pc \in LendPcs \ {"asgSaveCard"}
        PROVE  /\ \A v \in Visitors : CardsOf(v)' # {} => visitor'[v].state = "en_progreso"
               /\ \A x \in Workers : LendTask(task[x])'
    BY <2>2, <2>a DEF store, CardsOf, Live
  <2>3. CASE AssignSaveVisitor(w)
    <3>1. /\ visitor' = [visitor EXCEPT ![t.v] = [row |-> "live", state |-> "en_progreso"]]
          /\ \A c \in Cards : card'[c].holder \in {card[c].holder, NoVisitor}
      BY <2>0, <2>3, NoCardAssumption
         DEF AssignSaveVisitor, SaveVisitor, CardsAligned, CardRow, t
    <3>2. PICK u : Become(w, u) /\ u = [t EXCEPT !.pc = "asgSaveCard"]
      BY <2>3 DEF AssignSaveVisitor, Goto, t
    <3>3. u.op \in AssignOps \cup {"none"} /\ u.pc \in LendPcs /\ u.v = t.v
      BY <2>0, <3>2 DEF Task, LendTask, LendPcs, AssignPcs, t
    <3>4. \A v \in Visitors : CardsOf(v)' # {} => CardsOf(v) # {}
      BY <3>1, NoVisitorAssumption DEF CardsOf
    <3>5. \A v \in Visitors : Live(v) => Live(v)' /\ (visitor[v].state = "en_progreso"
                                            => visitor'[v].state = "en_progreso")
      BY <2>0, <3>1 DEF Live, VisitorRow
    <3>6. u.v \in Visitors => Live(u.v)' /\ visitor'[u.v].state = "en_progreso"
      BY <2>0, <3>1, <3>3 DEF Live
    <3> QED BY <2>a, <3>2, <3>3, <3>4, <3>5, <3>6
  <2>4. ASSUME NEW pc \in {"idle", "saveAppt"}, Return(w, pc)
        PROVE  \E u : /\ Become(w, u) /\ u.op \in AssignOps \cup {"none"}
                      /\ u.pc \in LendPcs \ {"asgSaveCard"}
    <3>1. LET u == [t EXCEPT !.pc = pc, !.c = NoCard, !.ce = NoCardEntity]
          IN  u.op = t.op /\ u.pc = pc
      BY <2>0 DEF Task
    <3>2. Idle.op = "none" /\ Idle.pc = "idle"
      BY DEF Idle
    <3>3. t.op \in AssignOps \cup {"none"}
      BY <2>0 DEF LendTask, t
    <3> QED BY <2>4, <3>1, <3>2, <3>3 DEF Return, LendPcs, t
  <2>5. CASE AssignSaveCard(w)
    <3>1. CASE Throw(w) /\ UNCHANGED store
      BY <2>2, <2>4, <3>1 DEF Throw, Caught
    <3>2. ASSUME SaveCard(t.c, [t.ce EXCEPT !.holder = t.v, !.issued = TRUE]),
                 Return(w, AfterAssign(t))
          PROVE  /\ \A v \in Visitors : CardsOf(v)' # {} => visitor'[v].state = "en_progreso"
                 /\ \A x \in Workers : LendTask(task[x])'
      <4>1. /\ visitor' = visitor
            /\ \A c \in Cards : card'[c].holder \in {card[c].holder, t.v}
        BY <2>0, <3>2 DEF SaveCard, CardRow
      <4>2. t.v \in Visitors => visitor[t.v].state = "en_progreso"
        BY <2>0, <2>5 DEF LendTask, AssignSaveCard, At, t
      <4>3. PICK u : /\ Become(w, u) /\ u.op \in AssignOps \cup {"none"}
                     /\ u.pc \in LendPcs \ {"asgSaveCard"}
        BY <2>4, <3>2 DEF AfterAssign
      <4>4. \A v \in Visitors : CardsOf(v)' # {} => CardsOf(v) # {} \/ v = t.v
        BY <4>1 DEF CardsOf
      <4>5. \A x \in Workers : task'[x] = IF x = w THEN u ELSE task[x]
        BY <2>0, <4>3 DEF Become
      <4> QED BY <2>0, <4>1, <4>2, <4>3, <4>4, <4>5 DEF LendTask, Live
    <3> QED BY <2>5, <3>1, <3>2 DEF AssignSaveCard, t
  <2>6. CASE SaveAppt(w)
    <3>1. visitor' = visitor /\ card' = card
      BY <2>6 DEF SaveAppt, SaveApptRow, store
    <3>2. \E u : /\ Become(w, u) /\ u.op \in AssignOps \cup {"none"}
                 /\ u.pc \in LendPcs \ {"asgSaveCard"}
      <4>1. CASE Throw(w)
        BY <2>4, <4>1 DEF Throw, Caught
      <4>2. CASE Become(w, Idle) \/ Become(w, [t EXCEPT !.pc = "findCards", !.a = NoAppt,
                                                        !.ae = UnusedAppt])
        <5>1. LET u == [t EXCEPT !.pc = "findCards", !.a = NoAppt, !.ae = UnusedAppt]
              IN  u.op = t.op /\ u.pc = "findCards"
          BY <2>0 DEF Task
        <5>2. t.op \in AssignOps \cup {"none"}
          BY <2>0 DEF LendTask, t
        <5>3. /\ Idle.op = "none" /\ Idle.pc = "idle"
              /\ {"idle", "findCards"} \subseteq LendPcs \ {"asgSaveCard"}
          BY DEF Idle, LendPcs, AssignPcs
        <5> QED BY <4>2, <5>1, <5>2, <5>3
      <4>3. t.op \notin {"CheckOutVisitor", "ReleaseJob"}
        BY <2>0 DEF LendTask, AssignOps, t
      <4> QED BY <2>6, <4>1, <4>2, <4>3 DEF SaveAppt, t
    <3> QED BY <2>a, <3>1, <3>2 DEF CardsOf, Live
  <2> QED BY <1>2, <2>0, <2>1, <2>2, <2>3, <2>5, <2>6, LendActions
<1> QED BY <1>1, <1>2 DEF Next, LentInv

\* While assignments overlap, fail or are cut off by a restart, every lent card
\* belongs to a visitor whose visit is in progress.
THEOREM LentStaysVisiting == Spec => []LentIsVisiting
<1>1. Init => LentInv
  <2> SUFFICES ASSUME Init PROVE LentInv
    OBVIOUS
  <2>0. PICK lent \in [Known -> Cards \cup {NoCard}], booked \in [Known -> Appts],
             ends \in [Known -> BOOLEAN] : InitWith(lent, booked, ends)
    BY DEF Init
  <2>1. ASSUME NEW v \in Visitors, CardsOf(v) # {} PROVE visitor[v].state = "en_progreso"
    <3>1. PICK c \in Cards : card[c].holder = v
      BY <2>1 DEF CardsOf
    <3>2. v \in Known /\ lent[v] = c
      BY <2>0, <3>1, InitHolders, NoVisitorAssumption
    <3> QED BY <2>0, <3>2, NoCardAssumption DEF InitWith
  <2>2. \A w \in Workers : task[w] = Idle
    BY <2>0 DEF InitWith
  <2> QED BY <2>1, <2>2 DEF LentInv, LendTask, LendPcs, Idle
<1>2. LentInv => LentIsVisiting
  BY DEF LentInv, LentIsVisiting
<1> QED BY <1>1, <1>2, LentStep, InitReferences, ReferencesStep, TypeCorrect, PTL DEF Spec

-----------------------------------------------------------------------------
(* Requests one after the other.                                           *)


Balanced(v) == (Live(v) /\ visitor[v].state = "en_progreso") <=> CardsOf(v) # {}

\* Between its two saves an assignment has a visitor in progress without a card,
\* and a release a visitor who has left with one.
Between(t) ==
  IF t.pc = "asgSaveCard" THEN {t.v}
  ELSE IF t.pc = "unCard" /\ t.op = "CheckOutVisitor" THEN {t.v}
  ELSE IF t.pc \in {"unVisitor", "unSaveVisitor", "unSaveCard"} THEN {t.ce.holder}
  ELSE {}

\* The visitor entity of a use case, until it is saved.
HoldsEntity(t) == \/ t.pc \in {"fetchAppt", "saveVisitor"}
                  \/ t.pc = "saveAppt" /\ t.op = "CheckOutVisitor"

\* The copy of the card that a chain has read is still the row.
CardFresh(t) == t.c \in Cards /\ t.ce = card[t.c]

\* What holds where a call chain stands, nobody else having run since it began.
OrderTask(t) ==
  /\ t.op # "ReleaseJob"
  /\ HoldsEntity(t) =>
       /\ t.op \in {"CheckOutVisitor", "UpdateVisitor", "SetImage"}
       /\ Live(t.v) /\ t.ve.card = CardSeen(t.v)
       /\ t.ve.state = IF t.op = "CheckOutVisitor" THEN "completado" ELSE visitor[t.v].state
  /\ t.pc \in {"ciVisitor", "coVisitor"} => t.op # "CheckOutVisitor"
  /\ t.pc = "asgVisitor" => CardFresh(t)
  /\ t.pc = "asgSaveVisitor" => CardFresh(t) /\ Assignable(t)
  /\ t.pc = "asgSaveCard" =>
       /\ CardFresh(t) /\ t.ce.holder = NoVisitor
       /\ Live(t.v) /\ visitor[t.v].state = "en_progreso" /\ CardsOf(t.v) = {}
  /\ t.pc = "unCard" /\ t.op = "CheckOutVisitor" =>
       Live(t.v) /\ visitor[t.v].state = "completado" /\ card[t.c].holder = t.v
  /\ t.pc \in {"unVisitor", "unSaveVisitor", "unSaveCard"} =>
       CardFresh(t) /\ t.ce.holder # NoVisitor
  /\ t.pc = "unSaveCard" => visitor[t.ce.holder].state = "completado"
  /\ t.pc \in {"saveCard", "recSaveCard"} =>
       t.c \in Cards /\ t.ce.holder = card[t.c].holder /\ t.ce.issued = card[t.c].issued

\* The inductive form of CardsMatchVisits.
OrderInv ==
  Orderly =>
    /\ \A u, w \in Workers : ~At(u, "idle") /\ ~At(w, "idle") => u = w
    /\ \A w \in Workers : OrderTask(task[w])
    /\ \A v \in Visitors : visitor[v].row = "unused" => visitor[v].state = "pendiente"
    /\ \A c \in Cards : card[c].issued <=> card[c].holder # NoVisitor
    /\ \A v \in Visitors : Balanced(v) \/ \E w \in Workers : v \in Between(task[w])

\* What every step of worker w has to keep.
OrderStep(w) ==
  /\ \E u : /\ Become(w, u) /\ OrderTask(u)'
            /\ \A v \in Visitors : Balanced(v)' \/ v \in Between(u)
  /\ \A v \in Visitors : visitor'[v].row = "unused" => visitor'[v].state = "pendiente"
  /\ \A c \in Cards : card'[c].issued <=> card'[c].holder # NoVisitor
  /\ Lending!Next \/ UNCHANGED Lending!vars

\* A place where a call chain knows nothing about the rows.
Free(u) ==
  /\ u.op # "ReleaseJob"
  /\ \/ u.pc \in {"idle", "findCards", "asgCard", "lookup", "insertLocation"}
     \/ /\ u.pc \in {"saveAppt", "unCard", "ciVisitor", "coVisitor"}
        /\ u.op # "CheckOutVisitor"

LEMMA FreeOrder ==
  ASSUME NEW u, Free(u)
  PROVE  OrderTask(u)' /\ Between(u) = {}
BY DEF Free, OrderTask, HoldsEntity, Between

\* A statement that leaves the visitors and the holders of cards alone.
SameLending ==
  /\ visitor' = visitor
  /\ \A c \in Cards : card'[c].holder = card[c].holder /\ card'[c].issued = card[c].issued

LEMMA SameLendingKeeps ==
  ASSUME SameLending
  PROVE  /\ \A v : CardsOf(v)' = CardsOf(v) /\ CardSeen(v)' = CardSeen(v)
         /\ \A v : (Live(v)' <=> Live(v)) /\ (Balanced(v)' <=> Balanced(v))
         /\ UNCHANGED Lending!vars
<1>1. \A v : CardsOf(v)' = CardsOf(v)
  BY DEF SameLending, CardsOf
<1>2. ASSUME NEW v PROVE CardSeen(v)' = CardSeen(v)
  <2>1. CardsOf(v)' = CardsOf(v)
    BY <1>1
  <2> DEFINE One(S) == IF S = {} THEN NoCard ELSE CHOOSE c \in S : TRUE
  <2>2. CardSeen(v) = One(CardsOf(v)) /\ CardSeen(v)' = One(CardsOf(v)')
    BY DEF CardSeen
  <2> HIDE DEF One
  <2> QED BY <2>1, <2>2
<1>3. \A v : Live(v)' <=> Live(v)
  BY DEF SameLending, Live
<1>4. UNCHANGED Lending!vars
  BY DEF SameLending, Lending!vars
<1>5. \A v : Balanced(v)' <=> Balanced(v)
  BY <1>1, <1>3 DEF SameLending, Balanced
<1> QED BY <1>1, <1>2, <1>3, <1>4, <1>5

\* The facts every step starts from.
OrderNow ==
  /\ TypeOK /\ ReferencesIntact
  /\ \A v \in Visitors : visitor[v].row = "unused" => visitor[v].state = "pendiente"
  /\ \A c \in Cards : card[c].issued <=> card[c].holder # NoVisitor

\* A step that changes nothing the cards and visits depend on, and leaves the worker
\* at a place whose facts hold.
LEMMA QuietOrder ==
  ASSUME OrderNow, NEW w \in Workers, SameLending, NEW u, Become(w, u), OrderTask(u)',
         \A v \in Visitors : Balanced(v) \/ v \in Between(u)
  PROVE  OrderStep(w)
<1>1. \A v \in Visitors : Balanced(v)' \/ v \in Between(u)
  BY SameLendingKeeps
<1>2. \A v \in Visitors : visitor'[v].row = "unused" => visitor'[v].state = "pendiente"
  BY DEF SameLending, OrderNow
<1>3. \A c \in Cards : card'[c].issued <=> card'[c].holder # NoVisitor
  BY DEF SameLending, OrderNow
<1> QED BY <1>1, <1>2, <1>3, SameLendingKeeps DEF OrderStep

\* An exception outside the two-save sequences is quiet.
LEMMA ThrowOrder ==
  ASSUME OrderNow, NEW w \in Workers, Throw(w), UNCHANGED store, OrderTask(task[w]),
         \A v \in Visitors : Balanced(v)
  PROVE  OrderStep(w)
<1>0. task[w] \in Task
  BY DEF OrderNow, TypeOK, DataOK, TaskOK
<1>1. PICK u : Become(w, u) /\ Free(u)
  <2>1. CASE Caught(task[w]) = "idle"
    <3>1. Free(Idle)
      BY DEF Free, Idle
    <3> QED BY <2>1, <3>1 DEF Throw, Return
  <2>2. CASE Caught(task[w]) # "idle"
    <3>1. PICK u : /\ u = [task[w] EXCEPT !.pc = "saveAppt", !.c = NoCard,
                                           !.ce = NoCardEntity]
                   /\ Become(w, u)
      BY <2>2 DEF Throw, Return, Caught
    <3>2. u.pc = "saveAppt" /\ u.op = task[w].op
      BY <1>0, <3>1 DEF Task
    <3>3. task[w].op \in {"CheckIn", "CheckOut"}
      BY <2>2 DEF Caught
    <3> QED BY <3>1, <3>2, <3>3 DEF Free
  <2> QED BY <2>1, <2>2
<1>2. SameLending
  BY DEF SameLending, store
<1> QED BY <1>1, <1>2, QuietOrder, FreeOrder

(***************************************************************************)
(* assignToVisitor.                                                        *)
(***************************************************************************)

\* The reads of an assignment: what they found is still so at the next save.
LEMMA AssignReads ==
  ASSUME OrderNow, NEW w \in Workers, OrderTask(task[w]),
         \A v \in Visitors : Balanced(v) \/ v \in Between(task[w]),
         FindCards(w) \/ AssignReadCard(w) \/ AssignReadVisitor(w) \/ CheckInReadVisitor(w)
  PROVE  OrderStep(w)
<1> DEFINE t == task[w]
<1>0. /\ t \in TaskOK /\ t \in Task
      /\ UNCHANGED store /\ SameLending
      /\ \A v \in Visitors : Balanced(v)
  BY DEF OrderNow, TypeOK, DataOK, TaskOK, SameLending, store, Between, At, FindCards,
         AssignReadCard, AssignReadVisitor, CheckInReadVisitor
<1>1. CASE Throw(w)
  BY <1>0, <1>1, ThrowOrder
<1>a. ASSUME NEW u, Become(w, u), OrderTask(u)' PROVE OrderStep(w)
  BY <1>0, <1>a, QuietOrder
<1>2. ASSUME NEW c \in Cards, Become(w, [t EXCEPT !.pc = "asgCard", !.c = c])
      PROVE  OrderStep(w)
  <2>1. PICK u : u = [t EXCEPT !.pc = "asgCard", !.c = c] /\ Become(w, u)
    BY <1>2
  <2>2. u.op = t.op /\ u.pc = "asgCard"
    BY <1>0, <2>1 DEF Task
  <2>3. Free(u)
    BY <2>2 DEF Free, OrderTask
  <2> QED BY <1>a, <2>1, <2>3, FreeOrder
<1>3. CASE AssignReadCard(w)
  <2>1. PICK u : u = [t EXCEPT !.pc = "asgVisitor", !.ce = card[t.c]] /\ Become(w, u)
    BY <1>3 DEF AssignReadCard
  <2>2. u.op = t.op /\ u.pc = "asgVisitor" /\ u.ce = card[t.c] /\ u.c = t.c /\ t.c \in Cards
    BY <1>0, <1>3, <2>1 DEF Task, TaskOK, KnowsIds, AssignReadCard, At
  <2>3. card' = card
    BY <1>0 DEF store
  <2>4. OrderTask(u)'
    BY <2>2, <2>3 DEF OrderTask, HoldsEntity, CardFresh
  <2> QED BY <1>a, <2>1, <2>4
<1>4. CASE AssignReadVisitor(w) /\ Assignable(t)
  <2>1. PICK u : u = [t EXCEPT !.pc = "asgSaveVisitor"] /\ Become(w, u)
    BY <1>4 DEF AssignReadVisitor, Goto
  <2>2. /\ u.op = t.op /\ u.pc = "asgSaveVisitor" /\ u.ce = t.ce /\ u.c = t.c /\ u.v = t.v
        /\ CardFresh(t)
    BY <1>0, <1>4, <2>1 DEF Task, AssignReadVisitor, At, OrderTask
  <2>3. card' = card /\ visitor' = visitor
    BY <1>0 DEF store
  <2>4. OrderTask(u)'
    BY <1>4, <2>2, <2>3 DEF OrderTask, HoldsEntity, CardFresh, Assignable, CardsOf, Live
  <2> QED BY <1>a, <2>1, <2>4
<1>5. ASSUME CheckInReadVisitor(w), NEW pc \in {"findCards", "saveAppt"}, Goto(w, pc)
      PROVE  OrderStep(w)
  <2>1. PICK u : u = [t EXCEPT !.pc = pc] /\ Become(w, u)
    BY <1>5 DEF Goto
  <2>2. u.op = t.op /\ u.pc = pc /\ t.op # "CheckOutVisitor"
    BY <1>0, <1>5, <2>1 DEF Task, CheckInReadVisitor, At, OrderTask
  <2>3. Free(u)
    BY <2>2 DEF Free, OrderTask
  <2> QED BY <1>a, <2>1, <2>3, FreeOrder
<1>6. CASE FindCards(w)
  BY <1>1, <1>2, <1>6 DEF FindCards, AvailableCards
<1>7. CASE AssignReadVisitor(w)
  BY <1>1, <1>4, <1>7 DEF AssignReadVisitor
<1>8. CASE CheckInReadVisitor(w)
  BY <1>1, <1>5, <1>8 DEF CheckInReadVisitor
<1> QED BY <1>3, <1>6, <1>7, <1>8

\* The first save of an assignment: the visit is in progress, without a card yet.
LEMMA AssignSavesVisitor ==
  ASSUME OrderNow, NEW w \in Workers, OrderTask(task[w]),
         \A v \in Visitors : Balanced(v) \/ v \in Between(task[w]), AssignSaveVisitor(w)
  PROVE  OrderStep(w)
<1> DEFINE t == task[w]
<1>0. /\ t \in Task /\ Live(t.v) /\ CardsOf(t.v) = {} /\ CardFresh(t) /\ t.ce.holder = NoVisitor
      /\ visitor[t.v].state # "completado" /\ t.v \in Visitors
      /\ visitor \in [Visitors -> VisitorRow] /\ card \in [Cards -> CardRow]
  BY DEF OrderNow, TypeOK, DataOK, StoreTypeOK, TaskOK, OrderTask, Assignable, AssignSaveVisitor,
         At, Live
<1>1. visitor' = [visitor EXCEPT ![t.v] = [row |-> "live", state |-> "en_progreso"]]
  BY DEF AssignSaveVisitor, SaveVisitor
<1>2. card' = card
  <2>1. ASSUME NEW c \in Cards PROVE CardsAligned(t.v, NoCard)[c] = card[c]
    BY <1>0, NoCardAssumption DEF CardsAligned, CardsOf, CardRow
  <2>2. card' = CardsAligned(t.v, NoCard)
    BY DEF AssignSaveVisitor, SaveVisitor
  <2> QED BY <1>0, <2>1, <2>2 DEF CardsAligned
<1>3. PICK u : u = [t EXCEPT !.pc = "asgSaveCard"] /\ Become(w, u)
  BY DEF AssignSaveVisitor, Goto
<1>4. u.op = t.op /\ u.pc = "asgSaveCard" /\ u.ce = t.ce /\ u.c = t.c /\ u.v = t.v
  BY <1>0, <1>3 DEF Task
<1>5. OrderTask(u)'
  BY <1>0, <1>1, <1>2, <1>4 DEF OrderTask, HoldsEntity, CardFresh, CardsOf, Live
<1>6. \A v \in Visitors : Balanced(v)' \/ v \in Between(u)
  BY <1>0, <1>1, <1>2, <1>4 DEF Balanced, Between, Live, CardsOf, AssignSaveVisitor, At
<1>7. \A v \in Visitors : visitor'[v].row = "unused" => visitor'[v].state = "pendiente"
  BY <1>0, <1>1 DEF OrderNow
<1>8. UNCHANGED Lending!vars
  BY <1>0, <1>1, <1>2 DEF Lending!vars
<1> QED BY <1>2, <1>3, <1>5, <1>6, <1>7, <1>8 DEF OrderStep, OrderNow

\* The second save lends the card: it cannot fail, and it is CardLending's Lend.
LEMMA AssignSavesCard ==
  ASSUME OrderNow, NEW w \in Workers, OrderTask(task[w]),
         \A v \in Visitors : Balanced(v) \/ v \in Between(task[w]), AssignSaveCard(w)
  PROVE  OrderStep(w)
<1> DEFINE t == task[w]
           e == [t.ce EXCEPT !.holder = t.v, !.issued = TRUE]
<1>0. /\ t \in Task /\ t.v \in Visitors /\ t.c \in Cards /\ t.ce = card[t.c]
      /\ Live(t.v) /\ CardsOf(t.v) = {} /\ card[t.c].holder = NoVisitor
      /\ visitor[t.v].state = "en_progreso"
      /\ visitor \in [Visitors -> VisitorRow] /\ card \in [Cards -> CardRow]
      /\ \A v \in Visitors \ {t.v} : Balanced(v)
  BY DEF OrderNow, TypeOK, DataOK, StoreTypeOK, TaskOK, OrderTask, CardFresh, Live, Between,
         AssignSaveCard, At
<1>1. /\ e.holder = t.v /\ e.issued = TRUE /\ e.locations = card[t.c].locations
      /\ card[t.c].locations \in Nat /\ e \in CardRow
  <2>1. t.ce \in CardRow
    BY <1>0
  <2> QED
    BY <1>0, <2>1 DEF CardRow
<1>2. ~CardSaveThrows(t.c, e)
  <2> HIDE DEF e
  <2> QED BY <1>0, <1>1 DEF CardSaveThrows, HolderTaken, HolderMissing
<1>3. SaveCard(t.c, e) /\ Return(w, AfterAssign(t))
  BY <1>2 DEF AssignSaveCard
<1> HIDE DEF e
<1>4. /\ visitor' = visitor /\ card' \in [Cards -> CardRow]
      /\ \A c \in Cards : c # t.c => card'[c] = card[c]
      /\ card'[t.c].holder = t.v /\ card'[t.c].issued = TRUE
  BY <1>0, <1>1, <1>3 DEF SaveCard, CardRow
<1>5. ASSUME NEW v \in Visitors PROVE Balanced(v)'
  <2>1. CASE v = t.v
    BY <1>0, <1>4, <2>1 DEF Balanced, Live, CardsOf
  <2>2. CASE v # t.v
    <3>1. \A c \in Cards : card'[c].holder = v <=> card[c].holder = v
      BY <1>0, <1>4, <2>2, NoVisitorAssumption
    <3>2. CardsOf(v)' = CardsOf(v)
      BY <3>1 DEF CardsOf
    <3>3. Balanced(v)
      BY <1>0, <2>2
    <3> QED BY <1>4, <3>2, <3>3 DEF Balanced, Live
  <2> QED BY <2>1, <2>2
<1>6. PICK u : Become(w, u) /\ Free(u)
  <2>1. CASE AfterAssign(t) = "idle"
    <3>1. Free(Idle)
      BY DEF Free, Idle
    <3> QED BY <1>3, <2>1, <3>1 DEF Return
  <2>2. CASE AfterAssign(t) # "idle"
    <3>1. PICK u : /\ u = [t EXCEPT !.pc = "saveAppt", !.c = NoCard, !.ce = NoCardEntity]
                   /\ Become(w, u)
      BY <1>3, <2>2 DEF Return, AfterAssign
    <3>2. u.pc = "saveAppt" /\ u.op = t.op /\ t.op \in {"CheckIn", "AssignJob"}
      BY <1>0, <2>2, <3>1 DEF Task, AfterAssign
    <3> QED BY <3>1, <3>2 DEF Free
  <2> QED BY <2>1, <2>2
<1>7. PICK c \in Cards, v \in Visitors : c = t.c /\ v = t.v
  BY <1>0
<1>8. \A d \in Cards : card'[d].issued <=> card'[d].holder # NoVisitor
  BY <1>0, <1>4, NoVisitorAssumption DEF OrderNow
<1>9. OrderTask(u)'
  BY <1>6, FreeOrder
<1>10. Lending!Next
  <2>1. Lending!Lend(c, v)
    BY <1>0, <1>4, <1>7 DEF Lending!Lend, CardsOf
  <2> QED BY <2>1 DEF Lending!Next
<1> QED BY <1>4, <1>5, <1>6, <1>8, <1>9, <1>10 DEF OrderStep, OrderNow

(***************************************************************************)
(* unassignFromVisitor.                                                    *)
(***************************************************************************)

\* The reads of a release: the card and its holder stay what they were.
LEMMA UnassignReads ==
  ASSUME OrderNow, NEW w \in Workers, OrderTask(task[w]),
         \A v \in Visitors : Balanced(v) \/ v \in Between(task[w]),
         UnassignReadCard(w) \/ UnassignReadVisitor(w) \/ CheckOutReadVisitor(w)
  PROVE  OrderStep(w)
<1> DEFINE t == task[w]
<1>0. /\ t \in TaskOK /\ t \in Task
      /\ UNCHANGED store /\ SameLending
  BY DEF OrderNow, TypeOK, DataOK, TaskOK, SameLending, store, UnassignReadCard,
         UnassignReadVisitor, CheckOutReadVisitor
<1>1. CASE UnassignReadCard(w)
  <2>0. t.c \in Cards /\ t.pc = "unCard"
    BY <1>0, <1>1 DEF TaskOK, KnowsIds, UnassignReadCard, At
  <2>1. CASE card[t.c].holder = NoVisitor
    <3>1. t.op # "CheckOutVisitor"
      BY <2>0, <2>1, NoVisitorAssumption DEF OrderTask, Live
    <3>2. \A v \in Visitors : Balanced(v)
      BY <2>0, <3>1 DEF Between
    <3> QED BY <1>0, <1>1, <2>1, <3>2, ThrowOrder DEF UnassignReadCard
  <2>2. CASE card[t.c].holder # NoVisitor
    <3>1. PICK u : u = [t EXCEPT !.pc = "unVisitor", !.ce = card[t.c]] /\ Become(w, u)
      BY <1>1, <2>2 DEF UnassignReadCard
    <3>2. u.op = t.op /\ u.pc = "unVisitor" /\ u.ce = card[t.c] /\ u.c = t.c
      BY <1>0, <3>1 DEF Task
    <3>3. card' = card
      BY <1>0 DEF store
    <3>4. OrderTask(u)'
      BY <2>0, <2>2, <3>2, <3>3 DEF OrderTask, HoldsEntity, CardFresh
    <3>5. \A v \in Visitors : Balanced(v) \/ v \in Between(u)
      BY <2>0, <3>2 DEF Between, OrderTask
    <3> QED BY <1>0, <3>1, <3>4, <3>5, QuietOrder
  <2> QED BY <2>1, <2>2
<1>2. CASE UnassignReadVisitor(w)
  <2>0. CardFresh(t) /\ t.ce.holder # NoVisitor /\ t.pc = "unVisitor"
    BY <1>2 DEF UnassignReadVisitor, At, OrderTask
  <2>1. Live(t.ce.holder)
    BY <2>0 DEF OrderNow, ReferencesIntact, CardFresh
  <2>2. PICK u : u = [t EXCEPT !.pc = "unSaveVisitor"] /\ Become(w, u)
    BY <1>2, <2>1 DEF UnassignReadVisitor, Goto
  <2>3. u.op = t.op /\ u.pc = "unSaveVisitor" /\ u.ce = t.ce /\ u.c = t.c
    BY <1>0, <2>2 DEF Task
  <2>4. card' = card
    BY <1>0 DEF store
  <2>5. OrderTask(u)'
    BY <2>0, <2>3, <2>4 DEF OrderTask, HoldsEntity, CardFresh
  <2>6. \A v \in Visitors : Balanced(v) \/ v \in Between(u)
    BY <2>0, <2>3 DEF Between
  <2> QED BY <1>0, <2>2, <2>5, <2>6, QuietOrder
<1>3. CASE CheckOutReadVisitor(w)
  <2>0. t.op # "CheckOutVisitor" /\ t.op # "ReleaseJob" /\ \A v \in Visitors : Balanced(v)
    BY <1>3 DEF CheckOutReadVisitor, At, OrderTask, Between
  <2>1. PICK u : Become(w, u) /\ u.op = t.op /\ u.pc \in {"unCard", "saveAppt"}
    <3>1. \/ Become(w, [t EXCEPT !.pc = "unCard", !.c = CardSeen(t.v)])
          \/ Become(w, [t EXCEPT !.pc = "saveAppt"])
      BY <1>3 DEF CheckOutReadVisitor, Goto
    <3>2. PICK u : /\ \/ u = [t EXCEPT !.pc = "unCard", !.c = CardSeen(t.v)]
                      \/ u = [t EXCEPT !.pc = "saveAppt"]
                   /\ Become(w, u)
      BY <3>1
    <3> QED BY <1>0, <3>2 DEF Task
  <2>2. Free(u)
    BY <2>0, <2>1 DEF Free
  <2> QED BY <1>0, <2>0, <2>1, <2>2, FreeOrder, QuietOrder
<1> QED BY <1>1, <1>2, <1>3

\* The first save of a release: the visitor has left, which is CardLending's Leave
\* unless a check-out has said so before.
LEMMA UnassignSavesVisitor ==
  ASSUME OrderNow, NEW w \in Workers, OrderTask(task[w]),
         \A v \in Visitors : Balanced(v) \/ v \in Between(task[w]), UnassignSaveVisitor(w)
  PROVE  OrderStep(w)
<1> DEFINE t == task[w]
<1>0. /\ t \in Task /\ CardFresh(t) /\ t.ce.holder # NoVisitor /\ t.pc = "unSaveVisitor"
      /\ visitor \in [Visitors -> VisitorRow] /\ card \in [Cards -> CardRow]
  BY DEF OrderNow, TypeOK, DataOK, StoreTypeOK, TaskOK, OrderTask, UnassignSaveVisitor, At
<1>1. PICK h \in Visitors : h = t.ce.holder
  BY <1>0 DEF CardFresh, CardRow
<1>2. visitor' = [visitor EXCEPT ![h] = [row |-> "live", state |-> "completado"]]
  BY <1>1 DEF UnassignSaveVisitor, SaveVisitor
<1>3. card' = card
  <2>1. ASSUME NEW c \in Cards PROVE CardsAligned(h, NotLoaded)[c] = card[c]
    BY <1>0 DEF CardsAligned, CardRow
  <2>2. card' = CardsAligned(h, NotLoaded)
    BY <1>1 DEF UnassignSaveVisitor, SaveVisitor
  <2> QED BY <1>0, <2>1, <2>2 DEF CardsAligned
<1>4. PICK u : u = [t EXCEPT !.pc = "unSaveCard"] /\ Become(w, u)
  BY DEF UnassignSaveVisitor, Goto
<1>5. u.op = t.op /\ u.pc = "unSaveCard" /\ u.ce = t.ce /\ u.c = t.c
  BY <1>0, <1>4 DEF Task
<1>6. OrderTask(u)'
  BY <1>0, <1>1, <1>2, <1>3, <1>5 DEF OrderTask, HoldsEntity, CardFresh
<1>7. ASSUME NEW v \in Visitors PROVE Balanced(v)' \/ v \in Between(u)
  BY <1>0, <1>1, <1>2, <1>3, <1>5 DEF Balanced, Between, Live, CardsOf
<1>8. \A v \in Visitors : visitor'[v].row = "unused" => visitor'[v].state = "pendiente"
  BY <1>0, <1>2 DEF OrderNow
<1>9. Lending!Next \/ UNCHANGED Lending!vars
  <2>1. {v \in Visitors : visitor'[v].state = "completado"}
          = {v \in Visitors : visitor[v].state = "completado"} \cup {h}
    BY <1>0, <1>2
  <2>2. CASE visitor[h].state = "completado"
    BY <1>3, <2>1, <2>2 DEF Lending!vars
  <2>3. CASE visitor[h].state # "completado"
    <3>1. Lending!Leave(h)
      BY <1>3, <2>1, <2>3 DEF Lending!Leave
    <3> QED BY <3>1 DEF Lending!Next
  <2> QED BY <2>2, <2>3
<1> QED BY <1>3, <1>4, <1>6, <1>7, <1>8, <1>9 DEF OrderStep, OrderNow

\* The second save gives the card back: it cannot fail, and it is CardLending's
\* Return.
LEMMA UnassignSavesCard ==
  ASSUME OrderNow, NEW w \in Workers, OrderTask(task[w]),
         \A v \in Visitors : Balanced(v) \/ v \in Between(task[w]), UnassignSaveCard(w)
  PROVE  OrderStep(w)
<1> DEFINE t == task[w]
           e == [t.ce EXCEPT !.holder = NoVisitor, !.issued = FALSE]
<1>0. /\ t \in Task /\ t.c \in Cards /\ t.ce = card[t.c] /\ t.ce.holder # NoVisitor
      /\ visitor \in [Visitors -> VisitorRow] /\ card \in [Cards -> CardRow]
      /\ visitor[t.ce.holder].state = "completado"
      /\ \A v \in Visitors \ {t.ce.holder} : Balanced(v)
  BY DEF OrderNow, TypeOK, DataOK, StoreTypeOK, TaskOK, OrderTask, CardFresh, Between,
         UnassignSaveCard, At
<1>1. PICK h \in Visitors, c \in Cards : h = card[c].holder /\ c = t.c
  BY <1>0 DEF CardRow
<1>2. /\ e.holder = NoVisitor /\ e.issued = FALSE /\ e.locations = card[t.c].locations
      /\ card[t.c].locations \in Nat /\ e \in CardRow
  BY <1>0 DEF CardRow
<1>3. ~CardSaveThrows(t.c, e)
  <2> HIDE DEF e
  <2> QED BY <1>0, <1>2 DEF CardSaveThrows, HolderTaken, HolderMissing
<1>4. SaveCard(t.c, e) /\ Return(w, AfterUnassign(t))
  BY <1>3 DEF UnassignSaveCard
<1> HIDE DEF e
<1>5. /\ visitor' = visitor /\ card' \in [Cards -> CardRow]
      /\ \A d \in Cards : d # c => card'[d] = card[d]
      /\ card'[c].holder = NoVisitor /\ card'[c].issued = FALSE
  BY <1>0, <1>1, <1>2, <1>4 DEF SaveCard, CardRow
<1>6. ASSUME NEW v \in Visitors PROVE Balanced(v)'
  <2>1. CASE v = h
    <3>1. CardsOf(v)' = {}
      BY <1>1, <1>5, <2>1, NoVisitorAssumption DEF OrderNow, ReferencesIntact, CardsOf
    <3> QED BY <1>0, <1>1, <1>5, <2>1, <3>1 DEF Balanced
  <2>2. CASE v # h
    <3>1. \A d \in Cards : card'[d].holder = v <=> card[d].holder = v
      BY <1>1, <1>5, <2>2, NoVisitorAssumption
    <3>2. CardsOf(v)' = CardsOf(v)
      BY <3>1 DEF CardsOf
    <3>3. Balanced(v)
      BY <1>0, <1>1, <2>2
    <3> QED BY <1>5, <3>2, <3>3 DEF Balanced, Live
  <2> QED BY <2>1, <2>2
<1>7. PICK u : Become(w, u) /\ Free(u)
  <2>1. CASE AfterUnassign(t) = "idle"
    <3>1. Free(Idle)
      BY DEF Free, Idle
    <3> QED BY <1>4, <2>1, <3>1 DEF Return
  <2>2. CASE AfterUnassign(t) # "idle"
    <3>1. PICK u : /\ u = [t EXCEPT !.pc = "saveAppt", !.c = NoCard, !.ce = NoCardEntity]
                   /\ Become(w, u)
      BY <1>4, <2>2 DEF Return, AfterUnassign
    <3>2. u.pc = "saveAppt" /\ u.op = t.op /\ t.op = "CheckOut"
      BY <1>0, <2>2, <3>1 DEF Task, AfterUnassign, OrderTask
    <3> QED BY <3>1, <3>2 DEF Free
  <2> QED BY <2>1, <2>2
<1>8. \A d \in Cards : card'[d].issued <=> card'[d].holder # NoVisitor
  BY <1>1, <1>5 DEF OrderNow
<1>9. OrderTask(u)'
  BY <1>7, FreeOrder
<1>10. Lending!Next
  <2>1. Lending!Return(c)
    BY <1>0, <1>1, <1>5 DEF Lending!Return
  <2> QED BY <2>1 DEF Lending!Next
<1> QED BY <1>5, <1>6, <1>7, <1>8, <1>9, <1>10 DEF OrderStep, OrderNow

(***************************************************************************)
(* The other awaits.                                                       *)
(***************************************************************************)

\* Fetching and saving an appointment concerns no card, and a use case keeps the
\* visitor it has read.
LEMMA ApptOrder ==
  ASSUME OrderNow, NEW w \in Workers, OrderTask(task[w]),
         \A v \in Visitors : Balanced(v) \/ v \in Between(task[w]),
         SaveAppt(w) \/ FetchAppt(w)
  PROVE  OrderStep(w)
<1> DEFINE t == task[w]
<1>0. /\ t \in Task
      /\ visitor' = visitor /\ card' = card /\ SameLending
      /\ \A v \in Visitors : Balanced(v)
      /\ t.pc \in {"saveAppt", "fetchAppt"}
  BY DEF OrderNow, TypeOK, DataOK, TaskOK, SameLending, store, Between, At, SaveAppt, SaveApptRow,
         FetchAppt
<1>a. ASSUME NEW u, Become(w, u), OrderTask(u)' PROVE OrderStep(w)
  BY <1>0, <1>a, QuietOrder
<1>b. OrderTask(Idle)'
  BY FreeOrder DEF Free, Idle
<1>c. Throw(w) => Become(w, Idle)
  BY <1>0 DEF Throw, Return, Caught, AssignPcs, UnassignPcs
<1>d. ASSUME NEW u, u.op = t.op, u.v = t.v, u.ve = t.ve, HoldsEntity(t),
             u.pc \in {"saveAppt", "saveVisitor"}
      PROVE  OrderTask(u)'
  BY <1>0, <1>d, SameLendingKeeps DEF OrderTask, HoldsEntity
<1>1. CASE SaveAppt(w)
  <2>1. CASE Become(w, Idle)
    BY <1>a, <1>b, <2>1
  <2>2. CASE t.op = "Register" /\ Become(w, [t EXCEPT !.pc = "findCards", !.a = NoAppt,
                                                      !.ae = UnusedAppt])
    <3>1. PICK u : /\ u = [t EXCEPT !.pc = "findCards", !.a = NoAppt, !.ae = UnusedAppt]
                   /\ Become(w, u)
      BY <2>2
    <3>2. u.pc = "findCards" /\ u.op = t.op
      BY <1>0, <3>1 DEF Task
    <3> QED BY <2>2, <3>1, <3>2, <1>a, FreeOrder DEF Free
  <2>3. CASE /\ t.op = "CheckOutVisitor"
             /\ Become(w, [t EXCEPT !.pc = "saveVisitor", !.a = NoAppt, !.ae = UnusedAppt])
    <3>1. PICK u : /\ u = [t EXCEPT !.pc = "saveVisitor", !.a = NoAppt, !.ae = UnusedAppt]
                   /\ Become(w, u)
      BY <2>3
    <3>2. u.pc = "saveVisitor" /\ u.op = t.op /\ u.v = t.v /\ u.ve = t.ve
      BY <1>0, <3>1 DEF Task
    <3>3. HoldsEntity(t)
      BY <1>1, <2>3 DEF SaveAppt, At, HoldsEntity
    <3> QED BY <3>1, <3>2, <3>3, <1>a, <1>d
  <2>4. t.op # "ReleaseJob"
    BY DEF OrderTask
  <2> QED BY <1>1, <1>c, <2>1, <2>2, <2>3, <2>4 DEF SaveAppt
<1>2. CASE FetchAppt(w)
  <2>0. HoldsEntity(t)
    BY <1>2 DEF FetchAppt, At, HoldsEntity
  <2>1. \/ Throw(w)
        \/ \E e : \E pc \in {"saveAppt", "saveVisitor"} :
             /\ pc = "saveAppt" => t.op = "CheckOutVisitor"
             /\ Become(w, [t EXCEPT !.pc = pc, !.ae = e])
    BY <1>2 DEF FetchAppt
  <2>2. ASSUME NEW pc \in {"saveAppt", "saveVisitor"}, NEW e,
               Become(w, [t EXCEPT !.pc = pc, !.ae = e])
        PROVE  OrderStep(w)
    <3>1. PICK u : u = [t EXCEPT !.pc = pc, !.ae = e] /\ Become(w, u)
      BY <2>2
    <3>2. u.pc = pc /\ u.op = t.op /\ u.v = t.v /\ u.ve = t.ve
      BY <1>0, <3>1 DEF Task
    <3> QED BY <2>0, <3>1, <3>2, <1>a, <1>d
  <2> QED BY <2>1, <2>2, <1>a, <1>b, <1>c
<1> QED BY <1>1, <1>2

\* The save of a visitor that a use case has read writes the state it set and leaves
\* the card alone: the entity was read with the card the visitor still holds.
LEMMA VisitorOrder ==
  ASSUME OrderNow, NEW w \in Workers, OrderTask(task[w]),
         \A v \in Visitors : Balanced(v) \/ v \in Between(task[w]), SaveVisitorEntity(w)
  PROVE  OrderStep(w)
<1> DEFINE t == task[w]
<1>0. /\ t \in Task /\ t.pc = "saveVisitor" /\ Live(t.v) /\ t.ve.card = CardSeen(t.v)
      /\ t.op \in {"CheckOutVisitor", "UpdateVisitor", "SetImage"}
      /\ t.ve.state = IF t.op = "CheckOutVisitor" THEN "completado" ELSE visitor[t.v].state
      /\ visitor \in [Visitors -> VisitorRow] /\ card \in [Cards -> CardRow]
      /\ \A v \in Visitors : Balanced(v)
  BY DEF OrderNow, TypeOK, DataOK, StoreTypeOK, TaskOK, OrderTask, HoldsEntity, Between,
         SaveVisitorEntity, At
<1>b. Free(Idle)
  BY DEF Free, Idle
<1>1. CASE Throw(w) /\ UNCHANGED store
  BY <1>0, <1>1, ThrowOrder
<1>2. CASE ~(Throw(w) /\ UNCHANGED store)
  <2>1. PICK v \in Visitors : v = t.v
    BY <1>0 DEF Live
  <2>2. SaveVisitor(v, t.ve)
    BY <1>2, <2>1 DEF SaveVisitorEntity
  <2>3. visitor' = [visitor EXCEPT ![v] = [row |-> "live", state |-> t.ve.state]]
    BY <2>2 DEF SaveVisitor
  <2>4. card' = card
    <3>1. t.ve.card # NotLoaded
      BY <1>0, CardSeenType, NoCardAssumption
    <3>2. ASSUME NEW c \in Cards PROVE (card[c].holder = v) <=> c = t.ve.card
      <4>1. CASE CardsOf(v) = {}
        BY <1>0, <2>1, <4>1, CardSeenType, NoCardAssumption DEF CardsOf
      <4>2. CASE CardsOf(v) # {}
        <5>1. t.ve.card \in Cards /\ card[t.ve.card].holder = v
          BY <1>0, <2>1, <4>2, CardSeenType
        <5> QED BY <5>1, NoVisitorAssumption DEF OrderNow, ReferencesIntact
      <4> QED BY <4>1, <4>2
    <3>3. ASSUME NEW c \in Cards PROVE CardsAligned(v, t.ve.card)[c] = card[c]
      BY <1>0, <3>1, <3>2 DEF CardsAligned, CardRow
    <3>4. card' = CardsAligned(v, t.ve.card)
      BY <2>2 DEF SaveVisitor
    <3> QED BY <1>0, <3>3, <3>4 DEF CardsAligned
  <2>5. \A x \in Visitors : visitor'[x].row = "unused" => visitor'[x].state = "pendiente"
    BY <1>0, <2>3 DEF OrderNow
  <2>6. CASE t.op = "CheckOutVisitor"
    <3>1. Lending!Next \/ UNCHANGED Lending!vars
      <4>1. {x \in Visitors : visitor'[x].state = "completado"}
              = {x \in Visitors : visitor[x].state = "completado"} \cup {v}
        BY <1>0, <2>3, <2>6
      <4>2. CASE visitor[v].state = "completado"
        BY <2>4, <4>1, <4>2 DEF Lending!vars
      <4>3. CASE visitor[v].state # "completado"
        <5>1. Lending!Leave(v)
          BY <2>4, <4>1, <4>3 DEF Lending!Leave
        <5> QED BY <5>1 DEF Lending!Next
      <4> QED BY <4>2, <4>3
    <3>2. \A x \in Visitors \ {v} : Balanced(x)'
      BY <1>0, <2>3, <2>4 DEF Balanced, Live, CardsOf
    <3>3. CASE t.ve.card \in Cards
      <4>1. PICK u : /\ u = [t EXCEPT !.pc = "unCard", !.c = t.ve.card, !.ve = NoVisitorEntity]
                     /\ Become(w, u)
        BY <1>2, <2>6, <3>3 DEF SaveVisitorEntity
      <4>2. u.pc = "unCard" /\ u.op = "CheckOutVisitor" /\ u.c = t.ve.card /\ u.v = v
        BY <1>0, <2>1, <2>6, <4>1 DEF Task
      <4>3. card[u.c].holder = v
        BY <1>0, <2>1, <3>3, <4>2, CardSeenType, NoCardAssumption
      <4>4. OrderTask(u)'
        BY <1>0, <2>3, <2>4, <2>6, <4>2, <4>3 DEF OrderTask, HoldsEntity, Live
      <4>5. \A x \in Visitors : Balanced(x)' \/ x \in Between(u)
        BY <3>2, <4>2 DEF Between
      <4> QED BY <2>4, <2>5, <3>1, <4>1, <4>4, <4>5 DEF OrderStep, OrderNow
    <3>4. CASE t.ve.card \notin Cards
      <4>1. Become(w, Idle)
        BY <1>2, <2>6, <3>4 DEF SaveVisitorEntity
      <4>2. CardsOf(v) = {}
        BY <1>0, <2>1, <3>4, CardSeenType
      <4>3. Balanced(v)'
        BY <1>0, <2>3, <2>4, <2>6, <4>2 DEF Balanced, CardsOf
      <4>4. OrderTask(Idle)'
        BY <1>b, FreeOrder
      <4> QED BY <2>4, <2>5, <3>1, <3>2, <4>1, <4>3, <4>4 DEF OrderStep, OrderNow
    <3> QED BY <3>3, <3>4
  <2>7. CASE t.op # "CheckOutVisitor"
    <3>1. visitor' = visitor
      BY <1>0, <2>1, <2>3, <2>7 DEF Live, VisitorRow
    <3>2. PICK u : Become(w, u) /\ Free(u)
      <4>1. PICK u : /\ u = Idle \/ u = [t EXCEPT !.pc = "saveAppt", !.ve = NoVisitorEntity]
                     /\ Become(w, u)
        BY <1>2, <2>7 DEF SaveVisitorEntity
      <4>2. u = Idle \/ (u.pc = "saveAppt" /\ u.op = t.op)
        BY <1>0, <4>1 DEF Task
      <4> QED BY <1>0, <1>b, <2>7, <4>1, <4>2 DEF Free
    <3> QED BY <1>0, <2>4, <3>1, <3>2, FreeOrder, QuietOrder DEF SameLending
  <2> QED BY <2>6, <2>7
<1> QED BY <1>1, <1>2

\* The saves of a card that concern its battery, its state or its locations write
\* back the holder they read.
LEMMA CardOrder ==
  ASSUME OrderNow, NEW w \in Workers, OrderTask(task[w]),
         \A v \in Visitors : Balanced(v) \/ v \in Between(task[w]),
         SaveCardEntity(w) \/ RecordLookup(w) \/ RecordSaveCard(w) \/ RecordInsert(w)
  PROVE  OrderStep(w)
<1> DEFINE t == task[w]
<1>0. /\ t \in Task /\ t.ce \in CardRow
      /\ card \in [Cards -> CardRow]
      /\ \A v \in Visitors : Balanced(v)
  BY DEF OrderNow, TypeOK, DataOK, StoreTypeOK, TaskOK, Task, Between, At, SaveCardEntity,
         RecordLookup, RecordSaveCard, RecordInsert
<1>1. CASE Throw(w) /\ UNCHANGED store
  BY <1>0, <1>1, ThrowOrder
<1>2. ASSUME SameLending, NEW pc \in {"lookup", "insertLocation", "idle"}, Goto(w, pc)
      PROVE  OrderStep(w)
  <2>1. PICK u : u \in {Idle, [t EXCEPT !.pc = pc]} /\ Become(w, u)
    BY <1>2 DEF Goto
  <2>2. u = Idle \/ (u.op = t.op /\ u.pc = pc)
    BY <1>0, <2>1 DEF Task
  <2>3. Free(u)
    BY <2>2 DEF Free, OrderTask, Idle
  <2> QED BY <1>0, <1>2, <2>1, <2>3, FreeOrder, QuietOrder
<1>3. ASSUME t.pc \in {"saveCard", "recSaveCard"}, SaveCard(t.c, t.ce)
      PROVE  SameLending
  <2>1. t.c \in Cards /\ t.ce.holder = card[t.c].holder /\ t.ce.issued = card[t.c].issued
    BY <1>3 DEF OrderTask
  <2> QED BY <1>0, <1>3, <2>1 DEF SameLending, SaveCard, CardRow
<1>4. CASE SaveCardEntity(w) \/ RecordSaveCard(w)
  <2>1. CASE SaveCard(t.c, t.ce)
    <3>1. SameLending
      BY <1>3, <1>4, <2>1 DEF SaveCardEntity, RecordSaveCard, At
    <3>2. \E pc \in {"lookup", "insertLocation", "idle"} : Goto(w, pc)
      BY <1>4, <2>1 DEF SaveCardEntity, RecordSaveCard, SaveCard
    <3> QED BY <1>2, <3>1, <3>2
  <2> QED BY <1>1, <1>4, <2>1 DEF SaveCardEntity, RecordSaveCard
<1>5. CASE RecordInsert(w)
  <2>1. SameLending
    BY <1>0, <1>5 DEF RecordInsert, SameLending, CardRow
  <2> QED BY <1>2, <1>5, <2>1 DEF RecordInsert
<1>6. CASE RecordLookup(w)
  <2>1. UNCHANGED store /\ SameLending
    BY <1>6 DEF RecordLookup, store, SameLending
  <2>2. ASSUME NEW c \in Cards, Become(w, [t EXCEPT !.pc = "recSaveCard", !.c = c, !.ce = card[c]])
        PROVE  OrderStep(w)
    <3>1. PICK u : /\ u = [t EXCEPT !.pc = "recSaveCard", !.c = c, !.ce = card[c]]
                   /\ Become(w, u)
      BY <2>2
    <3>2. u.op = t.op /\ u.pc = "recSaveCard" /\ u.c = c /\ u.ce = card[c]
      BY <1>0, <3>1 DEF Task
    <3>3. OrderTask(u)'
      BY <2>1, <3>2 DEF OrderTask, HoldsEntity, SameLending
    <3> QED BY <1>0, <2>1, <3>1, <3>3, QuietOrder
  <2> QED BY <1>1, <1>6, <2>1, <2>2 DEF RecordLookup, CardsNumbered
<1> QED BY <1>4, <1>5, <1>6

(***************************************************************************)
(* Accepting a request, and the theorems.                                  *)
(***************************************************************************)

\* A request starts from the rows as they are; only registering and deleting a
\* visitor, who holds no card, change one at once.
LEMMA AcceptOrder ==
  ASSUME OrderNow, Orderly, NEW w \in Workers, OrderTask(task[w]),
         \A v \in Visitors : Balanced(v), Accept(w)
  PROVE  OrderStep(w)
<1>0. /\ visitor \in [Visitors -> VisitorRow] /\ card \in [Cards -> CardRow]
      /\ task \in [Workers -> TaskOK] /\ At(w, "idle") /\ "ReleaseJob" \notin workload.ops
  BY AcceptRuns DEF OrderNow, TypeOK, DataOK, StoreTypeOK, Orderly
<1>a. ASSUME UNCHANGED store, NEW u, Become(w, u), OrderTask(u)' PROVE OrderStep(w)
  <2>1. SameLending
    BY <1>a DEF SameLending, store
  <2> QED BY <1>a, <2>1, QuietOrder
<1>b. ASSUME UNCHANGED store, NEW u, Become(w, u), Free(u) PROVE OrderStep(w)
  BY <1>a, <1>b, FreeOrder
<1>c. ASSUME UNCHANGED <<workload, task>> PROVE Become(w, task[w]) /\ OrderTask(task[w])'
  <2>1. Become(w, task[w])
    BY <1>0, <1>c DEF Become
  <2>2. OrderTask(task[w])'
    BY <1>0, <1>c DEF At, OrderTask, HoldsEntity
  <2> QED BY <2>1, <2>2
<1>d. ASSUME NEW op, op \notin {"CheckOutVisitor", "ReleaseJob"},
             NEW pc \in {"saveAppt", "findCards", "ciVisitor", "coVisitor"}, NEW a, NEW e,
             TakeAppt(w, op, pc, a, e)
      PROVE  OrderStep(w)
  <2>1. PICK u : /\ u = [Idle EXCEPT !.op = op, !.pc = pc, !.v = appt[a].visitor, !.a = a,
                                     !.ae = e]
                 /\ Become(w, u)
    BY <1>d DEF TakeAppt
  <2>2. u.op = op /\ u.pc = pc
    BY <2>1 DEF Idle
  <2>3. Free(u)
    BY <1>d, <2>2 DEF Free
  <2> QED BY <1>b, <1>d, <2>1, <2>3 DEF TakeAppt
<1>e. ASSUME UNCHANGED store, NEW u, Become(w, u), u.pc \in {"fetchAppt", "saveVisitor"},
             u.op \in {"CheckOutVisitor", "UpdateVisitor", "SetImage"}, NEW v, u.v = v, Live(v),
             u.ve = Found(v, IF u.op = "CheckOutVisitor" THEN "completado" ELSE visitor[v].state)
      PROVE  OrderStep(w)
  <2>1. /\ u.ve.card = CardSeen(v)
        /\ u.ve.state = IF u.op = "CheckOutVisitor" THEN "completado" ELSE visitor[v].state
    BY <1>e DEF Found
  <2>2. SameLending
    BY <1>e DEF SameLending, store
  <2>3. OrderTask(u)'
    BY <1>e, <2>1, <2>2, SameLendingKeeps DEF OrderTask, SameLending
  <2> QED BY <1>a, <1>e, <2>3
<1>1. ASSUME NEW v \in Visitors, NEW a \in Appts, NEW ends \in BOOLEAN,
             Register(w, v, a, ends)
      PROVE  OrderStep(w)
  <2>1. PICK u : /\ u = [Idle EXCEPT !.op = "Register", !.pc = "saveAppt", !.v = v, !.a = a,
                           !.ae = [row |-> "unused", visitor |-> v, status |-> "pendiente",
                                   in |-> TRUE, out |-> ends]]
                 /\ Become(w, u)
    BY <1>1 DEF Register
  <2>2. u.op = "Register" /\ u.pc = "saveAppt"
    BY <2>1 DEF Idle
  <2>3. OrderTask(u)'
    BY <2>2, FreeOrder DEF Free
  <2>4. CardsOf(v) = {} /\ visitor[v].row = "unused" /\ visitor[v].state = "pendiente"
    BY <1>1, NoVisitorAssumption DEF Register, OrderNow, ReferencesIntact, CardsOf, Live
  <2>5. visitor' = [visitor EXCEPT ![v] = [row |-> "live", state |-> "pendiente"]]
    BY <1>1 DEF Register, SaveVisitor
  <2>6. card' = card
    <3>1. ASSUME NEW c \in Cards PROVE CardsAligned(v, NotLoaded)[c] = card[c]
      BY <1>0 DEF CardsAligned, CardRow
    <3>2. card' = CardsAligned(v, NotLoaded)
      BY <1>1 DEF Register, SaveVisitor
    <3> QED BY <1>0, <3>1, <3>2 DEF CardsAligned
  <2>7. \A x \in Visitors : Balanced(x)'
    BY <1>0, <2>4, <2>5, <2>6 DEF Balanced, Live, CardsOf
  <2>8. \A x \in Visitors : visitor'[x].row = "unused" => visitor'[x].state = "pendiente"
    BY <1>0, <2>5 DEF OrderNow
  <2>9. UNCHANGED Lending!vars
    BY <1>0, <2>4, <2>5, <2>6 DEF Lending!vars
  <2> QED BY <2>1, <2>3, <2>6, <2>7, <2>8, <2>9 DEF OrderStep, OrderNow
<1>2. ASSUME NEW v \in Visitors, DeleteVisitor(w, v) PROVE OrderStep(w)
  <2>1. /\ visitor' = [visitor EXCEPT ![v].row = "deleted"] /\ card' = card
        /\ CardsOf(v) = {} /\ Live(v)
    BY <1>2 DEF DeleteVisitor, RemoveVisitor
  <2>2. \A x \in Visitors : Balanced(x)'
    BY <1>0, <2>1 DEF Balanced, Live, CardsOf, VisitorRow
  <2>3. \A x \in Visitors : visitor'[x].row = "unused" => visitor'[x].state = "pendiente"
    BY <1>0, <2>1 DEF OrderNow, VisitorRow
  <2>4. UNCHANGED Lending!vars
    BY <1>0, <2>1 DEF Lending!vars, VisitorRow
  <2>5. Become(w, task[w]) /\ OrderTask(task[w])' /\ task' = task
    BY <1>2, <1>c DEF DeleteVisitor
  <2>6. PICK u : Become(w, u) /\ OrderTask(u)'
    <3>1. PICK u : u = task[w]
      OBVIOUS
    <3> QED BY <2>5, <3>1
  <2> QED BY <2>1, <2>2, <2>3, <2>4, <2>6 DEF OrderStep, OrderNow
<1>3. ASSUME NEW v, NEW a, CreateAppt(w, v, a) \/ DeleteAppt(w, a) PROVE OrderStep(w)
  <2>1. visitor' = visitor /\ card' = card
    BY <1>3 DEF CreateAppt, DeleteAppt, SaveApptRow, RemoveAppt
  <2>2. Become(w, task[w]) /\ OrderTask(task[w])' /\ task' = task
    BY <1>3, <1>c DEF CreateAppt, DeleteAppt
  <2>3. PICK u : Become(w, u) /\ OrderTask(u)'
    <3>1. PICK u : u = task[w]
      OBVIOUS
    <3> QED BY <2>2, <3>1
  <2> QED BY <2>1, <2>3, QuietOrder DEF SameLending
<1>4. ASSUME NEW v \in Visitors, NEW a \in Appts, CheckOutVisitor(w, v, a) PROVE OrderStep(w)
  <2>1. PICK u : /\ u = [Idle EXCEPT !.op = "CheckOutVisitor", !.pc = "fetchAppt", !.v = v,
                                     !.a = a, !.ve = Found(v, "completado")]
                 /\ Become(w, u)
    BY <1>4 DEF CheckOutVisitor
  <2>2. /\ u.op = "CheckOutVisitor" /\ u.pc = "fetchAppt" /\ u.v = v
        /\ u.ve = Found(v, "completado")
    BY <2>1 DEF Idle
  <2> QED BY <1>4, <1>e, <2>1, <2>2 DEF CheckOutVisitor
<1>5. ASSUME NEW v \in Visitors, NEW a \in Appts, NEW st \in workload.states,
             UpdateVisitor(w, v, a, st)
      PROVE  OrderStep(w)
  <2>1. PICK u : /\ u = [Idle EXCEPT !.op = "UpdateVisitor", !.pc = "fetchAppt", !.v = v,
                                     !.a = a, !.st = st, !.ve = Found(v, visitor[v].state)]
                 /\ Become(w, u)
    BY <1>5 DEF UpdateVisitor, Orderly
  <2>2. /\ u.op = "UpdateVisitor" /\ u.pc = "fetchAppt" /\ u.v = v
        /\ u.ve = Found(v, visitor[v].state)
    BY <2>1 DEF Idle
  <2> QED BY <1>5, <1>e, <2>1, <2>2 DEF UpdateVisitor
<1>6. ASSUME NEW v \in Visitors, SetImage(w, v) PROVE OrderStep(w)
  <2>1. PICK u : /\ u = [Idle EXCEPT !.op = "SetImage", !.pc = "saveVisitor", !.v = v,
                                     !.ve = Found(v, visitor[v].state)]
                 /\ Become(w, u)
    BY <1>6 DEF SetImage
  <2>2. u.op = "SetImage" /\ u.pc = "saveVisitor" /\ u.v = v /\ u.ve = Found(v, visitor[v].state)
    BY <2>1 DEF Idle
  <2> QED BY <1>6, <1>e, <2>1, <2>2 DEF SetImage
<1>7. ASSUME NEW c \in Cards, NEW v \in Visitors, Assign(w, c, v) PROVE OrderStep(w)
  <2>1. Free([Idle EXCEPT !.op = "Assign", !.pc = "asgCard", !.c = c, !.v = v])
    BY DEF Free, Idle
  <2> QED BY <1>7, <1>b, <2>1 DEF Assign
<1>8. ASSUME NEW c \in Cards, Unassign(w, c) \/ RecordLocation(w, c) PROVE OrderStep(w)
  <2>1. /\ Free([Idle EXCEPT !.op = "Unassign", !.pc = "unCard", !.c = c])
        /\ Free([Idle EXCEPT !.op = "RecordLocation", !.pc = "lookup", !.c = c])
    BY DEF Free, Idle
  <2> QED BY <1>8, <1>b, <2>1 DEF Unassign, RecordLocation
<1>9. ASSUME NEW c \in Cards, NEW active, UpdateCard(w, c, active) \/ ReportLocation(w, c)
      PROVE  OrderStep(w)
  <2>0. card[c] \in CardRow
    BY <1>0
  <2>1. ASSUME NEW op \in {"UpdateCard", "ReportLocation"}, NEW e,
               e.holder = card[c].holder, e.issued = card[c].issued, UNCHANGED store,
               Become(w, [Idle EXCEPT !.op = op, !.pc = "saveCard", !.c = c, !.ce = e])
        PROVE  OrderStep(w)
    <3>1. PICK u : u = [Idle EXCEPT !.op = op, !.pc = "saveCard", !.c = c, !.ce = e] /\ Become(w, u)
      BY <2>1
    <3>2. u.op = op /\ u.pc = "saveCard" /\ u.c = c /\ u.ce = e
      BY <3>1 DEF Idle
    <3>3. OrderTask(u)'
      BY <2>1, <3>2 DEF OrderTask, HoldsEntity, store
    <3> QED BY <1>a, <2>1, <3>1, <3>3
  <2>2. CASE UpdateCard(w, c, active)
    <3> DEFINE e == [card[c] EXCEPT !.active = active]
    <3>1. e.holder = card[c].holder /\ e.issued = card[c].issued
      BY <2>0 DEF CardRow
    <3>2. /\ Become(w, [Idle EXCEPT !.op = "UpdateCard", !.pc = "saveCard", !.c = c, !.ce = e])
          /\ UNCHANGED store
      BY <2>2 DEF UpdateCard
    <3> HIDE DEF e
    <3> QED BY <2>1, <3>1, <3>2
  <2>3. CASE ReportLocation(w, c)
    <3> DEFINE e == [card[c] EXCEPT !.locations = MaxLocations]
    <3>1. e.holder = card[c].holder /\ e.issued = card[c].issued
      BY <2>0 DEF CardRow
    <3>2. /\ Become(w, [Idle EXCEPT !.op = "ReportLocation", !.pc = "saveCard", !.c = c,
                                    !.ce = e])
          /\ UNCHANGED store
      BY <2>3 DEF ReportLocation
    <3> HIDE DEF e
    <3> QED BY <2>1, <3>1, <3>2
  <2> QED BY <1>9, <2>2, <2>3
<1>10. ASSUME NEW a \in Appts, CheckIn(w, a) \/ CheckOut(w, a) \/ Cancel(w, a) \/ Archive(w, a)
                               \/ AssignJob(w, a)
       PROVE  OrderStep(w)
  BY <1>10, <1>d DEF CheckIn, CheckOut, Cancel, Archive, AssignJob
<1>11. ASSUME NEW a \in Appts, NEW st, NEW in, NEW out, UpdateAppt(w, a, st, in, out)
       PROVE  OrderStep(w)
  BY <1>11, <1>d DEF UpdateAppt
<1>12. \A a : ~ReleaseJob(w, a)
  BY <1>0 DEF ReleaseJob, Accepts
<1> QED BY <1>1, <1>2, <1>3, <1>4, <1>5, <1>6, <1>7, <1>8, <1>9, <1>10, <1>11, <1>12 DEF Accept

\* Every step of one worker keeps what orderly requests keep.
LEMMA WorkerOrder ==
  ASSUME TypeOK, ReferencesIntact, OrderInv, Orderly, NEW w \in Workers,
         Accept(w) \/ Step(w) \/ Fault(w)
  PROVE  OrderStep(w) /\ OrderInv'
<1>0. /\ workload' = workload /\ task \in [Workers -> TaskOK]
      /\ OrderNow /\ OrderTask(task[w])
      /\ \A u, x \in Workers : ~At(u, "idle") /\ ~At(x, "idle") => u = x
      /\ \A u \in Workers : OrderTask(task[u])
      /\ \A v \in Visitors : Balanced(v) \/ \E x \in Workers : v \in Between(task[x])
  BY WorkloadStays DEF Next, OrderInv, OrderNow, TypeOK, DataOK
<1>1. \A u \in Workers \ {w} : At(u, "idle")
  BY <1>0, AcceptRuns, StepRuns DEF Orderly
<1>2. \A u \in Workers : At(u, "idle") => Between(task[u]) = {}
  BY DEF At, Between
<1>3. \A v \in Visitors : Balanced(v) \/ v \in Between(task[w])
  BY <1>0, <1>1, <1>2
<1>4. OrderStep(w)
  <2>1. CASE Accept(w)
    BY <1>0, <1>2, <1>3, <2>1, AcceptRuns, AcceptOrder
  <2>2. CASE Step(w)
    BY <1>0, <1>3, <2>2, AssignReads, AssignSavesVisitor, AssignSavesCard, UnassignReads,
       UnassignSavesVisitor, UnassignSavesCard, ApptOrder, VisitorOrder, CardOrder DEF Step
  <2>3. CASE Fault(w)
    BY <2>3 DEF Fault, Orderly
  <2> QED BY <2>1, <2>2, <2>3
<1>5. PICK u : /\ Become(w, u) /\ OrderTask(u)'
               /\ \A v \in Visitors : Balanced(v)' \/ v \in Between(u)
  BY <1>4 DEF OrderStep
<1>6. \A x \in Workers : task'[x] = IF x = w THEN u ELSE task[x]
  BY <1>0, <1>5 DEF Become
<1>7. \A x, y \in Workers : ~At(x, "idle")' /\ ~At(y, "idle")' => x = y
  BY <1>1, <1>6 DEF At
<1>8. ASSUME NEW x \in Workers PROVE OrderTask(task[x])'
  <2>1. CASE x = w
    BY <1>5, <1>6, <2>1, ZenonT(60) DEF OrderTask, HoldsEntity, CardFresh, Assignable, Live, CardsOf, CardSeen
  <2>2. CASE x # w
    BY <1>0, <1>1, <1>6, <2>2 DEF OrderTask, HoldsEntity, At
  <2> QED BY <2>1, <2>2
<1>9. \A v \in Visitors : Balanced(v)' \/ \E x \in Workers : v \in Between(task[x])'
  BY <1>5, <1>6 DEF Between
<1>10. OrderInv'
  BY <1>4, <1>7, <1>8, <1>9 DEF OrderInv, OrderStep
<1> QED BY <1>4, <1>10

LEMMA OrderInvStep == TypeOK /\ ReferencesIntact /\ OrderInv /\ [Next]_vars => OrderInv'
<1> SUFFICES ASSUME TypeOK, ReferencesIntact, OrderInv, [Next]_vars PROVE OrderInv'
  OBVIOUS
<1>1. CASE UNCHANGED vars
  BY <1>1 DEF vars, store, OrderInv, Orderly, At, OrderTask, HoldsEntity, CardFresh, Assignable,
     Live, CardsOf, CardSeen, Balanced, Between
<1>2. CASE Next
  <2>1. workload' = workload
    BY <1>2, WorkloadStays
  <2>2. CASE Orderly
    BY <1>2, <2>2, WorkerOrder DEF Next
  <2>3. CASE ~Orderly
    BY <2>1, <2>3 DEF Orderly, OrderInv
  <2> QED BY <2>2, <2>3
<1> QED BY <1>1, <1>2

\* The registrations before the run leave the visits and the cards matched.
LEMMA InitOrder == Init => OrderInv
<1> SUFFICES ASSUME Init PROVE OrderInv
  OBVIOUS
<1>0. PICK lent \in [Known -> Cards \cup {NoCard}], booked \in [Known -> Appts],
           ends \in [Known -> BOOLEAN] : InitWith(lent, booked, ends)
  BY DEF Init
<1>1. ASSUME NEW v \in Visitors PROVE Balanced(v)
  <2>1. ASSUME NEW c \in Cards, card[c].holder = v PROVE v \in Known /\ lent[v] = c
    BY <1>0, <2>1, InitHolders, NoVisitorAssumption
  <2>2. CASE v \notin Known \/ lent[v] = NoCard
    BY <1>0, <2>1, <2>2, NoCardAssumption DEF Balanced, CardsOf, InitWith, Live
  <2>3. CASE v \in Known /\ lent[v] # NoCard
    <3>1. PICK c \in Cards : c = lent[v]
      BY <2>3
    <3> DEFINE lender == {x \in Known : lent[x] = c}
    <3>2. card[c].holder = IF lender = {} THEN NoVisitor ELSE CHOOSE x \in lender : TRUE
      BY <1>0 DEF InitWith
    <3>3. v \in lender /\ \A x \in lender : x = v
      BY <1>0, <2>3, <3>1, NoCardAssumption DEF InitWith
    <3>4. card[c].holder = v
      BY <3>2, <3>3
    <3> QED BY <1>0, <2>3, <3>4 DEF Balanced, CardsOf, InitWith, Live
  <2> QED BY <2>2, <2>3
<1>2. ASSUME NEW c \in Cards PROVE card[c].issued <=> card[c].holder # NoVisitor
  <2> DEFINE lender == {x \in Known : lent[x] = c}
  <2>1. /\ card[c].holder = IF lender = {} THEN NoVisitor ELSE CHOOSE x \in lender : TRUE
        /\ card[c].issued = (lender # {})
    BY <1>0 DEF InitWith
  <2>2. lender # {} => (CHOOSE x \in lender : TRUE) \in Visitors
    BY KnownAssumption
  <2> QED BY <2>1, <2>2, NoVisitorAssumption
<1>3. \A w \in Workers : task[w] = Idle
  BY <1>0 DEF InitWith
<1>4. \A w \in Workers : At(w, "idle") /\ OrderTask(task[w])
  BY <1>3 DEF At, OrderTask, HoldsEntity, Idle
<1>5. \A v \in Visitors : visitor[v].row = "unused" => visitor[v].state = "pendiente"
  BY <1>0 DEF InitWith
<1> QED BY <1>1, <1>2, <1>4, <1>5 DEF OrderInv

\* Requests one after the other: once they are done, exactly the visitors whose
\* visit is in progress hold a card, and exactly the lent cards carry a date.
THEOREM CardsStayMatched == Spec => []CardsMatchVisits
<1>1. OrderInv => CardsMatchVisits
  BY DEF OrderInv, CardsMatchVisits, AtRest, At, Between, Balanced
<1> QED BY <1>1, InitOrder, OrderInvStep, InitReferences, ReferencesStep, TypeCorrect, PTL
        DEF Spec

\* CardLending's Init holds of the registrations before the run.
LEMMA InitLends == Init => Lending!Init
<1> SUFFICES ASSUME Init PROVE Lending!Init
  OBVIOUS
<1>1. \A c \in Cards : card[c].holder \in Visitors \cup {NoVisitor}
  BY InitType DEF TypeOK, DataOK, StoreTypeOK, CardRow
<1>2. \A v \in Visitors : visitor[v].state # "completado"
  BY DEF Init, InitWith
<1>3. ReferencesIntact
  BY InitReferences
<1> QED BY <1>1, <1>2, <1>3 DEF Lending!Init, ReferencesIntact

\* Under orderly requests the service does what CardLending allows and nothing else:
\* it lends a free card to a visitor who is in and has none, and it takes back the
\* card of a visitor who has left.  (That it does take it back is liveness, which
\* the run Lending checks.)
THEOREM LendsAsPromised ==
  ASSUME \A x \in Workloads : x.serial /\ ~x.faults /\ x.states \subseteq {"keep"}
                              /\ "ReleaseJob" \notin x.ops
  PROVE  Spec => Lending!Init /\ [][Lending!Next]_(Lending!vars)
<1>1. TypeOK => Orderly
  BY DEF TypeOK, Orderly
<1>2. TypeOK /\ ReferencesIntact /\ OrderInv /\ [Next]_vars => [Lending!Next]_(Lending!vars)
  <2> SUFFICES ASSUME TypeOK, ReferencesIntact, OrderInv, [Next]_vars
               PROVE  Lending!Next \/ UNCHANGED Lending!vars
    OBVIOUS
  <2>1. CASE UNCHANGED vars
    BY <2>1 DEF vars, store, Lending!vars
  <2>2. ASSUME NEW w \in Workers, Accept(w) \/ Step(w) \/ Fault(w)
        PROVE  Lending!Next \/ UNCHANGED Lending!vars
    BY <1>1, <2>2, WorkerOrder DEF OrderStep
  <2> QED BY <2>1, <2>2 DEF Next
<1> QED BY <1>2, InitLends, InitOrder, OrderInvStep, InitReferences, ReferencesStep, TypeCorrect,
        PTL DEF Spec

=============================================================================
