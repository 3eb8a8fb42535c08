------------------------- MODULE CardReleasesProofs -------------------------
(***************************************************************************)
(* CompletedIsFree holds of the releases for every number of workers,      *)
(* visitors, cards and appointments: ReleaseInv is inductive.              *)
(***************************************************************************)
EXTENDS CardReleases, CardVisitsProofs

\* A worker becomes t: the invariant holds after the step if t fits, the cards'
\* locations stay, every holder after the step was claimed before it, t itself
\* claims nothing new, and t or another worker owes every completed visitor's card.
LEMMA ReleaseStep ==
  ASSUME TypeOK, ReleaseInv, NEW w \in Workers, NEW t, Become(w, t), Fits(t),
         \A c \in Cards : card'[c].locations = card[c].locations,
         \A v \in Visitors, c \in Cards : card'[c].holder = v => Claim(v, c),
         HoldsVisitor(t) => \A c \in Cards : t.ve.card = c => Claim(t.v, c),
         HoldsCard(t) => Claim(t.ce.holder, t.c),
         \A v \in Visitors, c \in Cards :
           card'[c].holder = v /\ visitor'[v].state = "completado" =>
             \/ t.pc \in UnassignPcs /\ t.c = c
             \/ \E x \in Workers \ {w} : Owes(x, c)
  PROVE  ReleaseInv'
<1>1. \A x \in Workers : task'[x] = IF x = w THEN t ELSE task[x]
  BY DEF Become, TypeOK, DataOK
<1>2. (\A x \in Workers : Fits(task[x]))'
  <2> SUFFICES ASSUME NEW x \in Workers PROVE Fits(task[x])'
    OBVIOUS
  <2>1. Fits(task'[x])
    BY <1>1 DEF ReleaseInv
  <2> QED BY <2>1 DEF Fits, HoldsCard, HoldsVisitor, UnassignPcs
<1>3. \A v \in Visitors, c \in Cards : Claim(v, c)' => Claim(v, c)
  <2> SUFFICES ASSUME NEW v \in Visitors, NEW c \in Cards, Claim(v, c)'
               PROVE  Claim(v, c)
    OBVIOUS
  <2>1. CASE card'[c].holder = v
    BY <2>1
  <2>2. ASSUME NEW x \in Workers, HoldsVisitor(task'[x]),
               task'[x].v = v, task'[x].ve.card = c
        PROVE  Claim(v, c)
    BY <1>1, <2>2 DEF Claim
  <2>3. ASSUME NEW x \in Workers, HoldsCard(task'[x]),
               task'[x].ce.holder = v, task'[x].c = c
        PROVE  Claim(v, c)
    BY <1>1, <2>3 DEF Claim
  <2> QED BY <2>1, <2>2, <2>3 DEF Claim, HoldsVisitor, HoldsCard
<1>4. ClaimsAgree'
  BY <1>3 DEF ReleaseInv, ClaimsAgree
<1>5. Owed'
  BY <1>1 DEF Owed, Owes
<1> QED BY <1>2, <1>4, <1>5 DEF ReleaseInv

\* The step writes neither a card nor a visitor's state: only the worker's own
\* claims and debt are left to show.
LEMMA ReadStep ==
  ASSUME TypeOK, ReleaseInv, NEW w \in Workers, NEW t, Become(w, t), Fits(t),
         card' = card,
         \A v \in Visitors : visitor'[v].state = visitor[v].state,
         HoldsVisitor(t) => \A c \in Cards : t.ve.card = c => Claim(t.v, c),
         HoldsCard(t) => Claim(t.ce.holder, t.c),
         task[w].pc \in UnassignPcs /\ card[task[w].c].holder # NoVisitor =>
           t.pc \in UnassignPcs /\ t.c = task[w].c
  PROVE  ReleaseInv'
<1>1. ASSUME NEW v \in Visitors, NEW c \in Cards,
             card'[c].holder = v, visitor'[v].state = "completado"
      PROVE  \/ t.pc \in UnassignPcs /\ t.c = c
             \/ \E x \in Workers \ {w} : Owes(x, c)
  <2>1. PICK x \in Workers : Owes(x, c)
    BY <1>1 DEF ReleaseInv, Owed
  <2>2. card[c].holder # NoVisitor
    BY <1>1, NoVisitorAssumption
  <2> QED BY <2>1, <2>2 DEF Owes
<1>2. \A v \in Visitors, c \in Cards : card'[c].holder = v => Claim(v, c)
  BY DEF Claim
<1> QED BY <1>1, <1>2, ReleaseStep

\* The same for a step that leaves the worker where it is.
LEMMA NoTaskStep ==
  ASSUME TypeOK, ReleaseInv, UNCHANGED task, card' = card,
         \A v \in Visitors : visitor'[v].state = visitor[v].state
  PROVE  ReleaseInv'
BY DEF ReleaseInv, Fits, ClaimsAgree, Owed, Owes, Claim, HoldsVisitor, HoldsCard

\* A release that ends, or goes on to save its appointment, fits and claims nothing.
LEMMA ReturnFits ==
  ASSUME TypeOK, NEW w \in Workers, Fits(task[w]), NEW pc \in {"saveAppt", "idle"},
         pc = "saveAppt" => task[w].op = "CheckOut"
  PROVE  Return(w, pc) => \E t : /\ Become(w, t) /\ Fits(t)
                                 /\ ~HoldsVisitor(t) /\ ~HoldsCard(t)
                                 /\ t.pc \notin UnassignPcs
<1> DEFINE t == IF pc = "idle" THEN Idle
                ELSE [task[w] EXCEPT !.pc = pc, !.c = NoCard, !.ce = NoCardEntity]
<1>1. task[w] \in Task
  BY DEF TypeOK, DataOK, TaskOK
<1>2. t.pc = pc /\ t.op \in {"none", "CheckOut"}
  BY <1>1 DEF Idle, Task
<1>3. /\ ~HoldsVisitor(t) /\ ~HoldsCard(t) /\ t.pc \notin UnassignPcs
      /\ t.pc \in ReleasePcs /\ t.op \in ReleaseOps \cup {"none"}
      /\ t.pc \notin {"fetchAppt", "saveVisitor", "coVisitor"}
  <2> HIDE DEF t
  <2> QED BY <1>2 DEF HoldsVisitor, HoldsCard, UnassignPcs, ReleasePcs, ReleaseOps
<1>4. Fits(t)
  <2> HIDE DEF t
  <2> QED BY <1>3 DEF Fits
<1>5. Return(w, pc) => Become(w, t)
  BY DEF Return
<1> HIDE DEF t
<1> QED BY <1>3, <1>4, <1>5

\* Starting one of the releases keeps the invariant.
LEMMA AcceptReleases ==
  ASSUME TypeOK, ReleaseInv, OnlyReleases, NEW w \in Workers, Accept(w)
  PROVE  ReleaseInv'
<1>1. Fits(task[w])
  BY DEF ReleaseInv
<1>2. UNCHANGED store => /\ card' = card
                         /\ \A v \in Visitors : visitor'[v].state = visitor[v].state
  BY DEF store
<1>3. Idle.pc = "idle" /\ \A op : Accepts(w, op) => task[w].pc = "idle" /\ op \in ReleaseOps
  BY DEF Accepts, At, Idle, OnlyReleases, TypeOK
<1>4. "idle" \notin UnassignPcs
  BY DEF UnassignPcs
<1>a. ASSUME NEW op \in ReleaseOps, NEW pc \in {"saveAppt", "coVisitor"},
             op # "CheckOutVisitor", pc = "coVisitor" => op = "CheckOut",
             NEW a, NEW e, TakeAppt(w, op, pc, a, e)
      PROVE  ReleaseInv'
  <2> DEFINE t == [Idle EXCEPT !.op = op, !.pc = pc, !.v = appt[a].visitor,
                               !.a = a, !.ae = e]
  <2>1. t.pc = pc /\ t.op = op
    BY DEF Idle
  <2>2. Become(w, t) /\ UNCHANGED store /\ task[w].pc = "idle"
    BY <1>a, <1>3 DEF TakeAppt
  <2> HIDE DEF t
  <2>3. ~HoldsVisitor(t) /\ ~HoldsCard(t) /\ t.pc \notin UnassignPcs
    BY <1>a, <2>1 DEF HoldsVisitor, HoldsCard, UnassignPcs
  <2>4. Fits(t)
    BY <1>a, <2>1, <2>3 DEF Fits, ReleasePcs
  <2> QED BY <1>2, <1>4, <2>2, <2>3, <2>4, ReadStep
<1>5. ASSUME NEW v \in Visitors, NEW a \in Appts, CheckOutVisitor(w, v, a)
      PROVE  ReleaseInv'
  <2> DEFINE t == [Idle EXCEPT !.op = "CheckOutVisitor", !.pc = "fetchAppt", !.v = v,
                               !.a = a, !.ve = Found(v, "completado")]
  <2>1. /\ t.pc = "fetchAppt" /\ t.op = "CheckOutVisitor" /\ t.v = v
        /\ t.ve.state = "completado" /\ t.ve.card = CardSeen(v)
    BY DEF Idle, Found
  <2>2. Become(w, t) /\ UNCHANGED store /\ task[w].pc = "idle"
    BY <1>5, <1>3 DEF CheckOutVisitor
  <2> HIDE DEF t
  <2>3. ~HoldsCard(t) /\ t.pc \notin UnassignPcs
    BY <2>1 DEF HoldsCard, UnassignPcs
  <2>4. Fits(t)
    BY <2>1, <2>3, CardSeenType DEF Fits, ReleasePcs, ReleaseOps
  <2>5. \A c \in Cards : t.ve.card = c => Claim(t.v, c)
    BY <2>1, CardSeenType, NoCardAssumption DEF Claim
  <2> QED BY <1>2, <1>4, <2>2, <2>3, <2>4, <2>5, ReadStep
<1>6. ASSUME NEW c \in Cards, Unassign(w, c) PROVE ReleaseInv'
  <2> DEFINE t == [Idle EXCEPT !.op = "Unassign", !.pc = "unCard", !.c = c]
  <2>1. t.pc = "unCard" /\ t.op = "Unassign" /\ t.c = c
    BY DEF Idle
  <2>2. Become(w, t) /\ UNCHANGED store /\ task[w].pc = "idle"
    BY <1>6, <1>3 DEF Unassign
  <2> HIDE DEF t
  <2>3. ~HoldsCard(t) /\ ~HoldsVisitor(t)
    BY <2>1 DEF HoldsCard, HoldsVisitor
  <2>4. Fits(t)
    BY <2>1, <2>3 DEF Fits, ReleasePcs, ReleaseOps, UnassignPcs
  <2> QED BY <1>2, <1>4, <2>2, <2>3, <2>4, ReadStep
<1>7. ASSUME NEW a \in Appts, NEW st, NEW in, NEW out, UpdateAppt(w, a, st, in, out)
      PROVE  ReleaseInv'
  BY <1>7, <1>a DEF UpdateAppt, ReleaseOps
<1>8. ASSUME NEW a \in Appts, CheckOut(w, a) PROVE ReleaseInv'
  BY <1>8, <1>a DEF CheckOut, ReleaseOps
<1>9. ASSUME NEW a \in Appts, Cancel(w, a) PROVE ReleaseInv'
  BY <1>9, <1>a DEF Cancel, ReleaseOps
<1>10. ASSUME NEW v \in Visitors, DeleteVisitor(w, v) PROVE ReleaseInv'
  <2>1. \A u \in Visitors : visitor'[u].state = visitor[u].state
    BY <1>10 DEF DeleteVisitor, RemoveVisitor, TypeOK, DataOK, StoreTypeOK, VisitorRow
  <2> QED BY <1>10, <2>1, NoTaskStep DEF DeleteVisitor, RemoveVisitor
<1>11. ASSUME NEW v \in Visitors, NEW a \in Appts, CreateAppt(w, v, a) PROVE ReleaseInv'
  BY <1>11, NoTaskStep DEF CreateAppt, SaveApptRow
<1>12. ASSUME NEW a \in Appts, DeleteAppt(w, a) PROVE ReleaseInv'
  BY <1>12, NoTaskStep DEF DeleteAppt, RemoveAppt
<1>13. \A op \in {"Register", "UpdateVisitor", "SetImage", "CheckIn", "Assign",
                  "UpdateCard", "RecordLocation", "ReportLocation", "AssignJob",
                  "ReleaseJob", "Archive"} : ~Accepts(w, op)
  BY <1>3 DEF ReleaseOps
<1> QED
  <2>1. \A v \in Visitors, a \in Appts, ends \in BOOLEAN : ~Register(w, v, a, ends)
    BY <1>13 DEF Register
  <2>2. /\ \A v \in Visitors, a \in Appts, st \in workload.states : ~UpdateVisitor(w, v, a, st)
        /\ \A v \in Visitors : ~SetImage(w, v)
    BY <1>13 DEF UpdateVisitor, SetImage
  <2>3. \A a \in Appts : ~CheckIn(w, a) /\ ~AssignJob(w, a) /\ ~ReleaseJob(w, a) /\ ~Archive(w, a)
    BY <1>13 DEF CheckIn, AssignJob, ReleaseJob, Archive, TakeAppt
  <2>4. \A c \in Cards :
          /\ ~RecordLocation(w, c) /\ ~ReportLocation(w, c)
          /\ \A v \in Visitors : ~Assign(w, c, v)
          /\ \A active \in BOOLEAN : ~UpdateCard(w, c, active)
    BY <1>13 DEF RecordLocation, ReportLocation, Assign, UpdateCard
  <2> QED BY <1>5, <1>6, <1>7, <1>8, <1>9, <1>10, <1>11, <1>12, <2>1, <2>2, <2>3, <2>4
          DEF Accept

\* An exception ends a release, or sends it on to save its appointment.
LEMMA ThrowFits ==
  ASSUME TypeOK, NEW w \in Workers, Fits(task[w]), Throw(w)
  PROVE  \E t : /\ Become(w, t) /\ Fits(t)
                /\ ~HoldsVisitor(t) /\ ~HoldsCard(t) /\ t.pc \notin UnassignPcs
<1>1. Caught(task[w]) \in {"saveAppt", "idle"}
  BY DEF Caught
<1>2. Caught(task[w]) = "saveAppt" => task[w].op = "CheckOut"
  BY DEF Caught, Fits, ReleaseOps
<1>3. Return(w, Caught(task[w]))
  BY DEF Throw
<1> HIDE DEF Caught
<1> QED BY <1>1, <1>2, <1>3, ReturnFits

\* An exception that leaves no lent card behind keeps the invariant.
LEMMA ThrowStep ==
  ASSUME TypeOK, ReleaseInv, NEW w \in Workers, Throw(w), UNCHANGED store,
         task[w].pc \in UnassignPcs => card[task[w].c].holder = NoVisitor
  PROVE  ReleaseInv'
<1>1. Fits(task[w])
  BY DEF ReleaseInv
<1>2. PICK t : /\ Become(w, t) /\ Fits(t)
               /\ ~HoldsVisitor(t) /\ ~HoldsCard(t) /\ t.pc \notin UnassignPcs
  BY <1>1, ThrowFits
<1>3. card' = card /\ \A v \in Visitors : visitor'[v].state = visitor[v].state
  BY DEF store
<1> QED BY <1>2, <1>3, ReadStep

\* The awaits of the releases keep the invariant.
LEMMA StepReleases ==
  ASSUME TypeOK, ReleaseInv, NEW w \in Workers, Step(w)
  PROVE  ReleaseInv'
<1> DEFINE t == task[w]
<1>0. /\ Fits(t) /\ t \in Task /\ StoreTypeOK
      /\ task \in [Workers -> TaskOK]
  BY DEF ReleaseInv, TypeOK, DataOK, TaskOK
<1>a. UNCHANGED store => /\ card' = card
                         /\ \A v \in Visitors : visitor'[v].state = visitor[v].state
  BY DEF store
<1>b. t.pc \in ReleasePcs
  BY <1>0 DEF Fits
<1>c. HoldsVisitor(t) => \A c \in Cards : t.ve.card = c => Claim(t.v, c)
  BY DEF Claim
<1>d. HoldsCard(t) => Claim(t.ce.holder, t.c)
  BY DEF Claim
<1> HIDE DEF t
<1>1. CASE UnassignReadCard(w)
  <2>1. t.pc = "unCard" /\ UNCHANGED store
    BY <1>1 DEF UnassignReadCard, At, t
  <2>2. t.c \in Cards
    BY <1>0, <2>1 DEF Fits, UnassignPcs
  <2>3. CASE card[t.c].holder = NoVisitor
    BY <1>1, <2>1, <2>3, ThrowStep DEF UnassignReadCard, t
  <2>4. CASE card[t.c].holder # NoVisitor
    <3> DEFINE t2 == [t EXCEPT !.pc = "unVisitor", !.ce = card[t.c]]
    <3>1. /\ t2.pc = "unVisitor" /\ t2.op = t.op /\ t2.c = t.c /\ t2.ce = card[t.c]
      BY <1>0 DEF Task
    <3>2. Become(w, t2)
      BY <1>1, <2>4 DEF UnassignReadCard, t
    <3> HIDE DEF t2
    <3>3. card[t.c].holder \in Visitors
      BY <1>0, <2>2, <2>4 DEF StoreTypeOK, CardRow
    <3>4. HoldsCard(t2) /\ ~HoldsVisitor(t2)
      BY <3>1 DEF HoldsCard, HoldsVisitor
    <3>5. Fits(t2)
      BY <1>0, <2>2, <3>1, <3>3, <3>4 DEF Fits, ReleasePcs, UnassignPcs
    <3>6. Claim(t2.ce.holder, t2.c) /\ t2.pc \in UnassignPcs
      BY <3>1 DEF Claim, UnassignPcs
    <3> QED BY <1>a, <2>1, <3>1, <3>2, <3>4, <3>5, <3>6, ReadStep DEF t
  <2> QED BY <2>3, <2>4
<1>e. ASSUME NEW pc \in {"unSaveVisitor", "unSaveCard"}, HoldsCard(t), Goto(w, pc)
      PROVE  LET t2 == [t EXCEPT !.pc = pc]
             IN  /\ Become(w, t2) /\ Fits(t2) /\ ~HoldsVisitor(t2)
                 /\ HoldsCard(t2) /\ Claim(t2.ce.holder, t2.c)
                 /\ t2.pc \in UnassignPcs /\ t2.c = t.c
  <2> DEFINE t2 == [t EXCEPT !.pc = pc]
  <2>1. /\ t2.pc = pc /\ t2.op = t.op /\ t2.c = t.c /\ t2.ce = t.ce
    BY <1>0 DEF Task
  <2>2. Become(w, t2)
    BY <1>e DEF Goto, t
  <2>3. t.c \in Cards
    BY <1>0, <1>e DEF Fits, HoldsCard, UnassignPcs
  <2> HIDE DEF t2
  <2>4. HoldsCard(t2) /\ ~HoldsVisitor(t2) /\ t2.pc \in UnassignPcs
    BY <2>1 DEF HoldsCard, HoldsVisitor, UnassignPcs
  <2>5. Fits(t2)
    BY <1>0, <1>e, <2>1, <2>3, <2>4 DEF Fits, ReleasePcs, UnassignPcs
  <2>6. Claim(t2.ce.holder, t2.c)
    BY <1>d, <1>e, <2>1
  <2> QED BY <2>1, <2>2, <2>4, <2>5, <2>6 DEF t2
<1>2. CASE UnassignReadVisitor(w)
  <2>1. t.pc = "unVisitor" /\ UNCHANGED store /\ HoldsCard(t)
    BY <1>2 DEF UnassignReadVisitor, At, HoldsCard, t
  <2>2. PICK pc \in {"unSaveVisitor", "unSaveCard"} : Goto(w, pc)
    BY <1>2 DEF UnassignReadVisitor
  <2> QED BY <1>a, <1>e, <2>1, <2>2, ReadStep DEF t
<1>3. CASE UnassignSaveVisitor(w)
  <2>1. t.pc = "unSaveVisitor" /\ HoldsCard(t) /\ Goto(w, "unSaveCard")
    BY <1>3 DEF UnassignSaveVisitor, At, HoldsCard, t
  <2>2. t.ce.holder \in Visitors /\ t.c \in Cards
    BY <1>0, <2>1 DEF Fits, HoldsCard, UnassignPcs
  <2>3. /\ \A v \in Visitors : v # t.ce.holder => visitor'[v] = visitor[v]
        /\ \A c \in Cards : card'[c] = card[c]
    <3>1. SaveVisitor(t.ce.holder, [state |-> "completado", card |-> NotLoaded,
                                    appts |-> Appts])
      BY <1>3 DEF UnassignSaveVisitor, t
    <3> QED BY <1>0, <2>2, <3>1 DEF SaveVisitor, CardsAligned, StoreTypeOK, CardRow
  <2> DEFINE t2 == [t EXCEPT !.pc = "unSaveCard"]
  <2>4. /\ Become(w, t2) /\ Fits(t2) /\ ~HoldsVisitor(t2)
        /\ HoldsCard(t2) /\ Claim(t2.ce.holder, t2.c)
        /\ t2.pc \in UnassignPcs /\ t2.c = t.c
    BY <1>e, <2>1
  <2> HIDE DEF t2
  <2>5. \A v \in Visitors, c \in Cards : card'[c].holder = v => Claim(v, c)
    BY <2>3 DEF Claim
  <2>6. ASSUME NEW v \in Visitors, NEW c \in Cards,
               card'[c].holder = v, visitor'[v].state = "completado"
        PROVE  \/ t2.pc \in UnassignPcs /\ t2.c = c
               \/ \E x \in Workers \ {w} : Owes(x, c)
    <3>1. Claim(v, c)
      BY <2>5, <2>6
    <3>2. CASE v = t.ce.holder
      <4>1. Claim(v, t.c)
        BY <1>d, <2>1, <3>2
      <4> QED BY <2>2, <2>4, <3>1, <4>1 DEF ReleaseInv, ClaimsAgree
    <3>3. CASE v # t.ce.holder
      <4>1. PICK x \in Workers : Owes(x, c)
        BY <2>3, <2>6, <3>3 DEF ReleaseInv, Owed
      <4> QED BY <2>4, <4>1 DEF Owes, t
    <3> QED BY <3>2, <3>3
  <2> QED BY <2>3, <2>4, <2>5, <2>6, ReleaseStep
<1>4. CASE UnassignSaveCard(w)
  <2> DEFINE e == [t.ce EXCEPT !.holder = NoVisitor, !.issued = FALSE]
  <2>1. t.pc = "unSaveCard" /\ HoldsCard(t)
    BY <1>4 DEF UnassignSaveCard, At, HoldsCard, t
  <2>2. t.c \in Cards /\ card[t.c].locations \in Nat
    BY <1>0, <2>1 DEF Fits, HoldsCard, UnassignPcs, StoreTypeOK, CardRow
  <2>3. e.holder = NoVisitor /\ e.locations = card[t.c].locations
    BY <1>0, <2>1 DEF Fits, Task, CardRow
  <2>4. SaveCard(t.c, e) /\ Return(w, AfterUnassign(t))
    <3>1. ~CardSaveThrows(t.c, e)
      <4> HIDE DEF e
      <4> QED BY <2>2, <2>3 DEF CardSaveThrows, HolderTaken, HolderMissing
    <3> QED BY <1>4, <3>1 DEF UnassignSaveCard, t
  <2>5. /\ card'[t.c].holder = NoVisitor /\ card'[t.c].locations = card[t.c].locations
        /\ \A c \in Cards : c # t.c => card'[c] = card[c]
        /\ visitor' = visitor
    <3>1. card' = [card EXCEPT ![t.c] = [e EXCEPT !.locations = card[t.c].locations]]
      BY <2>4 DEF SaveCard
    <3>2. [e EXCEPT !.locations = card[t.c].locations].holder = NoVisitor
      BY <1>0 DEF Task, CardRow
    <3>3. [e EXCEPT !.locations = card[t.c].locations].locations = card[t.c].locations
      BY <1>0 DEF Task, CardRow
    <3> HIDE DEF e
    <3> QED BY <1>0, <2>2, <2>4, <3>1, <3>2, <3>3 DEF SaveCard, StoreTypeOK
  <2>6. AfterUnassign(t) \in {"saveAppt", "idle"}
        /\ (AfterUnassign(t) = "saveAppt" => t.op = "CheckOut")
    BY <1>0 DEF AfterUnassign, Fits, ReleaseOps
  <2>7. PICK t2 : /\ Become(w, t2) /\ Fits(t2)
                  /\ ~HoldsVisitor(t2) /\ ~HoldsCard(t2) /\ t2.pc \notin UnassignPcs
    BY <1>0, <2>4, <2>6, ReturnFits DEF t
  <2>8. \A v \in Visitors, c \in Cards : card'[c].holder = v => Claim(v, c)
    BY <2>5, NoVisitorAssumption DEF Claim
  <2>9. ASSUME NEW v \in Visitors, NEW c \in Cards,
               card'[c].holder = v, visitor'[v].state = "completado"
        PROVE  \E x \in Workers \ {w} : Owes(x, c)
    <3>1. c # t.c /\ card[c].holder = v /\ visitor[v].state = "completado"
      BY <2>5, <2>9, NoVisitorAssumption
    <3>2. PICK x \in Workers : Owes(x, c)
      BY <3>1 DEF ReleaseInv, Owed
    <3> QED BY <3>1, <3>2 DEF Owes, t
  <2>10. \A c \in Cards : card'[c].locations = card[c].locations
    BY <2>5
  <2> QED BY <2>7, <2>8, <2>9, <2>10, ReleaseStep
<1>5. CASE SaveAppt(w)
  <2>1. t.pc = "saveAppt" /\ t.op # "Register" /\ t.op # "ReleaseJob"
    BY <1>5, <1>0 DEF SaveAppt, At, Fits, ReleaseOps, t
  <2>2. t.pc \notin UnassignPcs
    BY <2>1 DEF UnassignPcs
  <2>3. Throw(w) /\ UNCHANGED store => ReleaseInv'
    BY <2>2, ThrowStep DEF t
  <2>4. CASE t.op = "CheckOutVisitor" /\ SaveApptRow(t.a, t.ae)
             /\ Become(w, [t EXCEPT !.pc = "saveVisitor", !.a = NoAppt, !.ae = UnusedAppt])
    <3> DEFINE t2 == [t EXCEPT !.pc = "saveVisitor", !.a = NoAppt, !.ae = UnusedAppt]
    <3>1. t2.pc = "saveVisitor" /\ t2.op = t.op /\ t2.v = t.v /\ t2.ve = t.ve
      BY <1>0 DEF Task
    <3>2. Become(w, t2) /\ card' = card /\ visitor' = visitor
      BY <2>4 DEF SaveApptRow
    <3> HIDE DEF t2
    <3>3. HoldsVisitor(t) /\ HoldsVisitor(t2) /\ ~HoldsCard(t2)
      BY <2>1, <2>4, <3>1 DEF HoldsVisitor, HoldsCard
    <3>4. Fits(t2)
      BY <1>0, <2>4, <3>1, <3>3 DEF Fits, ReleasePcs, UnassignPcs
    <3> QED BY <1>c, <2>2, <3>1, <3>2, <3>3, <3>4, ReadStep DEF t
  <2>5. CASE SaveApptRow(t.a, t.ae) /\ Become(w, Idle)
    <3>1. Idle.pc = "idle" /\ Idle.op = "none"
      BY DEF Idle
    <3>2. ~HoldsVisitor(Idle) /\ ~HoldsCard(Idle) /\ Fits(Idle)
      BY <3>1 DEF Fits, HoldsVisitor, HoldsCard, ReleasePcs, UnassignPcs
    <3> QED BY <2>2, <2>5, <3>2, ReadStep DEF SaveApptRow, t
  <2> QED BY <1>5, <2>1, <2>3, <2>4, <2>5 DEF SaveAppt, t
<1>6. CASE FetchAppt(w)
  <2>1. t.pc = "fetchAppt" /\ t.op = "CheckOutVisitor" /\ UNCHANGED store
    BY <1>6, <1>0 DEF FetchAppt, At, Fits, t
  <2>2. t.pc \notin UnassignPcs
    BY <2>1 DEF UnassignPcs
  <2>3. CASE Throw(w)
    BY <2>1, <2>2, <2>3, ThrowStep DEF t
  <2>4. ASSUME NEW ae, Become(w, [t EXCEPT !.pc = "saveAppt", !.ae = ae])
        PROVE  ReleaseInv'
    <3> DEFINE t2 == [t EXCEPT !.pc = "saveAppt", !.ae = ae]
    <3>1. t2.pc = "saveAppt" /\ t2.op = t.op /\ t2.v = t.v /\ t2.ve = t.ve
      BY <1>0 DEF Task
    <3>2. Become(w, t2)
      BY <2>4
    <3> HIDE DEF t2
    <3>3. HoldsVisitor(t) /\ HoldsVisitor(t2) /\ ~HoldsCard(t2)
      BY <2>1, <3>1 DEF HoldsVisitor, HoldsCard
    <3>4. Fits(t2)
      BY <1>0, <2>1, <3>1, <3>3 DEF Fits, ReleasePcs, UnassignPcs
    <3> QED BY <1>a, <1>c, <2>1, <2>2, <3>1, <3>2, <3>3, <3>4, ReadStep DEF t
  <2> QED BY <1>6, <2>1, <2>3, <2>4 DEF FetchAppt, t
<1>7. CASE CheckOutReadVisitor(w)
  <2>1. t.pc = "coVisitor" /\ t.op = "CheckOut" /\ UNCHANGED store
    BY <1>7, <1>0 DEF CheckOutReadVisitor, At, Fits, t
  <2>2. t.pc \notin UnassignPcs
    BY <2>1 DEF UnassignPcs
  <2>3. CASE CardsOf(t.v) # {} /\ Become(w, [t EXCEPT !.pc = "unCard", !.c = CardSeen(t.v)])
    <3> DEFINE t2 == [t EXCEPT !.pc = "unCard", !.c = CardSeen(t.v)]
    <3>1. t2.pc = "unCard" /\ t2.op = "CheckOut" /\ t2.c \in Cards
      BY <1>0, <2>1, <2>3, CardSeenType DEF Task
    <3> HIDE DEF t2
    <3>2. ~HoldsVisitor(t2) /\ ~HoldsCard(t2)
      BY <3>1 DEF HoldsVisitor, HoldsCard
    <3>3. Fits(t2)
      BY <3>1, <3>2 DEF Fits, ReleasePcs, ReleaseOps, UnassignPcs
    <3>4. Become(w, t2)
      BY <2>3 DEF t2
    <3> QED BY <1>a, <2>1, <2>2, <3>2, <3>3, <3>4, ReadStep DEF t
  <2>4. CASE Goto(w, "saveAppt")
    <3> DEFINE t2 == [t EXCEPT !.pc = "saveAppt"]
    <3>1. t2.pc = "saveAppt" /\ t2.op = "CheckOut"
      BY <1>0, <2>1 DEF Task
    <3>2. Become(w, t2)
      BY <2>4 DEF Goto, t
    <3> HIDE DEF t2
    <3>3. ~HoldsVisitor(t2) /\ ~HoldsCard(t2)
      BY <3>1 DEF HoldsVisitor, HoldsCard
    <3>4. Fits(t2)
      BY <3>1, <3>3 DEF Fits, ReleasePcs, ReleaseOps, UnassignPcs
    <3> QED BY <1>a, <2>1, <2>2, <3>2, <3>3, <3>4, ReadStep DEF t
  <2> QED BY <1>7, <2>3, <2>4 DEF CheckOutReadVisitor, t
<1>8. CASE SaveVisitorEntity(w)
  <2>1. t.pc = "saveVisitor" /\ t.op = "CheckOutVisitor" /\ HoldsVisitor(t)
    BY <1>8, <1>0 DEF SaveVisitorEntity, At, Fits, HoldsVisitor, t
  <2>2. /\ t.pc \notin UnassignPcs /\ t.v \in Visitors
        /\ t.ve.card \in Cards \cup {NoCard} /\ t.ve.state = "completado"
    BY <1>0, <2>1 DEF Fits, UnassignPcs
  <2>3. CASE Throw(w) /\ UNCHANGED store
    BY <2>2, <2>3, ThrowStep DEF t
  <2>4. CASE /\ SaveVisitor(t.v, t.ve)
             /\ \/ t.ve.card \in Cards /\ Become(w, [t EXCEPT !.pc = "unCard",
                                            !.c = t.ve.card, !.ve = NoVisitorEntity])
                \/ t.ve.card \notin Cards /\ Become(w, Idle)
    <3>1. /\ \A v \in Visitors : v # t.v => visitor'[v] = visitor[v]
          /\ card' = CardsAligned(t.v, t.ve.card)
      BY <1>0, <2>2, <2>4 DEF SaveVisitor, StoreTypeOK
    <3>2. \A c \in Cards : /\ card'[c].locations = card[c].locations
                           /\ card'[c].holder = IF c = t.ve.card THEN t.v
                                                ELSE IF card[c].holder = t.v THEN NoVisitor
                                                ELSE card[c].holder
      BY <1>0, <2>2, <3>1, NoCardAssumption DEF CardsAligned, StoreTypeOK, CardRow
    <3>3. \A v \in Visitors, c \in Cards : card'[c].holder = v => Claim(v, c)
      BY <1>c, <2>1, <3>2, NoVisitorAssumption DEF Claim
    <3>4. \A v \in Visitors, c \in Cards :
            card'[c].holder = v /\ visitor'[v].state = "completado" =>
              c = t.ve.card \/ \E x \in Workers \ {w} : Owes(x, c)
      <4> SUFFICES ASSUME NEW v \in Visitors, NEW c \in Cards, c # t.ve.card,
                          card'[c].holder = v, visitor'[v].state = "completado"
                   PROVE  \E x \in Workers \ {w} : Owes(x, c)
        OBVIOUS
      <4>1. v # t.v /\ card[c].holder = v /\ visitor[v].state = "completado"
        BY <3>1, <3>2, NoVisitorAssumption
      <4>2. PICK x \in Workers : Owes(x, c)
        BY <4>1 DEF ReleaseInv, Owed
      <4> QED BY <2>2, <4>2 DEF Owes, t
    <3>5. CASE t.ve.card \in Cards /\ Become(w, [t EXCEPT !.pc = "unCard",
                                           !.c = t.ve.card, !.ve = NoVisitorEntity])
      <4> DEFINE t2 == [t EXCEPT !.pc = "unCard", !.c = t.ve.card, !.ve = NoVisitorEntity]
      <4>1. t2.pc = "unCard" /\ t2.op = "CheckOutVisitor" /\ t2.c = t.ve.card
        BY <1>0, <2>1 DEF Task
      <4>2. Become(w, t2)
        BY <3>5
      <4> HIDE DEF t2
      <4>3. ~HoldsVisitor(t2) /\ ~HoldsCard(t2) /\ t2.pc \in UnassignPcs
        BY <4>1 DEF HoldsVisitor, HoldsCard, UnassignPcs
      <4>4. Fits(t2)
        BY <3>5, <4>1, <4>3 DEF Fits, ReleasePcs, ReleaseOps
      <4> QED BY <3>2, <3>3, <3>4, <4>1, <4>2, <4>3, <4>4, ReleaseStep
    <3>6. CASE t.ve.card \notin Cards /\ Become(w, Idle)
      <4>1. Idle.pc = "idle" /\ Idle.op = "none"
        BY DEF Idle
      <4>2. ~HoldsVisitor(Idle) /\ ~HoldsCard(Idle) /\ Fits(Idle)
        BY <4>1 DEF Fits, HoldsVisitor, HoldsCard, ReleasePcs, UnassignPcs
      <4> QED BY <3>2, <3>3, <3>4, <3>6, <4>2, ReleaseStep
    <3> QED BY <2>4, <3>5, <3>6
  <2> QED BY <1>8, <2>1, <2>3, <2>4 DEF SaveVisitorEntity, t
<1>9. /\ ~FindCards(w) /\ ~AssignReadCard(w) /\ ~AssignReadVisitor(w)
      /\ ~AssignSaveVisitor(w) /\ ~AssignSaveCard(w) /\ ~SaveCardEntity(w)
      /\ ~CheckInReadVisitor(w) /\ ~RecordLookup(w) /\ ~RecordSaveCard(w) /\ ~RecordInsert(w)
  <2>1. \A pc \in {"findCards", "asgCard", "asgVisitor", "asgSaveVisitor", "asgSaveCard",
                   "saveCard", "ciVisitor", "lookup", "recSaveCard", "insertLocation"} :
          ~At(w, pc)
    BY <1>b DEF At, ReleasePcs, UnassignPcs, t
  <2> QED BY <2>1 DEF FindCards, AssignReadCard, AssignReadVisitor, AssignSaveVisitor,
                      AssignSaveCard, SaveCardEntity, CheckInReadVisitor, RecordLookup,
                      RecordSaveCard, RecordInsert
<1> QED BY <1>1, <1>2, <1>3, <1>4, <1>5, <1>6, <1>7, <1>8, <1>9 DEF Step

\* Before the first release nobody has left and each card is held by its borrower.
LEMMA InitReleases == Init => ReleaseInv
<1> SUFFICES ASSUME Init PROVE ReleaseInv
  OBVIOUS
<1>1. PICK lent \in [Known -> Cards \cup {NoCard}], booked \in [Known -> Appts],
           ends \in [Known -> BOOLEAN] : InitWith(lent, booked, ends)
  BY DEF Init
<1>2. \A w \in Workers : task[w] = Idle
  BY <1>1 DEF InitWith
<1>3. Idle.pc = "idle" /\ Idle.op = "none"
  BY DEF Idle
<1>4. ~HoldsVisitor(Idle) /\ ~HoldsCard(Idle) /\ Fits(Idle)
  BY <1>3 DEF Fits, HoldsVisitor, HoldsCard, ReleasePcs, UnassignPcs
<1>5. ASSUME NEW v \in Visitors, NEW c \in Cards, Claim(v, c)
      PROVE  v \in Known /\ lent[v] = c
  <2> DEFINE lender == {u \in Known : lent[u] = c}
  <2>1. card[c].holder = v
    BY <1>2, <1>4, <1>5 DEF Claim
  <2>2. card[c].holder = IF lender = {} THEN NoVisitor ELSE CHOOSE u \in lender : TRUE
    BY <1>1 DEF InitWith
  <2> QED BY <2>1, <2>2, NoVisitorAssumption
<1>6. ClaimsAgree
  <2>1. \A u, v \in Known : u # v => (lent[u] = lent[v] => lent[u] = NoCard)
    BY <1>1 DEF InitWith
  <2> QED BY <1>5, <2>1, NoCardAssumption DEF ClaimsAgree
<1>7. Owed
  <2>1. \A v \in Visitors : visitor[v].state # "completado"
    BY <1>1 DEF InitWith
  <2> QED BY <2>1 DEF Owed
<1> QED BY <1>2, <1>4, <1>6, <1>7 DEF ReleaseInv

\* Every step of a release keeps the invariant, as long as nothing else runs and no
\* database call fails.
LEMMA NextReleases ==
  ASSUME OnlyReleases
  PROVE  TypeOK /\ ReleaseInv /\ [Next]_vars => ReleaseInv'
<1> SUFFICES ASSUME TypeOK, ReleaseInv, [Next]_vars PROVE ReleaseInv'
  OBVIOUS
<1>1. CASE UNCHANGED vars
  BY <1>1, NoTaskStep DEF vars, store
<1>2. \A w \in Workers : ~Fault(w)
  BY DEF Fault, OnlyReleases, TypeOK
<1> QED BY <1>1, <1>2, AcceptReleases, StepReleases DEF Next

\* However the ways to end a visit interleave, the call chains keep agreeing about
\* who holds which card, and somebody is about to free a completed visitor's card.
THEOREM ReleasesAgree ==
  ASSUME OnlyReleases
  PROVE  Spec => []ReleaseInv
<1>1. Init => ReleaseInv
  BY InitReleases
<1>2. TypeOK /\ ReleaseInv /\ [Next]_vars => ReleaseInv'
  BY NextReleases
<1> QED BY <1>1, <1>2, TypeCorrect, PTL DEF Spec

\* Hence once no release runs, nobody who has checked out holds a card: CompletedIsFree
\* for every number of concurrent check-outs, visitor check-outs and unassignments.
THEOREM CompletedGivesBack ==
  ASSUME OnlyReleases
  PROVE  Spec => []CompletedIsFree
<1>1. TypeOK /\ ReleaseInv => CompletedIsFree
  <2> SUFFICES ASSUME TypeOK, ReleaseInv, AtRest, NEW v \in Visitors,
                      visitor[v].state = "completado", NEW c \in Cards, card[c].holder = v
               PROVE  FALSE
    BY DEF CompletedIsFree, CardsOf
  <2>1. PICK w \in Workers : task[w].pc \in UnassignPcs
    BY DEF ReleaseInv, Owed, Owes
  <2> QED BY <2>1 DEF AtRest, At, UnassignPcs
<1> QED BY <1>1, ReleasesAgree, TypeCorrect, PTL
=============================================================================
