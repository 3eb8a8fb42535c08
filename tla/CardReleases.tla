---------------------------- MODULE CardReleases ----------------------------
(***************************************************************************)
(* Why the ways to end a visit - POST appointments/:id/check-out, the      *)
(* visitor check-out and POST cards/:id/unassign - may race each other and *)
(* still leave no completed visitor with a card: the inductive invariant   *)
(* behind CompletedIsFree.                                                 *)
(*                                                                         *)
(* A check-out saves the visitor it read some awaits before and so may     *)
(* bind again the card that another check-out has just freed.  That is     *)
(* harmless as long as nobody assigns cards meanwhile, because the worker  *)
(* that bound it goes on to unassign it.                                   *)
(***************************************************************************)
EXTENDS CardVisits

\* The operations that assign no card and write no stale card or visitor
\* except through a check-out.
ReleaseOps == {"CheckOut", "CheckOutVisitor", "Unassign", "UpdateAppt", "Cancel",
               "CreateAppt", "DeleteAppt", "DeleteVisitor"}

\* Nothing but releases runs, and no database call fails.
OnlyReleases == \A l \in Workloads : l.ops \subseteq ReleaseOps /\ l.faults = FALSE

ReleasePcs == UnassignPcs \cup {"idle", "coVisitor", "fetchAppt", "saveAppt", "saveVisitor"}

\* Task t refers to a visitor it will save, or to a card it will save.
HoldsVisitor(t) ==
  t.op = "CheckOutVisitor" /\ t.pc \in {"fetchAppt", "saveAppt", "saveVisitor"}

HoldsCard(t) == t.pc \in {"unVisitor", "unSaveVisitor", "unSaveCard"}

\* A call chain of one of the release operations, and what its entities say.
Fits(t) ==
  /\ t.op \in ReleaseOps \cup {"none"}
  /\ t.pc \in ReleasePcs
  /\ t.pc \in {"fetchAppt", "saveVisitor"} => t.op = "CheckOutVisitor"
  /\ t.pc = "coVisitor" => t.op = "CheckOut"
  /\ HoldsVisitor(t) => /\ t.v \in Visitors
                        /\ t.ve.state = "completado"
                        /\ t.ve.card \in Cards \cup {NoCard}
  /\ t.pc \in UnassignPcs => t.c \in Cards
  /\ HoldsCard(t) => /\ t.ce.holder \in Visitors
                     /\ t.ce.locations = card[t.c].locations

\* Somebody - the card's row or an entity in memory - says v holds c.
Claim(v, c) ==
  \/ card[c].holder = v
  \/ \E w \in Workers : /\ HoldsVisitor(task[w])
                        /\ task[w].v = v /\ task[w].ve.card = c
  \/ \E w \in Workers : /\ HoldsCard(task[w])
                        /\ task[w].ce.holder = v /\ task[w].c = c

ClaimsAgree ==
  \A u, v \in Visitors, c, d \in Cards : Claim(u, c) /\ Claim(v, d) => (u = v <=> c = d)

\* Worker w is on its way to free card c.
Owes(w, c) == task[w].pc \in UnassignPcs /\ task[w].c = c

\* A completed visitor's card is about to be freed.
Owed ==
  \A v \in Visitors, c \in Cards :
    card[c].holder = v /\ visitor[v].state = "completado" =>
      \E w \in Workers : Owes(w, c)

\* The inductive invariant: in any state of the releases, the entities in memory
\* agree about who holds what, and a completed visitor's card has a worker on its
\* way to free it.
ReleaseInv == (\A w \in Workers : Fits(task[w])) /\ ClaimsAgree /\ Owed
=============================================================================
