---------------------------- MODULE CardLending ----------------------------
(***************************************************************************)
(* What the visit service promises about the supplier's cards: a free card *)
(* is lent to a visitor who has none and whose visit is not over, and when *)
(* the visit is over the card comes back.                                  *)
(***************************************************************************)
CONSTANTS
  Visitors, Cards,
  NoVisitor  \* not a visitor: the card is free

VARIABLES
  holder,  \* the visitor each card is lent to
  left     \* the visitors whose visit is over

vars == <<holder, left>>

Init ==
  /\ holder \in [Cards -> Visitors \cup {NoVisitor}]
  /\ \A c, d \in Cards : holder[c] = holder[d] => c = d \/ holder[c] = NoVisitor
  /\ left = {}

Lend(c, v) ==
  /\ holder[c] = NoVisitor
  /\ v \notin left
  /\ \A d \in Cards : holder[d] # v
  /\ holder' = [holder EXCEPT ![c] = v]
  /\ UNCHANGED left

Leave(v) ==
  /\ v \notin left
  /\ left' = left \cup {v}
  /\ UNCHANGED holder

Return(c) ==
  /\ holder[c] \in left
  /\ holder' = [holder EXCEPT ![c] = NoVisitor]
  /\ UNCHANGED left

Next == \/ \E c \in Cards, v \in Visitors : Lend(c, v)
        \/ \E v \in Visitors : Leave(v)
        \/ \E c \in Cards : Return(c)

\* A visitor need not leave and a card need not be lent, but a card whose
\* visitor has left is returned.
Spec == Init /\ [][Next]_vars /\ \A c \in Cards : WF_vars(Return(c))
=============================================================================
