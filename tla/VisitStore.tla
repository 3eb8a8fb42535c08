----------------------------- MODULE VisitStore -----------------------------
(***************************************************************************)
(* The Postgres rows the visit life cycle lives in - visitors, cards and   *)
(* appointments - and what TypeORM's repository.save() does to them.       *)
(*                                                                         *)
(* A save is one transaction that compares the entity held in memory with  *)
(* the row and writes every column that differs, so an entity read long    *)
(* ago overwrites whatever others wrote since.  It also re-inserts a row   *)
(* that was deleted, and it aligns the relations that the entity has       *)
(* loaded: the one-to-one visitor.card and the one-to-many arrays          *)
(* visitor.appointments and card.locations.                                *)
(***************************************************************************)
EXTENDS Naturals, FiniteSets

CONSTANTS
  Visitors,      \* visitor ids
  Cards,         \* ids of the supplier's cards
  Appts,         \* appointment ids
  MaxLocations,  \* bound on the card_locations rows of one card
  NoVisitor,     \* cards.visitor_id IS NULL
  NoCard,        \* visitor.card is loaded and null
  NotLoaded,     \* visitor.card is not loaded (undefined)
  NoAppt

ASSUME NoVisitorAssumption == NoVisitor \notin Visitors
ASSUME NoCardAssumption == /\ NoCard \notin Cards
                           /\ NotLoaded \notin Cards
                           /\ NoCard # NotLoaded
ASSUME NoApptAssumption == NoAppt \notin Appts
ASSUME MaxLocationsAssumption == MaxLocations \in Nat

VARIABLES visitor, card, appt

store == <<visitor, card, appt>>

RowStates == {"unused", "live", "deleted"}

\* visitor.state and appointment.status are free strings; these are the four
\* values the code writes or documents.
States == {"pendiente", "en_progreso", "completado", "cancelado"}

VisitorRow == [row : RowStates, state : States]

\* "issued" is issued_at IS NOT NULL, "locations" counts card_locations rows.
CardRow == [active    : BOOLEAN,
            holder    : Visitors \cup {NoVisitor},
            issued    : BOOLEAN,
            locations : Nat]

\* "in" and "out" are check_in_time and check_out_time IS NOT NULL.
ApptRow == [row     : RowStates,
            visitor : Visitors \cup {NoVisitor},
            status  : States,
            in      : BOOLEAN,
            out     : BOOLEAN]

\* A Visitor entity in memory: the state it will write, the card and the
\* appointments it was read with.  An entity read without the appointments
\* lists all of Appts: no row is then missing from the list.
VisitorEntity == [state : States,
                  card  : Cards \cup {NoCard, NotLoaded},
                  appts : SUBSET Appts]

StoreTypeOK ==
  /\ visitor \in [Visitors -> VisitorRow]
  /\ card \in [Cards -> CardRow]
  /\ appt \in [Appts -> ApptRow]

UnusedAppt == [row |-> "unused", visitor |-> NoVisitor, status |-> "pendiente",
               in |-> FALSE, out |-> FALSE]

Live(v) == v \in Visitors /\ visitor[v].row = "live"

CardsOf(v) == {c \in Cards : card[c].holder = v}

ApptsOf(v) == {a \in Appts : appt[a].row = "live" /\ appt[a].visitor = v}

\* The card a read with relations: ["card"] finds.
CardSeen(v) == IF CardsOf(v) = {} THEN NoCard ELSE CHOOSE c \in CardsOf(v) : TRUE

(***************************************************************************)
(* save(visitor).                                                          *)
(***************************************************************************)

\* An appointment inserted since the read is missing from the loaded array:
\* TypeORM sets its visitor_id, which is NOT NULL, to NULL and the save fails.
OrphansAppt(v, e) == ApptsOf(v) \ e.appts # {}

\* The entity wants a card while the row's visitor holds another one.
SwapsCard(v, e) == e.card \in Cards /\ CardsOf(v) \ {e.card} # {}

VisitorSaveMayThrow(v, e) == OrphansAppt(v, e) \/ SwapsCard(v, e)

\* The inverse side of cards.visitor_id follows the loaded visitor.card.
CardsAligned(v, seen) ==
  [c \in Cards |-> [card[c] EXCEPT !.holder =
     IF seen = NotLoaded THEN @
     ELSE IF c = seen THEN v
     ELSE IF @ = v THEN NoVisitor ELSE @]]

SaveVisitor(v, e) ==
  /\ ~OrphansAppt(v, e)
  /\ visitor' = [visitor EXCEPT ![v] = [row |-> "live", state |-> e.state]]
  /\ card' = CardsAligned(v, e.card)
  /\ UNCHANGED appt

(***************************************************************************)
(* save(card): cards.visitor_id is UNIQUE and references visitors; a       *)
(* location inserted since the read is orphaned like an appointment above. *)
(***************************************************************************)
\* Mutant of HolderTaken: card.visitor is many-to-one, so the column is not unique.
HolderTaken_ManyToOne(c, h) == FALSE

HolderTaken(c, h) == h # NoVisitor /\ CardsOf(h) \ {c} # {}

HolderMissing(h) == h # NoVisitor /\ ~Live(h)

CardSaveThrows(c, e) ==
  \/ card[c].locations > e.locations
  \/ HolderTaken(c, e.holder)
  \/ HolderMissing(e.holder)

SaveCard(c, e) ==
  /\ ~CardSaveThrows(c, e)
  /\ card' = [card EXCEPT ![c] = [e EXCEPT !.locations = card[c].locations]]
  /\ UNCHANGED <<visitor, appt>>

(***************************************************************************)
(* save(appointment): appointments.visitor_id references visitors.         *)
(***************************************************************************)
ApptSaveThrows(e) == ~Live(e.visitor)

SaveApptRow(a, e) ==
  /\ ~ApptSaveThrows(e)
  /\ appt' = [appt EXCEPT ![a] = [e EXCEPT !.row = "live"]]
  /\ UNCHANGED <<visitor, card>>

(***************************************************************************)
(* remove(): appointments go with their visitor (ON DELETE CASCADE), a     *)
(* visitor that holds a card cannot be removed (cards.visitor_id).         *)
(***************************************************************************)
RemoveVisitor(v) ==
  /\ CardsOf(v) = {}
  /\ visitor' = [visitor EXCEPT ![v].row = "deleted"]
  /\ appt' = [a \in Appts |->
       IF a \in ApptsOf(v) THEN [appt[a] EXCEPT !.row = "deleted"] ELSE appt[a]]
  /\ UNCHANGED card

RemoveAppt(a) ==
  /\ appt' = [appt EXCEPT ![a].row = "deleted"]
  /\ UNCHANGED <<visitor, card>>
=============================================================================
