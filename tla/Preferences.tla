---------------------------- MODULE Preferences -----------------------------
(***************************************************************************)
(* UserPreferenceService: the preferences of one employee.  Rows are read  *)
(* by their kind, then saved or removed by their id.                       *)
(***************************************************************************)
EXTENDS Desk

CONSTANTS
  Kinds,    \* PreferenceType
  Values

VARIABLES
  preferences,   \* rows [id, kind, value]
  lastId         \* ids given so far

settings == <<preferences, lastId>>

Unsaved == 0

PreferenceInit == preferences = {} /\ lastId = 0

\* The unique constraint holds: whatever was read before, a kind has one row.
PreferenceTypeOK ==
  /\ lastId \in 0..workload.size
  /\ preferences \subseteq [id : 1..lastId, kind : Kinds, value : Values]
  /\ \A p, q \in preferences : p.kind = q.kind \/ p.id = q.id => p = q

Preferred(k) == {p \in preferences : p.kind = k}

Save(w, op, row) == Become(w, [op |-> op, pc |-> "savePreference", row |-> row])

\* create: the row there is, with another value, or a new one.
CreatePreference(w, k, v) ==
  /\ Accepts(w, "CreatePreference")
  /\ \/ \E p \in Preferred(k) : Save(w, "CreatePreference", [p EXCEPT !.value = v])
     \/ /\ Preferred(k) = {} /\ lastId < workload.size
        /\ Save(w, "CreatePreference", [id |-> Unsaved, kind |-> k, value |-> v])
  /\ UNCHANGED settings

UpdatePreference(w, k, v) ==
  /\ Accepts(w, "UpdatePreference")
  /\ \E p \in Preferred(k) : Save(w, "UpdatePreference", [p EXCEPT !.value = v])
  /\ UNCHANGED settings

RemovalOf(w, k) ==
  /\ Accepts(w, "RemovePreference")
  /\ \E p \in Preferred(k) :
       Become(w, [op |-> "RemovePreference", pc |-> "removePreference", row |-> p])
  /\ UNCHANGED settings

\* Repository.save: a row that is gone is inserted again, with its id.
SavePreference(w) ==
  /\ At(w, "savePreference")
  /\ LET r == task[w].row
         id == IF r.id = Unsaved THEN lastId + 1 ELSE r.id
     IN  /\ id <= workload.size
         /\ \/ /\ \A p \in Preferred(r.kind) : p.id = id
               /\ preferences' = {p \in preferences : p.id # id} \cup {[r EXCEPT !.id = id]}
               /\ lastId' = IF id > lastId THEN id ELSE lastId
            \/ (\E p \in Preferred(r.kind) : p.id # id) /\ UNCHANGED settings
  /\ Finish(w)

RemovePreference(w) ==
  /\ At(w, "removePreference")
  /\ preferences' = {p \in preferences : p.id # task[w].row.id}
  /\ Finish(w)
  /\ UNCHANGED lastId

PreferenceNext ==
  \E w \in Workers :
    \/ SavePreference(w)
    \/ RemovePreference(w)
    \/ \E k \in Kinds :
         \/ RemovalOf(w, k)
         \/ \E v \in Values : CreatePreference(w, k, v) \/ UpdatePreference(w, k, v)
=============================================================================
