------------------------------- MODULE Office -------------------------------
(***************************************************************************)
(* The services around the visits: cards and their locations, the chat's   *)
(* cache, forms, roles, images and preferences.  They share nothing but    *)
(* the requests' workers and what empties Redis; each workload asks for    *)
(* operations of one of them.                                              *)
(***************************************************************************)
EXTENDS CardLocations, CachedChat, Forms, Roles, ProfileImages,
  Preferences

vars == <<locating, chatCache, forms, roles, files, settings, desk>>

Init ==
  /\ workload \in Workloads
  /\ task = [w \in Workers |-> Idle]
  /\ CardInit
  /\ CacheInit
  /\ FormInit
  /\ RoleInit
  /\ ImageInit
  /\ PreferenceInit

Next ==
  \/ CardNext /\ UNCHANGED <<chatCache, forms, roles, files, settings>>
  \/ CacheNext /\ UNCHANGED <<locating, forms, roles, files, settings>>
  \/ FormNext /\ UNCHANGED <<locating, chatCache, roles, files, settings>>
  \/ RoleNext /\ UNCHANGED <<locating, chatCache, forms, files, settings>>
  \/ ImageNext /\ UNCHANGED <<locating, chatCache, forms, roles, settings>>
  \/ PreferenceNext /\ UNCHANGED <<locating, chatCache, forms, roles, files>>
  \/ \E w \in Workers : Abort(w) /\ UNCHANGED <<locating, chatCache, forms, roles, files, settings>>

Spec == Init /\ [][Next]_vars

\* Every variable has the type its comment gives.
TypeOK ==
  /\ workload \in Workloads
  /\ \A w \in Workers : At(w, "idle") <=> task[w] = Idle
  /\ CardTypeOK
  /\ CacheTypeOK
  /\ FormTypeOK
  /\ RoleTypeOK
  /\ ImageTypeOK
  /\ PreferenceTypeOK
=============================================================================
