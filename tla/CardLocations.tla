--------------------------- MODULE CardLocations ----------------------------
(***************************************************************************)
(* CardService: creation of cards and their locations.  A location is kept *)
(* in three places: rows of card_locations, columns of the card, and Redis *)
(* (RedisDatabaseService: a key per card that expires, and a geospatial    *)
(* index that does not).                                                   *)
(***************************************************************************)
EXTENDS Desk

CONSTANTS
  Cards,
  Places,      \* coordinates a reader reports
  Equator,     \* those of them with a zero, which a report takes for missing
  NoPlace,
  Limits,      \* card limits a supplier subscribes to
  MaxReports   \* bound: reports made

ASSUME PlacesAssumption == Equator \subseteq Places /\ NoPlace \notin Places
ASSUME LimitsAssumption == Limits \subseteq Nat /\ MaxReports \in Nat

VARIABLES
  cards,      \* cards of the supplier
  limit,      \* max_card_count of its subscription
  locations,  \* card_locations: rows [place, at] of each card
  position,   \* latitude and longitude of each card's row
  cached,     \* card:location:<id> in Redis
  index,      \* cards:locations, the geospatial index
  reports     \* reports made so far: the time of day

cardRows == <<cards, limit, locations, position, reports>>

cardCache == <<cached, index>>

locating == <<cards, limit, locations, position, reports, cached, index>>

CardInit ==
  /\ cards = {}
  /\ limit \in Limits
  /\ locations = [c \in Cards |-> {}]
  /\ position = [c \in Cards |-> NoPlace]
  /\ cached = [c \in Cards |-> NoPlace]
  /\ index = [c \in Cards |-> NoPlace]
  /\ reports = 0

CardTypeOK ==
  /\ cards \subseteq Cards /\ limit \in Limits /\ reports \in 0..MaxReports
  /\ locations \in [Cards -> SUBSET [place : Places, at : 1..MaxReports]]
  /\ \A f \in {position, cached, index} : f \in [Cards -> Places \cup {NoPlace}]

Report(c, p) ==
  [op |-> "Report", pc |-> "saveCard", card |-> c, place |-> p, at |-> reports + 1,
   rows |-> locations[c]]

-----------------------------------------------------------------------------
(* Cards.                                                                  *)

\* Mutant of HasRoom: the limit is compared with one card too few.
HasRoom_OffByOne == Cardinality(cards) <= limit

\* create: the cards are counted ...
HasRoom == Cardinality(cards) < limit

CreateCard(w) ==
  /\ Accepts(w, "CreateCard")
  /\ HasRoom
  /\ Become(w, [op |-> "CreateCard", pc |-> "insertCard"])
  /\ UNCHANGED locating

\* No row has this card, nor is about to get it back.
IsNew(c) == c \notin cards /\ \A u \in Workers : task[u].op = "Report" => task[u].card # c

\* ... and then the new one is saved, with a new id.
InsertCard(w, c) ==
  /\ At(w, "insertCard")
  /\ IsNew(c)
  /\ cards' = cards \cup {c}
  /\ Finish(w)
  /\ UNCHANGED <<limit, locations, position, reports, cardCache>>

\* remove: the columns of card_locations and the key of the cache do not follow,
\* so a card with locations stays.
RemoveCard(w, c) ==
  /\ Accepts(w, "RemoveCard")
  /\ c \in cards /\ locations[c] = {}
  /\ cards' = cards \ {c}
  /\ position' = [position EXCEPT ![c] = NoPlace]
  /\ UNCHANGED <<limit, locations, reports, cardCache, desk>>

\* SupplierService.update: the subscription gets another limit.
ChangeLimit(w, n) ==
  /\ Accepts(w, "ChangeLimit")
  /\ limit' = n
  /\ UNCHANGED <<cards, locations, position, reports, cardCache, desk>>

-----------------------------------------------------------------------------
(* Reports.                                                                *)

\* recordLocation: the card is found with its locations, and the time taken.
RecordLocation(w, c, p) ==
  /\ Accepts(w, "Report")
  /\ c \in cards /\ reports < MaxReports
  /\ reports' = reports + 1
  /\ Become(w, Report(c, p))
  /\ UNCHANGED <<cards, limit, locations, position, cardCache>>

\* receiveCardLocation: a reader reports a number that no card has ...
ReportUnknown(w, c) ==
  /\ Accepts(w, "ReportUnknown")
  /\ IsNew(c)
  /\ Become(w, [op |-> "ReportUnknown", pc |-> "insertUnknown", card |-> c])
  /\ UNCHANGED locating

\* ... and the card is saved without a look at the limit, unless another has the
\* number by now.  The report then asks for a card whose number is the new id,
\* and fails: no location is kept.
InsertUnknown(w) ==
  /\ At(w, "insertUnknown")
  /\ cards' = cards \cup {task[w].card}
  /\ Finish(w)
  /\ UNCHANGED <<limit, locations, position, reports, cardCache>>

\* A location inserted since would lose its card, which the column refuses; a
\* card removed since is inserted again.
MaySaveCard(t) == locations[t.card] \subseteq t.rows

SavePosition(w) ==
  /\ At(w, "saveCard") /\ MaySaveCard(task[w])
  /\ cards' = cards \cup {task[w].card}
  /\ position' = [position EXCEPT ![task[w].card] = task[w].place]
  /\ Goto(w, "saveLocation")
  /\ UNCHANGED <<limit, locations, reports, cardCache>>

ReportRefused(w) ==
  /\ \/ At(w, "saveCard") /\ ~MaySaveCard(task[w])
     \/ At(w, "saveLocation") /\ task[w].card \notin cards
  /\ Finish(w)
  /\ UNCHANGED locating

SaveLocation(w) ==
  /\ At(w, "saveLocation") /\ task[w].card \in cards
  /\ LET t == task[w]
     IN  locations' = [locations EXCEPT ![t.card] = @ \cup {[place |-> t.place, at |-> t.at]}]
  /\ Goto(w, "cacheBody")
  /\ UNCHANGED <<cards, limit, position, reports, cardCache>>

\* saveCardLocation: the key, with its time to live; a number that is zero ends
\* it there, the text of a numeric column never does ...
CacheBody(w) ==
  /\ At(w, "cacheBody")
  /\ cached' = [cached EXCEPT ![task[w].card] = task[w].place]
  /\ IF task[w].op = "Report" /\ task[w].place \in Equator THEN Finish(w) ELSE Goto(w, "cacheIndex")
  /\ UNCHANGED <<cardRows, index>>

\* ... then GEOADD.
CacheIndex(w) ==
  /\ At(w, "cacheIndex")
  /\ index' = [index EXCEPT ![task[w].card] = task[w].place]
  /\ Finish(w)
  /\ UNCHANGED <<cardRows, cached>>

\* The failure of a Redis command is logged and ends the report.
CacheFails(w) ==
  /\ workload.fails
  /\ At(w, "cacheBody") \/ At(w, "cacheIndex")
  /\ Finish(w)
  /\ UNCHANGED locating

-----------------------------------------------------------------------------
(* Questions.                                                              *)

\* Mutant of Latest: the oldest location.
Latest_Oldest(c) == CHOOSE l \in locations[c] : \A k \in locations[c] : l.at <= k.at

\* card_locations by timestamp, newest first.
Latest(c) == CHOOSE l \in locations[c] : \A k \in locations[c] : l.at >= k.at

\* getCardLocation of Redis: the place under the key; a failure is no answer.
CardLocation(c) == {cached[c]} \cup (IF workload.fails THEN {NoPlace} ELSE {})

\* getLastLocation, when Redis has no answer: the row found goes to the cache.
LastLocation(w, c) ==
  /\ Accepts(w, "LastLocation")
  /\ NoPlace \in CardLocation(c)
  /\ locations[c] # {}
  /\ Become(w, [op |-> "LastLocation", pc |-> "cacheBody", card |-> c,
                place |-> Latest(c).place])
  /\ UNCHANGED locating

\* getNearbyCards of Redis: members of the index there whose key is alive.
Indexed(p) == {c \in Cards : index[c] = p /\ cached[c] # NoPlace}

\* getNearbyCards: the columns of the cards are asked if Redis finds none.
Nearby(p) == IF Indexed(p) # {} THEN Indexed(p) ELSE {c \in Cards : position[c] = p}

\* Redis drops a key after its hour, or everything (flushAll).
KeyExpires(c) ==
  /\ "Expire" \in workload.ops
  /\ cached' = [cached EXCEPT ![c] = NoPlace]
  /\ UNCHANGED <<cardRows, index, desk>>

FlushLocations(w) ==
  /\ Accepts(w, "FlushLocations")
  /\ cached' = [c \in Cards |-> NoPlace] /\ index' = [c \in Cards |-> NoPlace]
  /\ UNCHANGED <<cardRows, desk>>

CardNext ==
  \/ \E w \in Workers :
       \/ CreateCard(w)
       \/ \E c \in Cards : InsertCard(w, c) \/ RemoveCard(w, c) \/ LastLocation(w, c)
       \/ \E c \in Cards : ReportUnknown(w, c)
       \/ InsertUnknown(w)
       \/ \E n \in Limits : ChangeLimit(w, n)
       \/ \E c \in Cards, p \in Places : RecordLocation(w, c, p)
       \/ SavePosition(w)
       \/ ReportRefused(w)
       \/ SaveLocation(w)
       \/ CacheBody(w)
       \/ CacheIndex(w)
       \/ CacheFails(w)
       \/ FlushLocations(w)
  \/ \E c \in Cards : KeyExpires(c)

-----------------------------------------------------------------------------

\* Requests that do not overlap, with Redis answering: the location in the
\* cache is the last one reported, also after it expired or was flushed and was
\* read back from the rows.
CachedIsLatest ==
  \A c \in Cards : \A p \in CardLocation(c) \ {NoPlace} : p = Latest(c).place

\* ... and who asks for cards near a place finds only cards that are there, as
\* long as no report has a zero: the index keeps a member until the next one.
NearbyIsThere ==
  \A p \in Places : \A c \in Nearby(p) : locations[c] # {} => Latest(c).place = p

ZeroReported == \E c \in Cards : \E l \in locations[c] : l.place \in Equator

LocationsAgree ==
  Serial /\ AtRest /\ ~workload.fails =>
    CachedIsLatest /\ (~ZeroReported => NearbyIsThere)

\* Requests that do not overlap never add a card beyond the limit in force
\* (create compares before it saves), unless readers report unknown cards.
LimitKept ==
  [][Serial /\ ~Asked({"ReportUnknown"}) /\ ~(cards' \subseteq cards)
       => Cardinality(cards') <= limit]_<<cards, limit, workload>>
=============================================================================
