----------------------------- MODULE CachedChat -----------------------------
(***************************************************************************)
(* RedisDatabaseService: what it keeps for the chat.  A room has a list of *)
(* message ids, each with a body under a key of its own; rooms, and the    *)
(* rooms of a user, are keys that expire.                                  *)
(***************************************************************************)
EXTENDS Desk

CONSTANTS
  Texts,      \* ids of messages: 1..n
  ListSize    \* ids a list keeps: 100

ASSUME ListSizeAssumption == ListSize \in Nat \ {0} /\ Texts \subseteq Nat

Keys == {"room", "userRooms"}

VARIABLES
  list,       \* chat:messages:<room>, newest first
  listTimed,  \* the list has a time to live
  body,       \* chat:message:<room>:<id>: none, kept or timed
  key         \* chat:room:<id> and chat:user:<id>:rooms: none, kept or timed

lists == <<list, listTimed, body>>

chatCache == <<list, listTimed, body, key>>

Lifetimes == {"none", "kept", "timed"}

CacheInit ==
  /\ list = <<>> /\ listTimed = FALSE
  /\ body = [m \in Texts |-> "none"]
  /\ key = [k \in Keys |-> "none"]

CacheTypeOK ==
  /\ list \in Seq(Texts)
  /\ ~workload.fails => Len(list) <= ListSize + Cardinality({w \in Workers : At(w, "trim")})
  /\ listTimed \in BOOLEAN
  /\ body \in [Texts -> Lifetimes] /\ key \in [Keys -> Lifetimes]

Lifetime(ttl) == IF ttl THEN "timed" ELSE "kept"

\* saveChatMessage: the body is set ...
SaveBody(w, m, ttl) ==
  /\ Accepts(w, "SaveMessage") /\ IsNext(m, {k \in Texts : body[k] # "none"})
  /\ body' = [body EXCEPT ![m] = Lifetime(ttl)]
  /\ Become(w, [op |-> "SaveMessage", pc |-> "push", text |-> m, ttl |-> ttl])
  /\ UNCHANGED <<list, listTimed, key>>

\* ... LPUSH; a new list has no time to live ...
Push(w) ==
  /\ At(w, "push")
  /\ list' = <<task[w].text>> \o list
  /\ Goto(w, "trim")
  /\ UNCHANGED <<listTimed, body, key>>

\* Mutant of Trimmed: the last index is taken for a number of elements.
Trimmed_OneMore(s) == SubSeq(s, 1, IF Len(s) > ListSize THEN ListSize + 1 ELSE Len(s))

Trimmed(s) == SubSeq(s, 1, IF Len(s) > ListSize THEN ListSize ELSE Len(s))

\* ... LTRIM 0 99 ...
Trim(w) ==
  /\ At(w, "trim")
  /\ list' = Trimmed(list)
  /\ IF task[w].ttl THEN Goto(w, "expireList") ELSE Finish(w)
  /\ UNCHANGED <<listTimed, body, key>>

\* ... and EXPIRE, which does nothing to a list that is gone.
ExpireList(w) ==
  /\ At(w, "expireList")
  /\ listTimed' = (list # <<>>)
  /\ Finish(w)
  /\ UNCHANGED <<list, body, key>>

\* saveChatRoom, saveUserRooms: SET, which clears a time to live ...
SetKey(w, k) ==
  /\ Accepts(w, "SaveKey")
  /\ key' = [key EXCEPT ![k] = "kept"]
  /\ Become(w, [op |-> "SaveKey", pc |-> "expireKey", key |-> k])
  /\ UNCHANGED lists

\* ... then EXPIRE.
ExpireKey(w) ==
  /\ At(w, "expireKey")
  /\ key' = [key EXCEPT ![task[w].key] = IF @ = "none" THEN "none" ELSE "timed"]
  /\ Finish(w)
  /\ UNCHANGED lists

\* Redis drops what has a time to live.
Drop ==
  /\ "Expire" \in workload.ops
  /\ \/ \E m \in Texts : body[m] = "timed" /\ body' = [body EXCEPT ![m] = "none"]
                         /\ UNCHANGED <<list, listTimed, key>>
     \/ listTimed /\ list' = <<>> /\ listTimed' = FALSE /\ UNCHANGED <<body, key>>
     \/ \E k \in Keys : key[k] = "timed" /\ key' = [key EXCEPT ![k] = "none"]
                        /\ UNCHANGED lists
  /\ UNCHANGED desk

\* flushAll
FlushChat(w) ==
  /\ Accepts(w, "FlushChat")
  /\ list' = <<>> /\ listTimed' = FALSE
  /\ body' = [m \in Texts |-> "none"] /\ key' = [k \in Keys |-> "none"]
  /\ UNCHANGED desk

\* getChatMessages: the places in the list that are answered, in their order;
\* messages without a body are passed over.
ChatMessages(n) ==
  {i \in 1..(IF n < Len(list) THEN n ELSE Len(list)) : body[list[i]] # "none"}

\* getChatRoom and getUserRooms find a key that Redis has not dropped.
RoomFound == key["room"] # "none"

UserRoomsFound == key["userRooms"] # "none"

CacheNext ==
  \/ Drop
  \/ \E w \in Workers :
       \/ \E m \in Texts, ttl \in BOOLEAN : SaveBody(w, m, ttl)
       \/ Push(w)
       \/ Trim(w)
       \/ ExpireList(w)
       \/ \E k \in Keys : SetKey(w, k)
       \/ ExpireKey(w)
       \/ FlushChat(w)

-----------------------------------------------------------------------------

\* A reader gets as many messages as the list holds: a body is there before its
\* id is listed, also when messages are saved at the same time.
ListedHasBody ==
  ~Asked({"Expire"}) /\ (Serial \/ ~Asked({"FlushChat"})) => ChatMessages(ListSize) = DOMAIN Trimmed(list)

\* After the calls, if none failed, a list keeps no more than ListSize ids and
\* a room or a list of rooms that is found has a time to live, whichever calls
\* were interleaved.
CacheBounded ==
  AtRest /\ ~workload.fails =>
    /\ Len(list) <= ListSize
    /\ RoomFound => key["room"] = "timed"
    /\ UserRoomsFound => key["userRooms"] = "timed"

ChatCacheAgrees == ListedHasBody /\ CacheBounded
=============================================================================
