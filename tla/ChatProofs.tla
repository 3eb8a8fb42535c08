----------------------------- MODULE ChatProofs -----------------------------
(***************************************************************************)
(* Proofs about the chat: the types of rows, sockets and handlers, and the *)
(* properties of Chat for any users, rooms, messages, sockets, handlers    *)
(* and workloads.                                                          *)
(***************************************************************************)
EXTENDS Chat, FiniteSetTheorems, WellFoundedInduction, TLAPS

-----------------------------------------------------------------------------
(* Sets of message ids.                                                    *)

\* A set of numbers has a least one.
LEMMA MinOfNaturals ==
  ASSUME NEW S, S \subseteq Nat, S # {}
  PROVE  Min(S) \in S /\ \A x \in S : Min(S) <= x
<1> DEFINE Less == {p \in Nat \X Nat : p[1] < p[2]}
<1>1. IsWellFoundedOn(Less, Nat)
  BY NatLessThanWellFounded DEF OpToRel
<1>2. PICK x \in S : \A y \in S : ~(<<y, x>> \in Less)
  BY <1>1, WFMin
<1>3. ASSUME NEW y \in S PROVE x <= y
  <2>1. x \in Nat /\ y \in Nat
    OBVIOUS
  <2>2. ~(y < x)
    BY <1>2, <2>1
  <2> QED
    BY <2>1, <2>2
<1> QED
  BY <1>3 DEF Min

\* A finite set of numbers has a greatest one.
LEMMA GreatestOfNaturals ==
  ASSUME NEW S, S \subseteq Nat, S # {}, IsFiniteSet(S)
  PROVE  \E m \in S : {k \in S : k > m} = {}
<1> DEFINE Above(m) == {k \in S : k > m}
           C == {Cardinality(Above(m)) : m \in S}
<1>1. \A m \in S : IsFiniteSet(Above(m)) /\ Cardinality(Above(m)) \in Nat
  BY FS_Subset, FS_CardinalityType
<1>2. C \subseteq Nat /\ C # {}
  BY <1>1
<1>3. Min(C) \in C /\ \A x \in C : Min(C) <= x
  BY <1>2, MinOfNaturals
<1>4. PICK m \in S : \A l \in S : Cardinality(Above(m)) <= Cardinality(Above(l))
  BY <1>3
<1>5. ASSUME NEW k \in Above(m) PROVE FALSE
  <2>1. k \in S /\ k > m
    OBVIOUS
  <2>0. \A j \in S : j \in Nat
    OBVIOUS
  <2>2. Above(k) \subseteq Above(m) /\ k \notin Above(k)
    <3>1. ASSUME NEW j \in S, j > k PROVE j > m
      BY <2>0, <2>1, <3>1
    <3>2. ~(k > k)
      BY <2>0, <2>1
    <3> QED
      BY <3>1, <3>2
  <2>3. Cardinality(Above(k)) <= Cardinality(Above(m)) /\ Above(k) # Above(m)
    BY <1>1, <2>2, FS_Subset
  <2>4. Cardinality(Above(k)) # Cardinality(Above(m))
    BY <1>1, <2>2, <2>3, FS_Subset
  <2> QED
    BY <1>1, <1>4, <2>1, <2>3, <2>4
<1> QED
  BY <1>5

\* What the newest n of a set of messages are.
LEMMA NewestOf ==
  ASSUME NEW ms, ms \subseteq Nat, IsFiniteSet(ms), NEW n \in Nat \ {0}
  PROVE  /\ Newest(ms, n) \subseteq ms
         /\ ms # {} => Newest(ms, n) # {}
         /\ Cardinality(ms) <= n => Newest(ms, n) = ms
         /\ \A m \in ms \ Newest(ms, n), k \in Newest(ms, n) : m < k
<1> DEFINE Above(m) == {k \in ms : k > m}
<1>0. Newest(ms, n) = {m \in ms : Cardinality(Above(m)) < n}
  BY DEF Newest
<1>1. \A m \in ms : /\ IsFiniteSet(Above(m)) /\ Cardinality(Above(m)) \in Nat
                    /\ Cardinality(Above(m)) <= Cardinality(ms)
                    /\ Cardinality(Above(m)) # Cardinality(ms)
  <2> SUFFICES ASSUME NEW m \in ms
               PROVE  /\ IsFiniteSet(Above(m)) /\ Cardinality(Above(m)) \in Nat
                      /\ Cardinality(Above(m)) <= Cardinality(ms)
                      /\ Cardinality(Above(m)) # Cardinality(ms)
    OBVIOUS
  <2>1. m \notin Above(m) /\ Above(m) \subseteq ms
    OBVIOUS
  <2> QED
    BY <2>1, FS_Subset, FS_CardinalityType
<1>2. ASSUME ms # {} PROVE Newest(ms, n) # {}
  <2>1. PICK m \in ms : Above(m) = {}
    BY <1>2, GreatestOfNaturals
  <2>2. Cardinality(Above(m)) < n
    BY <2>1, FS_EmptySet
  <2> QED
    BY <1>0, <2>2
<1>3. ASSUME Cardinality(ms) <= n PROVE Newest(ms, n) = ms
  <2>1. Cardinality(ms) \in Nat
    BY FS_CardinalityType
  <2>2. \A m \in ms : Cardinality(Above(m)) < n
    BY <1>1, <1>3, <2>1
  <2> QED
    BY <1>0, <2>2
<1>4. ASSUME NEW m \in ms \ Newest(ms, n), NEW k \in Newest(ms, n) PROVE m < k
  <2>1. k \in ms /\ Cardinality(Above(k)) < n /\ ~(Cardinality(Above(m)) < n)
    BY <1>0
  <2>2. CASE k < m
    <3>0. m \in ms /\ \A j \in ms : j \in Nat
      OBVIOUS
    <3>a. ASSUME NEW j \in ms, j > m PROVE j > k
      BY <2>1, <2>2, <3>0, <3>a
    <3>1. Above(m) \subseteq Above(k)
      BY <3>a
    <3>2. Cardinality(Above(m)) <= Cardinality(Above(k))
      BY <1>1, <2>1, <3>1, FS_Subset
    <3> QED
      BY <1>1, <2>1, <3>2
  <2> QED
    BY <2>1, <2>2
<1> QED
  BY <1>0, <1>2, <1>3, <1>4

-----------------------------------------------------------------------------
(* Types.                                                                  *)

Kinds == {"group", "pair", "guest"}

RoomRows ==
  [kind : Kinds \cup {"unused"}, supplier : Suppliers \cup {Nobody}, members : SUBSET Users,
   by : Users \cup {Nobody}]

MessageRows ==
  [room : Rooms \cup {NoRoom}, sender : Users \cup {Nobody}, at : 0..MaxTime, read : BOOLEAN]

Pages ==
  [room : Rooms \cup {NoRoom}, state : {"none", "more", "done"},
   next : Messages \cup {NoMessage}, got : SUBSET Messages, base : SUBSET Messages]

SocketRows == [state : {"new", "open", "gone"}, user : Users \cup {Nobody}, page : Pages]

Pcs == {"idle", "auth", "group", "groupSave", "direct", "joinAll", "save", "emit", "fetch",
        "mark", "page", "find", "privateSave", "joinBoth"}

Records ==
  [op : AllOps \cup {"none"}, pc : Pcs, socket : Sockets \cup {Nobody},
   user : Users \cup {Nobody}, target : Users \cup Suppliers \cup {Nobody},
   room : Rooms \cup {NoRoom}, got : SUBSET Messages, unread : SUBSET Messages,
   rooms : SUBSET Rooms, more : BOOLEAN]

RoomOps == {"Send", "Load", "Join", "Page", "LoadHttp"}

\* Which events come to which awaits, and what they carry.
Reaches(t) ==
  /\ t.pc = "idle" => t = Idle
  /\ t.pc # "idle" => t.op # "none"
  /\ t.op \in {"Connect", "Send", "Load", "Join", "Page", "Private"} =>
       t.socket \in Sockets /\ t.user \in Users
  /\ t.pc \in {"auth", "group", "direct", "joinAll"} => t.op = "Connect"
  /\ t.pc = "group" => t.user \in Employees
  /\ t.pc = "groupSave" => t.op \in {"Connect", "GroupHttp"} /\ t.target \in Suppliers
  /\ t.pc \in {"find", "joinBoth"} => t.op = "Private"
  /\ t.pc = "privateSave" => t.op \in {"Private", "PrivateHttp"} /\ t.user \in Users
  /\ t.op \in {"Private", "PrivateHttp"} => t.target \in Users
  /\ t.pc \in {"save", "emit"} => t.op = "Send"
  /\ t.pc = "fetch" => t.op \in {"Load", "Join"}
  /\ t.pc = "page" => t.op = "Page"
  /\ t.pc = "mark" => t.op \in {"Load", "Join", "Page", "LoadHttp"}
  /\ t.pc = "mark" /\ t.op = "Page" /\ t.more => t.got # {}

Tasks == {t \in Records : Reaches(t)}

\* A handler holds rooms and messages that are there.
Grounded(t) ==
  /\ t.got \subseteq Stored /\ t.unread \subseteq Stored /\ t.rooms \subseteq Exists
  /\ t.op \in RoomOps \/ t.pc = "joinBoth" => t.room \in Exists

TypeInv ==
  /\ workload \in Workloads /\ clock \in 0..MaxTime
  /\ room \in [Rooms -> RoomRows]
  /\ message \in [Messages -> MessageRows] /\ IsFiniteSet(Stored)
  /\ socket \in [Sockets -> SocketRows] /\ clients \subseteq Sockets
  /\ joined \in [Sockets -> SUBSET Exists] /\ caught \in [Sockets -> SUBSET Exists]
  /\ seen \in [Sockets -> SUBSET Stored]
  /\ task \in [Workers -> Tasks] /\ \A w \in Workers : Grounded(task[w])

LEMMA IdleTyped == Idle \in Tasks /\ Grounded(Idle)
BY DEF Idle, Tasks, Records, Reaches, Grounded, Pcs, RoomOps, AllOps, NoRoom

LEMMA InitTyped == Init => TypeInv
<1> SUFFICES ASSUME Init PROVE TypeInv
  OBVIOUS
<1>1. Stored = {} /\ IsFiniteSet(Stored)
  BY FS_EmptySet DEF Init, Stored, NoMsg
<1>2. room \in [Rooms -> RoomRows]
  BY DEF Init, Unused, RoomRows
<1>3. clock \in 0..MaxTime /\ message \in [Messages -> MessageRows]
  BY PageAssumption DEF Init, NoMsg, MessageRows
<1>4. NoPage \in Pages
  BY DEF NoPage, Pages
<1>5. socket \in [Sockets -> SocketRows]
  BY <1>4 DEF Init, SocketRows
<1>6. task \in [Workers -> Tasks] /\ \A w \in Workers : Grounded(task[w])
  BY IdleTyped DEF Init
<1> QED
  BY <1>1, <1>2, <1>3, <1>5, <1>6 DEF TypeInv, Init

-----------------------------------------------------------------------------
(* Which actions write what.                                               *)

\* Rooms are created by three handlers.
LEMMA RoomActions ==
  ASSUME [Next]_vars
  PROVE  \/ room' = room
         \/ \E w \in Workers :
              \/ \E r \in Rooms, members \in SUBSET Users, kind \in {"pair", "guest"} :
                   CreateRoom(w, r, kind, members)
              \/ GroupSave(w)
              \/ SavePrivate(w)
<1>1. CASE HttpNext
  BY <1>1 DEF HttpNext, Tick, GroupHttp, PrivateHttp, PostHttp, LoadHttp, database
<1>2. CASE GatewayNext
  <2>1. ASSUME NEW w \in Workers, NEW s \in Sockets,
               \/ \E u \in Users : Connect(w, s, u)
               \/ \E r \in Rooms : Send(w, s, r) \/ Load(w, s, r) \/ Page(w, s, r)
               \/ \E v \in Users : Private(w, s, v)
        PROVE  room' = room
    BY <2>1 DEF Connect, Send, Load, Page, Private, Ask, database
  <2>2. ASSUME NEW w \in Workers, Authenticated(w) \/ FindGroup(w) \/ FindDirect(w) \/ JoinAll(w)
                                  \/ SaveMessage(w) \/ Emit(w) \/ Fetch(w)
        PROVE  room' = room
    BY <2>2 DEF Authenticated, FindGroup, FindDirect, JoinAll, SaveMessage, Emit, Fetch, database
  <2>3. ASSUME NEW w \in Workers, \/ \E m \in Messages : Mark(w, m)
                                  \/ Reply(w) \/ FetchPage(w) \/ FindPrivate(w)
                                  \/ JoinBoth(w) \/ Fail(w)
        PROVE  room' = room
    BY <2>3 DEF Mark, Reply, FetchPage, FindPrivate, JoinBoth, Fail, database
  <2>4. ASSUME NEW s \in Sockets, Disconnect(s) \/ \E r \in Rooms : Leave(s, r)
        PROVE  room' = room
    BY <2>4 DEF Disconnect, Leave, database
  <2> QED
    BY <1>2, <2>1, <2>2, <2>3, <2>4 DEF GatewayNext
<1>3. CASE UNCHANGED vars
  BY <1>3 DEF vars
<1> QED
  BY <1>1, <1>2, <1>3 DEF Next

\* Messages are inserted by two, and marked as read by those who read them.
LEMMA MessageActions ==
  ASSUME [Next]_vars
  PROVE  \/ message' = message
         \/ clock' = clock /\ \E w \in Workers :
              \/ \E m \in Messages, r \in Rooms, u \in Users \cup {Nobody} : PostHttp(w, m, r, u)
              \/ SaveMessage(w)
              \/ \E m \in Messages : Mark(w, m)
<1>1. CASE HttpNext
  BY <1>1 DEF HttpNext, Tick, GroupHttp, PrivateHttp, PostHttp, LoadHttp, CreateRoom, GroupSave,
              database
<1>2. CASE GatewayNext
  <2>1. ASSUME NEW w \in Workers, NEW s \in Sockets,
               \/ \E u \in Users : Connect(w, s, u)
               \/ \E r \in Rooms : Send(w, s, r) \/ Load(w, s, r) \/ Page(w, s, r)
               \/ \E v \in Users : Private(w, s, v)
        PROVE  message' = message
    BY <2>1 DEF Connect, Send, Load, Page, Private, Ask, database
  <2>2. ASSUME NEW w \in Workers, Authenticated(w) \/ FindGroup(w) \/ FindDirect(w) \/ JoinAll(w)
                                  \/ Emit(w) \/ Fetch(w)
        PROVE  message' = message
    BY <2>2 DEF Authenticated, FindGroup, FindDirect, JoinAll, Emit, Fetch, database
  <2>3. ASSUME NEW w \in Workers, \/ Reply(w) \/ FetchPage(w) \/ FindPrivate(w)
                                  \/ SavePrivate(w) \/ JoinBoth(w) \/ Fail(w)
        PROVE  message' = message
    BY <2>3 DEF Reply, FetchPage, FindPrivate, SavePrivate, JoinBoth, Fail, database
  <2>4. ASSUME NEW s \in Sockets, Disconnect(s) \/ \E r \in Rooms : Leave(s, r)
        PROVE  message' = message
    BY <2>4 DEF Disconnect, Leave, database
  <2>5. ASSUME NEW w \in Workers, SaveMessage(w) \/ \E m \in Messages : Mark(w, m)
        PROVE  clock' = clock
    BY <2>5 DEF SaveMessage, Mark
  <2> QED
    BY <1>2, <2>1, <2>2, <2>3, <2>4, <2>5 DEF GatewayNext
<1>3. CASE UNCHANGED vars
  BY <1>3 DEF vars
<1> QED
  BY <1>1, <1>2, <1>3 DEF Next

\* Time passes on its own.
LEMMA ClockActions ==
  ASSUME [Next]_vars
  PROVE  clock' = clock \/ Tick
<1>1. CASE HttpNext
  BY <1>1 DEF HttpNext, GroupHttp, GroupSave, PrivateHttp, PostHttp, LoadHttp, CreateRoom, database
<1>2. CASE GatewayNext
  <2>1. ASSUME NEW w \in Workers, NEW s \in Sockets,
               \/ \E u \in Users : Connect(w, s, u)
               \/ \E r \in Rooms : Send(w, s, r) \/ Load(w, s, r) \/ Page(w, s, r)
               \/ \E v \in Users : Private(w, s, v)
        PROVE  clock' = clock
    BY <2>1 DEF Connect, Send, Load, Page, Private, Ask, database
  <2>2. ASSUME NEW w \in Workers,
               \/ Authenticated(w) \/ FindGroup(w) \/ FindDirect(w) \/ JoinAll(w)
               \/ SaveMessage(w) \/ Emit(w) \/ Fetch(w)
        PROVE  clock' = clock
    BY <2>2 DEF Authenticated, FindGroup, FindDirect, JoinAll, SaveMessage, Emit, Fetch, database
  <2>3. ASSUME NEW w \in Workers,
               \/ \E m \in Messages : Mark(w, m)
               \/ Reply(w) \/ FetchPage(w) \/ FindPrivate(w) \/ SavePrivate(w) \/ JoinBoth(w)
               \/ Fail(w)
        PROVE  clock' = clock
    BY <2>3 DEF Mark, Reply, FetchPage, FindPrivate, SavePrivate, JoinBoth, Fail, database
  <2>4. ASSUME NEW s \in Sockets, Disconnect(s) \/ \E r \in Rooms : Leave(s, r)
        PROVE  clock' = clock
    BY <2>4 DEF Disconnect, Leave, database
  <2> QED
    BY <1>2, <2>1, <2>2, <2>3, <2>4 DEF GatewayNext
<1>3. CASE UNCHANGED vars
  BY <1>3 DEF vars
<1> QED
  BY <1>1, <1>2, <1>3 DEF Next

\* Rooms stay as they were created.
LEMMA RoomsGrow ==
  ASSUME TypeInv, [Next]_vars
  PROVE  /\ room' \in [Rooms -> RoomRows]
         /\ \A r \in Exists : r \in Exists' /\ room'[r] = room[r]
<1>1. CASE room' = room
  BY <1>1 DEF TypeInv, Exists
<1>2. ASSUME NEW r \in Rooms, NEW kind \in Kinds, NEW supplier \in Suppliers \cup {Nobody},
             NEW members \in SUBSET Users, NEW by \in Users \cup {Nobody},
             Insert(r, kind, supplier, members, by)
      PROVE  /\ room' \in [Rooms -> RoomRows]
             /\ \A q \in Exists : q \in Exists' /\ room'[q] = room[q]
  BY <1>2 DEF Insert, IsFree, TypeInv, RoomRows, Exists, Kinds
<1>3. ASSUME NEW w \in Workers, NEW r \in Rooms, NEW members \in SUBSET Users,
             NEW kind \in {"pair", "guest"}, CreateRoom(w, r, kind, members)
      PROVE  Insert(r, kind, Nobody, members, Nobody) /\ kind \in Kinds
  BY <1>3 DEF CreateRoom, Kinds
<1>4. ASSUME NEW w \in Workers, GroupSave(w)
      PROVE  \E r \in Rooms : \E supplier \in Suppliers, members \in SUBSET Users,
               by \in Users \cup {Nobody} : Insert(r, "group", supplier, members, by)
  <2>1. task[w].target \in Suppliers /\ task[w].user \in Users \cup {Nobody}
    BY <1>4 DEF GroupSave, At, TypeInv, Tasks, Reaches, Records
  <2> QED
    BY <1>4, <2>1 DEF GroupSave, Users
<1>5. ASSUME NEW w \in Workers, SavePrivate(w)
      PROVE  \E r \in Rooms, kind \in Kinds : \E members \in SUBSET Users, by \in Users :
               Insert(r, kind, Nobody, members, by)
  <2>1. task[w].target \in Users /\ task[w].user \in Users
    BY <1>5 DEF SavePrivate, At, TypeInv, Tasks, Reaches
  <2>2. PrivateKind(task[w].user, task[w].target) \in Kinds
    BY DEF PrivateKind, Kinds
  <2> QED
    BY <1>5, <2>1, <2>2 DEF SavePrivate
<1>6. "group" \in Kinds
  BY DEF Kinds
<1> QED
  BY <1>1, <1>2, <1>3, <1>4, <1>5, <1>6, RoomActions, ZenonT(60)

\* A message stays as it was sent, but for the mark that it has been read.
LEMMA MessagesGrow ==
  ASSUME TypeInv, [Next]_vars
  PROVE  /\ message' \in [Messages -> MessageRows] /\ IsFiniteSet(Stored')
         /\ \A m \in Stored :
              /\ m \in Stored' /\ message'[m].room = message[m].room
              /\ message'[m].sender = message[m].sender /\ message'[m].at = message[m].at
              /\ message[m].read => message'[m].read
<1> DEFINE Goal == /\ message' \in [Messages -> MessageRows] /\ IsFiniteSet(Stored')
                   /\ \A m \in Stored :
                        /\ m \in Stored' /\ message'[m].room = message[m].room
                        /\ message'[m].sender = message[m].sender /\ message'[m].at = message[m].at
                        /\ message[m].read => message'[m].read
<1>1. CASE message' = message
  BY <1>1 DEF TypeInv, Stored
<1>2. ASSUME NEW m \in Messages, NEW r \in Rooms, NEW u \in Users \cup {Nobody},
             InsertMessage(m, r, u)
      PROVE  Goal
  <2>1. r # NoRoom
    BY IdsAssumption DEF NoRoom
  <2>2. Stored' = Stored \cup {m}
    BY <1>2, <2>1 DEF InsertMessage, Stored, TypeInv
  <2>3. IsFiniteSet(Stored')
    BY <2>2, FS_AddElement DEF TypeInv
  <2>4. message' \in [Messages -> MessageRows]
    BY <1>2 DEF InsertMessage, TypeInv, MessageRows
  <2> QED
    BY <1>2, <2>2, <2>3, <2>4 DEF InsertMessage, TypeInv, Stored
<1>3. ASSUME NEW w \in Workers, NEW m \in Messages, Mark(w, m) PROVE Goal
  <2>1. message' = [message EXCEPT ![m].read = TRUE]
    BY <1>3 DEF Mark
  <2>2. message' \in [Messages -> MessageRows]
    BY <2>1 DEF TypeInv, MessageRows
  <2>3. \A k \in Messages : /\ message'[k].room = message[k].room
                            /\ message'[k].sender = message[k].sender
                            /\ message'[k].at = message[k].at
                            /\ message[k].read => message'[k].read
    BY <2>1 DEF TypeInv, MessageRows
  <2>4. Stored' = Stored
    BY <2>3 DEF Stored
  <2> QED
    BY <2>2, <2>3, <2>4 DEF TypeInv, Stored
<1>4. ASSUME NEW w \in Workers, SaveMessage(w)
      PROVE  \E m \in Messages : InsertMessage(m, task[w].room, task[w].user)
             /\ task[w].room \in Rooms /\ task[w].user \in Users
  BY <1>4 DEF SaveMessage, At, TypeInv, Tasks, Reaches, Grounded, RoomOps, Exists
<1>5. ASSUME NEW w \in Workers, NEW m \in Messages, NEW r \in Rooms,
             NEW u \in Users \cup {Nobody}, PostHttp(w, m, r, u)
      PROVE  InsertMessage(m, r, u)
  BY <1>5 DEF PostHttp
<1> QED
  BY <1>1, <1>2, <1>3, <1>4, <1>5, MessageActions

-----------------------------------------------------------------------------
(* What a step does to the handlers.                                       *)

Turns(w, u) == Become(w, u) /\ Grounded(u)'

\* What was there stays there.
LEMMA StaysGrounded ==
  ASSUME TypeInv, [Next]_vars, NEW t \in Tasks, Grounded(t)
  PROVE  Grounded(t)'
<1>1. Exists \subseteq Exists' /\ Stored \subseteq Stored'
  BY RoomsGrow, MessagesGrow
<1> QED
  BY <1>1 DEF Grounded

LEMMA IdleStays == Idle \in Tasks /\ Grounded(Idle)'
BY IdleTyped DEF Grounded, Idle, RoomOps

LEMMA HttpTurns ==
  ASSUME TypeInv, HttpNext
  PROVE  \/ task' = task /\ workload' = workload
         \/ \E w \in Workers, u \in Tasks : Turns(w, u)
<1> USE DEF Turns
<1> DEFINE Goal == \E w \in Workers, u \in Tasks : Turns(w, u)
<1>0. [Next]_vars
  BY DEF Next
<1>1. ASSUME NEW w \in Workers, NEW s \in Suppliers, GroupHttp(w, s) PROVE Goal
  <2> DEFINE u == [Idle EXCEPT !.op = "GroupHttp", !.pc = "groupSave", !.target = s]
  <2>1. u \in Tasks /\ Grounded(u)
    BY IdleTyped DEF Idle, Tasks, Records, Reaches, Grounded, Pcs, RoomOps, AllOps
  <2> QED
    BY <1>0, <1>1, <2>1, StaysGrounded DEF GroupHttp
<1>2. ASSUME NEW w \in Workers, GroupSave(w) PROVE Goal
  <2>1. CASE task[w].op = "Connect"
    <3> DEFINE u == [task[w] EXCEPT !.pc = "direct"]
    <3>1. u \in Tasks /\ Grounded(u)
      BY <1>2, <2>1 DEF GroupSave, At, TypeInv, Tasks, Records, Reaches, Grounded, Pcs, RoomOps
    <3> QED
      BY <1>0, <1>2, <2>1, <3>1, StaysGrounded DEF GroupSave, Goto
  <2>2. CASE task[w].op # "Connect"
    BY <1>2, <2>2, IdleStays DEF GroupSave, Finish
  <2> QED
    BY <2>1, <2>2
<1>3. ASSUME NEW w \in Workers, NEW v \in Users, PrivateHttp(w, v) PROVE Goal
  <2> DEFINE u == [Idle EXCEPT !.op = "PrivateHttp", !.pc = "privateSave", !.user = First,
                               !.target = v]
  <2>0. First \in Users
    BY UsersAssumption DEF Users
  <2>1. u \in Tasks /\ Grounded(u)
    BY <2>0, IdleTyped DEF Idle, Tasks, Records, Reaches, Grounded, Pcs, RoomOps, AllOps
  <2> QED
    BY <1>0, <1>3, <2>1, StaysGrounded DEF PrivateHttp
<1>4. ASSUME NEW w \in Workers, NEW r \in Rooms, LoadHttp(w, r) PROVE Goal
  <2> DEFINE new == {m \in Posted(r) : ~message[m].read}
             u == [Idle EXCEPT !.op = "LoadHttp", !.pc = "mark", !.room = r, !.unread = new]
  <2>0. new \subseteq Stored /\ new \subseteq Messages /\ r \in Exists
    BY <1>4 DEF Posted, Stored, LoadHttp, GroupsOf
  <2>1. u \in Tasks /\ Grounded(u)
    BY <2>0, IdleTyped, ZenonT(60) DEF Idle, Tasks, Records, Reaches, Grounded, Pcs, RoomOps, AllOps
  <2> QED
    BY <1>0, <1>4, <2>1, StaysGrounded DEF LoadHttp
<1>5. ASSUME \/ Tick
             \/ \E w \in Workers, r \in Rooms, members \in SUBSET Users, kind \in {"pair", "guest"} :
                  CreateRoom(w, r, kind, members)
             \/ \E w \in Workers, m \in Messages, r \in Rooms, u \in Users \cup {Nobody} :
                  PostHttp(w, m, r, u)
      PROVE  task' = task /\ workload' = workload
  BY <1>5 DEF Tick, CreateRoom, PostHttp
<1> QED
  BY <1>1, <1>2, <1>3, <1>4, <1>5 DEF HttpNext

\* A request of a client.
LEMMA RequestTurns ==
  ASSUME TypeInv, [Next]_vars, NEW w \in Workers, NEW s \in Sockets,
         \/ \E u \in Users : Connect(w, s, u)
         \/ \E r \in Rooms : Send(w, s, r) \/ Load(w, s, r) \/ Page(w, s, r)
         \/ \E v \in Users : Private(w, s, v)
  PROVE  \E u \in Tasks : Turns(w, u)
<1> DEFINE Goal == \E u \in Tasks : Turns(w, u)
<1>0. socket[s].user \in Users \cup {Nobody} /\ (Known(s) => socket[s].user \in Users)
  BY DEF TypeInv, SocketRows, Known
<1>a. ASSUME NEW u \in Tasks, Grounded(u), Become(w, u) PROVE Goal
  BY <1>a, StaysGrounded DEF Turns
<1>1. ASSUME NEW u \in Users, Connect(w, s, u) PROVE Goal
  <2> DEFINE t == [Idle EXCEPT !.op = "Connect", !.pc = "auth", !.socket = s, !.user = u]
  <2>1. t \in Tasks /\ Grounded(t)
    BY IdleTyped, ZenonT(60) DEF Idle, Tasks, Records, Reaches, Grounded, Pcs, RoomOps, AllOps
  <2>2. Become(w, t)
    BY <1>1 DEF Connect
  <2> QED
    BY ONLY <1>a, <2>1, <2>2
<1>2. ASSUME NEW r \in Rooms, NEW op \in {"Send", "Join", "Page"},
             NEW pc \in {"save", "fetch", "page"},
             pc = "save" <=> op = "Send", pc = "page" <=> op = "Page",
             Ask(w, op, s, [Idle EXCEPT !.pc = pc, !.room = r]), MayUse(socket[s].user, r)
      PROVE  Goal
  <2> DEFINE t == [Idle EXCEPT !.op = op, !.pc = pc, !.room = r, !.socket = s, !.user = socket[s].user]
  <2>1. t \in Tasks /\ Grounded(t)
    BY <1>0, <1>2, IdleTyped, ZenonT(60) DEF Ask, MayUse, Idle, Tasks, Records, Reaches, Grounded, Pcs, RoomOps,
                                 AllOps
  <2>2. t = [[Idle EXCEPT !.pc = pc, !.room = r]
               EXCEPT !.op = op, !.socket = s, !.user = socket[s].user]
    BY DEF Idle
  <2>3. Become(w, t)
    BY <1>2, <2>2 DEF Ask
  <2> QED
    BY ONLY <1>a, <2>1, <2>3
<1>3. ASSUME NEW r \in Rooms, NEW more \in BOOLEAN,
             Ask(w, "Load", s, [Idle EXCEPT !.pc = "fetch", !.room = r, !.more = more]),
             MayUse(socket[s].user, r)
      PROVE  Goal
  <2> DEFINE t == [Idle EXCEPT !.op = "Load", !.pc = "fetch", !.room = r, !.more = more,
                               !.socket = s, !.user = socket[s].user]
  <2>1. t \in Tasks /\ Grounded(t)
    BY <1>0, <1>3, IdleTyped, ZenonT(60) DEF Ask, MayUse, Idle, Tasks, Records, Reaches, Grounded, Pcs, RoomOps,
                                 AllOps
  <2>2. t = [[Idle EXCEPT !.pc = "fetch", !.room = r, !.more = more]
               EXCEPT !.op = "Load", !.socket = s, !.user = socket[s].user]
    BY DEF Idle
  <2>3. Become(w, t)
    BY <1>3, <2>2 DEF Ask
  <2> QED
    BY ONLY <1>a, <2>1, <2>3
<1>4. ASSUME NEW r \in Rooms, Send(w, s, r) PROVE Goal
  BY <1>2, <1>4 DEF Send
<1>5. ASSUME NEW r \in Rooms, Load(w, s, r) PROVE Goal
  <2>1. (r \in joined[s]) \in BOOLEAN
    OBVIOUS
  <2>2. CASE Ask(w, "Load", s, [Idle EXCEPT !.pc = "fetch", !.room = r, !.more = r \in joined[s]])
    BY ONLY <1>3, <1>5, <2>1, <2>2, Zenon DEF Load
  <2>3. CASE Ask(w, "Join", s, [Idle EXCEPT !.pc = "fetch", !.room = r])
    BY <1>2, <1>5, <2>3 DEF Load
  <2> QED
    BY <1>5, <2>2, <2>3 DEF Load
<1>6. ASSUME NEW r \in Rooms, Page(w, s, r) PROVE Goal
  BY <1>2, <1>6 DEF Page
<1>7. ASSUME NEW v \in Users, Private(w, s, v) PROVE Goal
  <2> DEFINE t == [Idle EXCEPT !.op = "Private", !.pc = "find", !.target = v, !.socket = s,
                               !.user = socket[s].user]
  <2>1. t \in Tasks /\ Grounded(t)
    BY <1>0, <1>7, IdleTyped DEF Private, Ask, Idle, Tasks, Records, Reaches, Grounded, Pcs, RoomOps,
                                 AllOps
  <2>2. t = [[Idle EXCEPT !.pc = "find", !.target = v]
               EXCEPT !.op = "Private", !.socket = s, !.user = socket[s].user]
    BY DEF Idle
  <2>3. Become(w, t)
    BY <1>7, <2>2 DEF Private, Ask
  <2> QED
    BY ONLY <1>a, <2>1, <2>3
<1> QED
  BY <1>1, <1>4, <1>5, <1>6, <1>7

\* A step of a handler of the gateway.
LEMMA HandlerTurns ==
  ASSUME TypeInv, [Next]_vars, NEW w \in Workers,
         \/ Authenticated(w) \/ FindGroup(w) \/ FindDirect(w) \/ JoinAll(w)
         \/ SaveMessage(w) \/ Emit(w) \/ Fetch(w)
         \/ \E m \in Messages : Mark(w, m)
         \/ Reply(w) \/ FetchPage(w) \/ FindPrivate(w) \/ SavePrivate(w) \/ JoinBoth(w)
         \/ Fail(w)
  PROVE  \E u \in Tasks : Turns(w, u)
<1> DEFINE Goal == \E u \in Tasks : Turns(w, u)
<1>0. PICK t \in Tasks : t = task[w] /\ Grounded(t)
  BY DEF TypeInv
<1>c. Grounded(t)'
  BY <1>0, StaysGrounded
<1>a. ASSUME NEW u \in Tasks, Grounded(u), Become(w, u) PROVE Goal
  BY <1>a, StaysGrounded DEF Turns
<1>b. ASSUME Finish(w) PROVE Goal
  BY <1>a, <1>b, IdleTyped DEF Finish
<1> USE DEF At, Goto, Tasks, Records, Reaches, Grounded, Pcs, RoomOps
<1>1. CASE Authenticated(w)
  <2> DEFINE u == [t EXCEPT !.pc = IF t.user \in Employees THEN "group" ELSE "direct"]
  <2>1. u \in Tasks /\ Grounded(u)
    BY <1>0, <1>1 DEF Authenticated
  <2>2. Become(w, u)
    BY <1>0, <1>1 DEF Authenticated
  <2> QED
    BY ONLY <1>a, <2>1, <2>2
<1>2. CASE FindGroup(w)
  <2> DEFINE s == SupplierOf[t.user]
             pc == IF GroupsOf(s) = {} THEN "groupSave" ELSE "direct"
             u == [t EXCEPT !.target = s, !.pc = pc]
  <2>1. s \in Suppliers
    BY <1>0, <1>2, UsersAssumption DEF FindGroup
  <2>2. t.pc = "group" /\ Become(w, u)
    BY <1>0, <1>2 DEF FindGroup
  <2>a. pc \in {"groupSave", "direct"}
    OBVIOUS
  <2> HIDE DEF s, pc
  <2>3. u \in Tasks /\ Grounded(u)
    BY <1>0, <2>1, <2>2, <2>a, ZenonT(60)
  <2> QED
    BY ONLY <1>a, <2>2, <2>3
<1>3. CASE FindDirect(w)
  <2> DEFINE found == DirectRooms(t.user)
             u == [t EXCEPT !.rooms = found, !.pc = "joinAll"]
  <2>1. found \subseteq Exists /\ found \subseteq Rooms
    BY DEF DirectRooms, Exists
  <2>2. u \in Tasks /\ Grounded(u)
    BY <1>0, <1>3, <2>1, ZenonT(60) DEF FindDirect
  <2>3. Become(w, u)
    BY <1>0, <1>3 DEF FindDirect
  <2> QED
    BY ONLY <1>a, <2>2, <2>3
<1>4. CASE SaveMessage(w)
  <2>1. PICK m \in Messages : InsertMessage(m, t.room, t.user)
                               /\ Become(w, [t EXCEPT !.pc = "emit", !.got = {m}])
    BY <1>0, <1>4 DEF SaveMessage
  <2> DEFINE u == [t EXCEPT !.pc = "emit", !.got = {m}]
  <2>2. u \in Tasks
    BY <1>0, <1>4 DEF SaveMessage
  <2>3. t.room # NoRoom
    BY <1>0, <1>4, IdsAssumption DEF SaveMessage, Exists, NoRoom
  <2>4. m \in Stored'
    BY <2>1, <2>3 DEF InsertMessage, Stored, TypeInv
  <2>5. Grounded(u)'
    BY <1>0, <1>4, <1>c, <2>4 DEF SaveMessage
  <2> QED
    BY ONLY <2>1, <2>2, <2>5 DEF Turns
<1>5. CASE Fetch(w)
  <2> DEFINE got == Posted(t.room)
             u == [t EXCEPT !.got = got, !.unread = Unread(got, t.user), !.pc = "mark"]
  <2>1. got \subseteq Stored /\ got \subseteq Messages /\ Unread(got, t.user) \subseteq got
    BY DEF Posted, Stored, Unread
  <2>2. t.pc = "fetch" /\ Become(w, u)
    BY <1>0, <1>5 DEF Fetch
  <2> HIDE DEF got
  <2>3. u \in Tasks /\ Grounded(u)
    BY <1>0, <2>1, <2>2, ZenonT(60)
  <2> QED
    BY ONLY <1>a, <2>2, <2>3
<1>6. ASSUME NEW m \in Messages, Mark(w, m) PROVE Goal
  <2> DEFINE u == [t EXCEPT !.unread = @ \ {m}]
  <2>1. u \in Tasks /\ Grounded(u)
    BY <1>0, <1>6 DEF Mark
  <2>2. Become(w, u)
    BY <1>0, <1>6 DEF Mark
  <2> QED
    BY ONLY <1>a, <2>1, <2>2
<1>7. CASE FetchPage(w)
  <2> DEFINE p == socket[t.socket].page
             rest == Older(Posted(t.room), p.next)
             got == Newest(rest, PageSize)
             more == Cardinality(rest) > PageSize
             u == [t EXCEPT !.got = got, !.unread = Unread(got, t.user), !.pc = "mark",
                            !.more = more]
  <2>1. rest \subseteq Stored /\ rest \subseteq Nat /\ IsFiniteSet(rest)
    BY FS_Subset, IdsAssumption DEF TypeInv, Older, Posted, Stored
  <2>2. got \subseteq rest /\ (rest # {} => got # {})
    BY <2>1, NewestOf, PageAssumption
  <2>3. more => rest # {}
    BY FS_EmptySet, PageAssumption
  <2>4. got \subseteq Stored /\ got \subseteq Messages /\ Unread(got, t.user) \subseteq got
    BY <2>1, <2>2 DEF Stored, Unread
  <2>5. more \in BOOLEAN /\ (more => got # {})
    BY <2>2, <2>3
  <2>6. Become(w, u)
    BY <1>0, <1>7 DEF FetchPage
  <2>7. t.pc = "page"
    BY <1>0, <1>7 DEF FetchPage
  <2> HIDE DEF got, more
  <2>8. u \in Tasks /\ Grounded(u)
    BY <1>0, <2>4, <2>5, <2>7, ZenonT(60)
  <2> QED
    BY ONLY <1>a, <2>6, <2>8
<1>8. ASSUME NEW r \in Rooms, t.op = "Private", r \in Exists', t.pc \in {"find", "privateSave"},
             Become(w, [t EXCEPT !.room = r, !.pc = "joinBoth"])
      PROVE  Goal
  <2> DEFINE u == [t EXCEPT !.room = r, !.pc = "joinBoth"]
  <2>1. u \in Tasks
    BY <1>0, <1>8, ZenonT(60)
  <2>2. Grounded(u)'
    BY <1>0, <1>c, <1>8
  <2> QED
    BY ONLY <1>8, <2>1, <2>2 DEF Turns
<1>9. CASE FindPrivate(w)
  <2>1. ASSUME NEW r \in PrivateRooms(t.user, t.target),
               Become(w, [t EXCEPT !.room = r, !.pc = "joinBoth"])
        PROVE  Goal
    <3>1. r \in Exists /\ r \in Rooms /\ r \in Exists'
      BY RoomsGrow DEF PrivateRooms, Exists
    <3> QED
      BY <1>0, <1>8, <1>9, <2>1, <3>1 DEF FindPrivate
  <2>2. ASSUME Become(w, [t EXCEPT !.pc = "privateSave"]) PROVE Goal
    <3> DEFINE u == [t EXCEPT !.pc = "privateSave"]
    <3>1. u \in Tasks /\ Grounded(u)
      BY <1>0, <1>9 DEF FindPrivate
    <3> QED
      BY ONLY <1>a, <2>2, <3>1
  <2> QED
    BY <1>0, <1>9, <2>1, <2>2 DEF FindPrivate
<1>10. CASE SavePrivate(w)
  <2>1. PICK r \in Rooms :
          /\ Insert(r, PrivateKind(t.user, t.target), Nobody, {t.user, t.target}, t.user)
          /\ IF t.op = "Private" THEN Become(w, [t EXCEPT !.room = r, !.pc = "joinBoth"])
             ELSE Finish(w)
    BY <1>0, <1>10 DEF SavePrivate
  <2>2. r \in Exists'
    BY <2>1 DEF Insert, Exists, PrivateKind, TypeInv
  <2> QED
    BY <1>0, <1>8, <1>10, <1>b, <2>1, <2>2 DEF SavePrivate
<1>11. CASE Fail(w)
  <2>1. CASE t.pc \in {"group", "groupSave"} /\ t.op = "Connect"
    <3> DEFINE u == [t EXCEPT !.pc = "direct"]
    <3>1. u \in Tasks /\ Grounded(u)
      BY <1>0, <2>1
    <3>2. Become(w, u)
      BY <1>0, <1>11, <2>1 DEF Fail
    <3> QED
      BY ONLY <1>a, <3>1, <3>2
  <2> QED
    BY <1>0, <1>11, <1>b, <2>1 DEF Fail
<1>12. CASE JoinAll(w) \/ Emit(w) \/ Reply(w) \/ JoinBoth(w)
  BY <1>12, <1>b DEF JoinAll, Emit, Reply, JoinBoth
<1> QED
  BY <1>1, <1>2, <1>3, <1>4, <1>5, <1>6, <1>7, <1>9, <1>10, <1>11, <1>12

\* Handlers keep their types.
LEMMA TasksTyped ==
  ASSUME TypeInv, [Next]_vars
  PROVE  /\ workload' = workload /\ task' \in [Workers -> Tasks]
         /\ \A w \in Workers : Grounded(task[w])'
<1> DEFINE Goal == /\ workload' = workload /\ task' \in [Workers -> Tasks]
                   /\ \A w \in Workers : Grounded(task[w])'
<1>1. ASSUME NEW w \in Workers, NEW u \in Tasks, Turns(w, u) PROVE Goal
  <2>1. workload' = workload /\ task' = [task EXCEPT ![w] = u] /\ Grounded(u)'
    BY <1>1 DEF Turns, Become
  <2>2. task' \in [Workers -> Tasks] /\ task'[w] = u
    BY <2>1 DEF TypeInv
  <2>3. ASSUME NEW v \in Workers PROVE Grounded(task[v])'
    <3>1. PICK t \in Tasks : t = task[v] /\ Grounded(t)
      BY DEF TypeInv
    <3>2. Grounded(t)'
      BY <3>1, StaysGrounded
    <3>3. CASE v = w
      BY <2>1, <2>2, <3>3 DEF Grounded
    <3>4. CASE v # w
      <4>1. task'[v] = t
        BY <2>1, <3>1, <3>4 DEF TypeInv
      <4> QED
        BY <3>2, <4>1 DEF Grounded
    <3> QED
      BY <3>3, <3>4
  <2> QED
    BY <2>1, <2>2, <2>3
<1>2. ASSUME task' = task, workload' = workload PROVE Goal
  <2>1. ASSUME NEW v \in Workers PROVE Grounded(task[v])'
    <3>1. PICK t \in Tasks : t = task[v] /\ Grounded(t)
      BY DEF TypeInv
    <3>2. Grounded(t)'
      BY <3>1, StaysGrounded
    <3> QED
      BY <1>2, <3>1, <3>2 DEF Grounded
  <2> QED
    BY <1>2, <2>1 DEF TypeInv
<1>3. CASE GatewayNext
  <2>1. ASSUME NEW s \in Sockets, Disconnect(s) \/ \E r \in Rooms : Leave(s, r)
        PROVE  task' = task /\ workload' = workload
    BY <2>1 DEF Disconnect, Leave
  <2>2. ASSUME NEW w \in Workers, NEW s \in Sockets,
               \/ \E u \in Users : Connect(w, s, u)
               \/ \E r \in Rooms : Send(w, s, r) \/ Load(w, s, r) \/ Page(w, s, r)
               \/ \E v \in Users : Private(w, s, v)
        PROVE  Goal
    <3>1. \E u \in Tasks : Turns(w, u)
      BY <2>2, RequestTurns
    <3> QED
      BY ONLY <1>1, <3>1
  <2>3. ASSUME NEW w \in Workers,
               \/ Authenticated(w) \/ FindGroup(w) \/ FindDirect(w) \/ JoinAll(w)
               \/ SaveMessage(w) \/ Emit(w) \/ Fetch(w)
               \/ \E m \in Messages : Mark(w, m)
               \/ Reply(w) \/ FetchPage(w) \/ FindPrivate(w) \/ SavePrivate(w) \/ JoinBoth(w)
               \/ Fail(w)
        PROVE  Goal
    <3>1. \E u \in Tasks : Turns(w, u)
      BY <2>3, HandlerTurns
    <3> QED
      BY ONLY <1>1, <3>1
  <2> QED
    BY <1>2, <1>3, <2>1, <2>2, <2>3 DEF GatewayNext
<1>4. CASE UNCHANGED vars
  BY <1>2, <1>4 DEF vars
<1> QED
  BY <1>1, <1>2, <1>3, <1>4, HttpTurns DEF Next

-----------------------------------------------------------------------------
(* What a step does to the sockets.                                        *)

\* Sockets are touched by connections, replies, broadcasts and by those who
\* join and leave rooms.
LEMMA SocketActions ==
  ASSUME [Next]_vars
  PROVE  \/ UNCHANGED sockets
         \/ \E w \in Workers :
              \/ \E s \in Sockets, u \in Users : Connect(w, s, u)
              \/ Authenticated(w) \/ JoinAll(w) \/ Emit(w) \/ Reply(w) \/ FetchPage(w)
              \/ JoinBoth(w)
         \/ \E s \in Sockets : Disconnect(s) \/ \E r \in Rooms : Leave(s, r)
<1>1. CASE HttpNext
  BY <1>1 DEF HttpNext, Tick, GroupHttp, GroupSave, PrivateHttp, PostHttp, LoadHttp, CreateRoom
<1>2. CASE GatewayNext
  <2>1. ASSUME NEW w \in Workers, NEW s \in Sockets,
               \/ \E r \in Rooms : Send(w, s, r) \/ Load(w, s, r) \/ Page(w, s, r)
               \/ \E v \in Users : Private(w, s, v)
        PROVE  UNCHANGED sockets
    BY <2>1 DEF Send, Load, Page, Private, Ask
  <2>2. ASSUME NEW w \in Workers, \/ FindGroup(w) \/ FindDirect(w) \/ SaveMessage(w) \/ Fetch(w)
                                  \/ \E m \in Messages : Mark(w, m)
                                  \/ FindPrivate(w) \/ SavePrivate(w) \/ Fail(w)
        PROVE  UNCHANGED sockets
    BY <2>2 DEF FindGroup, FindDirect, SaveMessage, Fetch, Mark, FindPrivate, SavePrivate, Fail
  <2> QED
    BY <1>2, <2>1, <2>2 DEF GatewayNext
<1>3. CASE UNCHANGED vars
  BY <1>3 DEF vars, sockets
<1> QED
  BY <1>1, <1>2, <1>3 DEF Next

SocketTypes(socks, cl, js, cs, ss, rooms, ms) ==
  /\ socks \in [Sockets -> SocketRows] /\ cl \subseteq Sockets
  /\ js \in [Sockets -> SUBSET rooms] /\ cs \in [Sockets -> SUBSET rooms]
  /\ ss \in [Sockets -> SUBSET ms]

\* Sockets keep their types.
LEMMA SocketsTyped ==
  ASSUME TypeInv, [Next]_vars
  PROVE  SocketTypes(socket', clients', joined', caught', seen', Exists', Stored')
<1> USE DEF SocketTypes, TypeInv
<1> DEFINE Goal == SocketTypes(socket', clients', joined', caught', seen', Exists', Stored')
<1>0. Exists \subseteq Exists' /\ Stored \subseteq Stored'
  BY RoomsGrow, MessagesGrow
<1>a. ASSUME SocketTypes(socket', clients', joined', caught', seen', Exists, Stored) PROVE Goal
  BY <1>0, <1>a
<1>b. \A w \in Workers : task[w] \in Tasks /\ Grounded(task[w])
  OBVIOUS
<1>1. ASSUME NEW w \in Workers, NEW s \in Sockets, NEW u \in Users, Connect(w, s, u) PROVE Goal
  BY <1>a, <1>1 DEF Connect, SocketRows
<1>2. ASSUME NEW w \in Workers, Authenticated(w) PROVE Goal
  <2>1. task[w].socket \in Sockets /\ task[w].user \in Users
    BY <1>2, <1>b DEF Authenticated, At, Tasks, Reaches
  <2>2. socket' \in [Sockets -> SocketRows]
    BY <1>2, <2>1 DEF Authenticated, SocketRows
  <2> QED
    BY <1>a, <1>2, <2>1, <2>2 DEF Authenticated
<1>3. ASSUME NEW w \in Workers, JoinAll(w) PROVE Goal
  <2> DEFINE t == task[w]
             groups == IF t.user \in Employees THEN GroupsOf(SupplierOf[t.user]) ELSE {}
  <2>1. PICK found \in SUBSET groups : joined' = [joined EXCEPT ![t.socket] = @ \cup t.rooms \cup found]
    BY <1>3 DEF JoinAll
  <2>2. groups \subseteq Exists /\ t.rooms \subseteq Exists
    BY <1>b DEF GroupsOf, Grounded
  <2>3. joined' \in [Sockets -> SUBSET Exists]
    BY <2>1, <2>2
  <2> QED
    BY <1>a, <1>3, <2>3 DEF JoinAll
<1>4. ASSUME NEW w \in Workers, Emit(w) PROVE Goal
  <2>1. task[w].got \subseteq Stored
    BY <1>b DEF Grounded
  <2>2. seen' \in [Sockets -> SUBSET Stored]
    BY <1>4, <2>1 DEF Emit, Receive
  <2> QED
    BY <1>a, <1>4, <2>2 DEF Emit
<1>5. ASSUME NEW w \in Workers, Reply(w) PROVE Goal
  <2> DEFINE t == task[w]
             s == t.socket
             reads == t.op \in {"Load", "Page"}
  <2>1. CASE t.op = "LoadHttp"
    BY <1>a, <1>5, <2>1 DEF Reply, sockets
  <2>2. CASE t.op # "LoadHttp"
    <3>1. t.got \subseteq Stored /\ t.got \subseteq Messages /\ t.room \in Exists /\ s \in Sockets
          /\ t.op \in {"Load", "Join", "Page"} /\ (t.op = "Page" /\ t.more => t.got # {})
      BY <1>b, <1>5, <2>2 DEF Reply, At, Tasks, Records, Reaches, Grounded, RoomOps
    <3>2. /\ Receive(IF reads THEN {s} ELSE {}, t.got)
          /\ joined' = [joined EXCEPT ![s] = IF reads THEN @ ELSE @ \cup {t.room}]
          /\ caught' = [caught EXCEPT ![s] =
               IF t.op = "Load" /\ t.more /\ t.room \in joined[s] THEN @ \cup {t.room} ELSE @]
          /\ socket' = [socket EXCEPT ![s].page = IF t.op = "Page" THEN Turned(@, t) ELSE @]
          /\ clients' = clients
      BY <1>5, <2>2 DEF Reply
    <3>3. seen' \in [Sockets -> SUBSET Stored]
      BY <3>1, <3>2 DEF Receive
    <3>4. joined' \in [Sockets -> SUBSET Exists] /\ caught' \in [Sockets -> SUBSET Exists]
      BY <3>1, <3>2
    <3>5. ASSUME NEW p \in Pages, t.op = "Page" PROVE Turned(p, t) \in Pages
      <4>1. t.more => Min(t.got) \in Messages
        BY <3>1, <3>5, IdsAssumption, MinOfNaturals
      <4> QED
        BY <3>1, <4>1 DEF Turned, Pages
    <3>6. socket' \in [Sockets -> SocketRows]
      BY <3>1, <3>2, <3>5 DEF SocketRows
    <3> QED
      BY <1>a, <3>2, <3>3, <3>4, <3>6
  <2> QED
    BY <2>1, <2>2
<1>6. ASSUME NEW w \in Workers, FetchPage(w) PROVE Goal
  <2> DEFINE t == task[w]
             p == socket[t.socket].page
             q == IF p.state = "none" THEN [p EXCEPT !.room = t.room, !.base = Posted(t.room)] ELSE p
  <2>1. t.socket \in Sockets /\ t.room \in Rooms
    BY <1>b, <1>6 DEF FetchPage, At, Tasks, Reaches, Grounded, RoomOps, Exists
  <2>2. p \in Pages /\ Posted(t.room) \subseteq Messages
    BY <2>1 DEF SocketRows, Posted, Stored
  <2>3. q \in Pages
    BY <2>1, <2>2 DEF Pages
  <2>4. socket' = [socket EXCEPT ![t.socket].page = q]
    BY <1>6 DEF FetchPage
  <2> HIDE DEF q
  <2>5. socket' \in [Sockets -> SocketRows]
    BY <2>1, <2>3, <2>4 DEF SocketRows
  <2> QED
    BY <1>a, <1>6, <2>5 DEF FetchPage
<1>7. ASSUME NEW w \in Workers, JoinBoth(w) PROVE Goal
  <2>1. task[w].room \in Exists
    BY <1>b, <1>7 DEF JoinBoth, At, Grounded
  <2>2. joined' \in [Sockets -> SUBSET Exists]
    BY <1>7, <2>1 DEF JoinBoth
  <2> QED
    BY <1>a, <1>7, <2>2 DEF JoinBoth
<1>8. ASSUME NEW s \in Sockets, Disconnect(s) PROVE Goal
  <2>1. socket' \in [Sockets -> SocketRows]
    BY <1>8 DEF Disconnect, SocketRows
  <2> QED
    BY <1>a, <1>8, <2>1 DEF Disconnect
<1>9. ASSUME NEW s \in Sockets, NEW r \in Rooms, Leave(s, r) PROVE Goal
  BY <1>a, <1>9 DEF Leave
<1>10. ASSUME UNCHANGED sockets PROVE Goal
  BY <1>a, <1>10 DEF sockets
<1> QED
  BY <1>1, <1>2, <1>3, <1>4, <1>5, <1>6, <1>7, <1>8, <1>9, <1>10, SocketActions

LEMMA Typed == TypeInv /\ [Next]_vars => TypeInv'
<1> SUFFICES ASSUME TypeInv, [Next]_vars PROVE TypeInv'
  OBVIOUS
<1>1. workload' \in Workloads
  BY TasksTyped DEF TypeInv
<1>2. clock' \in 0..MaxTime
  BY ClockActions, PageAssumption DEF Tick, TypeInv
<1>3. SocketTypes(socket', clients', joined', caught', seen', Exists', Stored')
  BY SocketsTyped
<1>4. room' \in [Rooms -> RoomRows] /\ message' \in [Messages -> MessageRows] /\ IsFiniteSet(Stored')
  BY RoomsGrow, MessagesGrow
<1>5. task' \in [Workers -> Tasks] /\ \A w \in Workers : Grounded(task[w])'
  BY TasksTyped
<1> QED
  BY <1>1, <1>2, <1>3, <1>4, <1>5 DEF TypeInv, SocketTypes

LEMMA TypeInvImpliesTypeOK == TypeInv => TypeOK
BY DEF TypeInv, TypeOK, RoomRows, MessageRows, SocketRows, Pages, PageOK, Kinds

LEMMA TypeInvariant == Spec => []TypeInv
BY InitTyped, Typed, PTL DEF Spec

\* The rows, sockets and histories of the chat keep their types: no socket is
\* in a room that does not exist, none has received a message that was not
\* stored, and times stay within their bound.
THEOREM ChatTypeCorrect == Spec => []TypeOK
BY TypeInvariant, TypeInvImpliesTypeOK, PTL

-----------------------------------------------------------------------------
(* One handler at a time.                                                  *)

\* A request or a step of the handler.
Acts(w) ==
  \/ \E s \in Sockets :
       \/ \E u \in Users : Connect(w, s, u) \/ Private(w, s, u)
       \/ \E r \in Rooms : Send(w, s, r) \/ Load(w, s, r) \/ Page(w, s, r)
  \/ Authenticated(w) \/ FindGroup(w) \/ FindDirect(w) \/ JoinAll(w)
  \/ SaveMessage(w) \/ Emit(w) \/ Fetch(w) \/ \E m \in Messages : Mark(w, m)
  \/ Reply(w) \/ FetchPage(w) \/ FindPrivate(w) \/ SavePrivate(w) \/ JoinBoth(w) \/ Fail(w)
  \/ \E s \in Suppliers : GroupHttp(w, s)
  \/ GroupSave(w) \/ \E v \in Users : PrivateHttp(w, v)
  \/ \E r \in Rooms : LoadHttp(w, r)

\* Where a step leaves its handler.
LEMMA PcAfter ==
  ASSUME TypeInv, NEW w \in Workers
  PROVE  /\ \A s \in Sockets :
              /\ \A u \in Users : /\ Connect(w, s, u) => task'[w].pc = "auth"
                                  /\ Private(w, s, u) => task'[w].pc = "find"
              /\ \A r \in Rooms : /\ Send(w, s, r) => task'[w].pc = "save"
                                  /\ Load(w, s, r) => task'[w].pc = "fetch"
                                  /\ Page(w, s, r) => task'[w].pc = "page"
         /\ Authenticated(w) => task'[w].pc \in {"group", "direct"}
         /\ FindGroup(w) => task'[w].pc \in {"groupSave", "direct"}
         /\ FindDirect(w) => task'[w].pc = "joinAll"
         /\ SaveMessage(w) => task'[w].pc = "emit"
         /\ Fetch(w) \/ FetchPage(w) \/ (\E m \in Messages : Mark(w, m)) => task'[w].pc = "mark"
         /\ FindPrivate(w) => task'[w].pc \in {"joinBoth", "privateSave"}
         /\ SavePrivate(w) => task'[w].pc \in {"joinBoth", "idle"}
         /\ JoinAll(w) \/ Emit(w) \/ Reply(w) \/ JoinBoth(w) => task'[w] = Idle
         /\ Fail(w) \/ GroupSave(w) => task'[w].pc \in {"direct", "idle"}
         /\ \A s \in Suppliers : GroupHttp(w, s) => task'[w].pc = "groupSave"
         /\ \A v \in Users : PrivateHttp(w, v) => task'[w].pc = "privateSave"
         /\ \A r \in Rooms : LoadHttp(w, r) => task'[w].pc = "mark"
<1>0. task \in [Workers -> Tasks] /\ task[w] \in Records
  BY DEF TypeInv, Tasks
<1>1. \A t : Become(w, t) => task'[w] = t
  BY <1>0 DEF Become
<1> USE DEF Idle, Records, Ask, Goto, Finish, At
<1>2. ASSUME NEW s \in Sockets
      PROVE  /\ \A u \in Users : /\ Connect(w, s, u) => task'[w].pc = "auth"
                                 /\ Private(w, s, u) => task'[w].pc = "find"
             /\ \A r \in Rooms : /\ Send(w, s, r) => task'[w].pc = "save"
                                 /\ Load(w, s, r) => task'[w].pc = "fetch"
                                 /\ Page(w, s, r) => task'[w].pc = "page"
  <2>1. \A u \in Users : Connect(w, s, u) => task'[w].pc = "auth"
    BY <1>0 DEF Connect, Become
  <2>2. \A u \in Users : Private(w, s, u) => task'[w].pc = "find"
    BY <1>0 DEF Private, Become
  <2>3. \A r \in Rooms : Send(w, s, r) => task'[w].pc = "save"
    BY <1>0 DEF Send, Become
  <2>4. \A r \in Rooms : Load(w, s, r) => task'[w].pc = "fetch"
    <3>1. ASSUME NEW r \in Rooms, NEW op, NEW more,
                 Ask(w, op, s, [Idle EXCEPT !.pc = "fetch", !.room = r, !.more = more])
          PROVE  task'[w].pc = "fetch"
      BY <1>0, <3>1 DEF Become
    <3>2. ASSUME NEW r \in Rooms, NEW op, Ask(w, op, s, [Idle EXCEPT !.pc = "fetch", !.room = r])
          PROVE  task'[w].pc = "fetch"
      BY <1>0, <3>2 DEF Become
    <3> QED
      BY <3>1, <3>2 DEF Load
  <2>5. \A r \in Rooms : Page(w, s, r) => task'[w].pc = "page"
    BY <1>0 DEF Page, Become
  <2> QED
    BY <2>1, <2>2, <2>3, <2>4, <2>5
<1>3. Authenticated(w) => task'[w].pc \in {"group", "direct"}
  BY <1>0 DEF Authenticated, Become
<1>4. FindGroup(w) => task'[w].pc \in {"groupSave", "direct"}
  BY <1>0 DEF FindGroup, Become
<1>5. FindDirect(w) => task'[w].pc = "joinAll"
  BY <1>0 DEF FindDirect, Become
<1>6. SaveMessage(w) => task'[w].pc = "emit"
  BY <1>0 DEF SaveMessage, Become
<1>7. Fetch(w) \/ FetchPage(w) \/ (\E m \in Messages : Mark(w, m)) => task'[w].pc = "mark"
  BY <1>0, ZenonT(60) DEF Fetch, FetchPage, Mark, Become
<1>8. FindPrivate(w) => task'[w].pc \in {"joinBoth", "privateSave"}
  BY <1>0 DEF FindPrivate, Become
<1>9. SavePrivate(w) => task'[w].pc \in {"joinBoth", "idle"}
  <2>1. CASE task[w].op = "Private"
    BY <1>0, <2>1 DEF SavePrivate, Become
  <2>2. CASE task[w].op # "Private"
    BY <1>0, <2>2 DEF SavePrivate, Become
  <2> QED
    BY <2>1, <2>2
<1>10. JoinAll(w) \/ Emit(w) \/ Reply(w) \/ JoinBoth(w) => task'[w] = Idle
  BY <1>1 DEF JoinAll, Emit, Reply, JoinBoth
<1>11. Fail(w) \/ GroupSave(w) => task'[w].pc \in {"direct", "idle"}
  BY <1>0 DEF Fail, GroupSave, Become
<1>12. /\ \A s \in Suppliers : GroupHttp(w, s) => task'[w].pc = "groupSave"
       /\ \A v \in Users : PrivateHttp(w, v) => task'[w].pc = "privateSave"
       /\ \A r \in Rooms : LoadHttp(w, r) => task'[w].pc = "mark"
  <2>1. \A s \in Suppliers : GroupHttp(w, s) => task'[w].pc = "groupSave"
    BY <1>0 DEF GroupHttp, Become
  <2>2. \A v \in Users : PrivateHttp(w, v) => task'[w].pc = "privateSave"
    BY <1>0 DEF PrivateHttp, Become
  <2>3. \A r \in Rooms : LoadHttp(w, r) => task'[w].pc = "mark"
    BY <1>0 DEF LoadHttp, Become
  <2> QED
    BY <2>1, <2>2, <2>3
<1> QED
  BY <1>2, <1>3, <1>4, <1>5, <1>6, <1>7, <1>8, <1>9, <1>10, <1>11, <1>12

\* A step changes the handler that takes it, and no other.
LEMMA OneActs ==
  ASSUME TypeInv, [Next]_vars
  PROVE  \/ task' = task
         \/ \E w \in Workers : Acts(w) /\ \A v \in Workers \ {w} : task'[v] = task[v]
<1> DEFINE Goal == \E w \in Workers : Acts(w) /\ \A v \in Workers \ {w} : task'[v] = task[v]
<1>a. ASSUME NEW w \in Workers, NEW u, Acts(w), Become(w, u) PROVE Goal
  BY <1>a DEF Become, TypeInv
<1>1. ASSUME NEW w \in Workers, NEW s \in Sockets,
             \/ \E u \in Users : Connect(w, s, u) \/ Private(w, s, u)
             \/ \E r \in Rooms : Send(w, s, r) \/ Load(w, s, r) \/ Page(w, s, r)
      PROVE  Goal
  <2>1. \E u : Become(w, u)
    BY <1>1 DEF Connect, Private, Send, Load, Page, Ask
  <2> QED
    BY <1>1, <1>a, <2>1 DEF Acts
<1>2. ASSUME NEW w \in Workers,
             \/ Authenticated(w) \/ FindGroup(w) \/ FindDirect(w) \/ JoinAll(w)
             \/ SaveMessage(w) \/ Emit(w) \/ Fetch(w) \/ \E m \in Messages : Mark(w, m)
      PROVE  Goal
  <2>1. \E u : Become(w, u)
    BY <1>2 DEF Authenticated, FindGroup, FindDirect, JoinAll, SaveMessage, Emit, Fetch, Mark, Goto,
                Finish
  <2> QED
    BY <1>2, <1>a, <2>1 DEF Acts
<1>3. ASSUME NEW w \in Workers,
             \/ Reply(w) \/ FetchPage(w) \/ FindPrivate(w) \/ SavePrivate(w) \/ JoinBoth(w)
             \/ Fail(w) \/ GroupSave(w)
      PROVE  Goal
  <2>1. \E u : Become(w, u)
    BY <1>3 DEF Reply, FetchPage, FindPrivate, SavePrivate, JoinBoth, Fail, GroupSave, Goto, Finish
  <2> QED
    BY <1>3, <1>a, <2>1 DEF Acts
<1>4. ASSUME NEW w \in Workers,
             \/ \E s \in Suppliers : GroupHttp(w, s)
             \/ \E v \in Users : PrivateHttp(w, v)
             \/ \E r \in Rooms : LoadHttp(w, r)
      PROVE  Goal
  <2>1. \E u : Become(w, u)
    BY <1>4 DEF GroupHttp, PrivateHttp, LoadHttp
  <2> QED
    BY <1>4, <1>a, <2>1 DEF Acts
<1>5. CASE HttpNext
  <2>1. ASSUME \/ Tick
               \/ \E w \in Workers, r \in Rooms, members \in SUBSET Users, kind \in {"pair", "guest"} :
                    CreateRoom(w, r, kind, members)
               \/ \E w \in Workers, m \in Messages, r \in Rooms, u \in Users \cup {Nobody} :
                    PostHttp(w, m, r, u)
        PROVE  task' = task
    BY <2>1 DEF Tick, CreateRoom, PostHttp
  <2> QED
    BY <1>3, <1>4, <1>5, <2>1 DEF HttpNext
<1>6. CASE GatewayNext
  <2>1. ASSUME NEW s \in Sockets, Disconnect(s) \/ \E r \in Rooms : Leave(s, r) PROVE task' = task
    BY <2>1 DEF Disconnect, Leave
  <2> QED
    BY <1>1, <1>2, <1>3, <1>6, <2>1 DEF GatewayNext
<1>7. CASE UNCHANGED vars
  BY <1>7 DEF vars
<1> QED
  BY <1>5, <1>6, <1>7 DEF Next

\* A handler starts when the workload lets it, and answers one request.
LEMMA Starts ==
  ASSUME TypeInv, NEW w \in Workers, Acts(w)
  PROVE  /\ task[w].pc = "idle" => Accepts(w, task'[w].op)
         /\ task[w].pc # "idle" => task'[w].op \in {task[w].op, "none"}
<1> DEFINE Goal == /\ task[w].pc = "idle" => Accepts(w, task'[w].op)
                   /\ task[w].pc # "idle" => task'[w].op \in {task[w].op, "none"}
<1>0. task \in [Workers -> Tasks] /\ task[w] \in Records
  BY DEF TypeInv, Tasks
<1>1. ASSUME NEW op, Accepts(w, op), task'[w].op = op PROVE Goal
  BY <1>1 DEF Accepts, At
<1> USE DEF Records, Goto, Finish, At, Idle
<1>2. ASSUME NEW s \in Sockets, NEW u \in Users, Connect(w, s, u) PROVE Goal
  <2>1. Accepts(w, "Connect") /\ task'[w].op = "Connect"
    BY <1>0, <1>2 DEF Connect, Become
  <2> QED
    BY <1>1, <2>1
<1>3. ASSUME NEW s \in Sockets, NEW v \in Users, Private(w, s, v) PROVE Goal
  <2>1. Accepts(w, "Private") /\ task'[w].op = "Private"
    BY <1>0, <1>3 DEF Private, Ask, Become
  <2> QED
    BY <1>1, <2>1
<1>4. ASSUME NEW s \in Sockets, NEW r \in Rooms, Send(w, s, r) PROVE Goal
  <2>1. Accepts(w, "Send") /\ task'[w].op = "Send"
    BY <1>0, <1>4 DEF Send, Ask, Become
  <2> QED
    BY <1>1, <2>1
<1>5. ASSUME NEW s \in Sockets, NEW r \in Rooms, Load(w, s, r) PROVE Goal
  <2>1. CASE Ask(w, "Join", s, [Idle EXCEPT !.pc = "fetch", !.room = r])
    <3>1. Accepts(w, "Join") /\ task'[w].op = "Join"
      BY <1>0, <2>1 DEF Ask, Become
    <3> QED
      BY <1>1, <3>1
  <2>2. CASE Ask(w, "Load", s, [Idle EXCEPT !.pc = "fetch", !.room = r, !.more = r \in joined[s]])
    <3>1. Accepts(w, "Load") /\ task'[w].op = "Load"
      BY <1>0, <2>2 DEF Ask, Become
    <3> QED
      BY <1>1, <3>1
  <2> QED
    BY <1>5, <2>1, <2>2 DEF Load
<1>6. ASSUME NEW s \in Sockets, NEW r \in Rooms, Page(w, s, r) PROVE Goal
  <2>1. Accepts(w, "Page") /\ task'[w].op = "Page"
    BY <1>0, <1>6 DEF Page, Ask, Become
  <2> QED
    BY <1>1, <2>1
<1>7. ASSUME NEW s \in Suppliers, GroupHttp(w, s) PROVE Goal
  <2>1. Accepts(w, "GroupHttp") /\ task'[w].op = "GroupHttp"
    BY <1>0, <1>7 DEF GroupHttp, Become
  <2> QED
    BY <1>1, <2>1
<1>8. ASSUME NEW v \in Users, PrivateHttp(w, v) PROVE Goal
  <2>1. Accepts(w, "PrivateHttp") /\ task'[w].op = "PrivateHttp"
    BY <1>0, <1>8 DEF PrivateHttp, Become
  <2> QED
    BY <1>1, <2>1
<1>9. ASSUME NEW r \in Rooms, LoadHttp(w, r) PROVE Goal
  <2>1. Accepts(w, "LoadHttp") /\ task'[w].op = "LoadHttp"
    BY <1>0, <1>9 DEF LoadHttp, Become
  <2> QED
    BY <1>1, <2>1
<1>10. ASSUME task[w].pc # "idle", task'[w].op \in {task[w].op, "none"} PROVE Goal
  BY <1>10
<1>11. ASSUME Finish(w), task[w].pc # "idle" PROVE Goal
  BY <1>0, <1>10, <1>11 DEF Become
<1>12. ASSUME Goto(w, "direct"), task[w].pc # "idle" PROVE Goal
  BY <1>0, <1>10, <1>12 DEF Become
<1>13. CASE Authenticated(w)
  BY <1>0, <1>10, <1>13 DEF Authenticated, Become
<1>14. CASE FindGroup(w) \/ FindDirect(w)
  <2>1. task'[w].op = task[w].op /\ task[w].pc # "idle"
    BY <1>0, <1>14, ZenonT(60) DEF FindGroup, FindDirect, Become
  <2> QED
    BY <1>10, <2>1
<1>15. CASE JoinAll(w) \/ Emit(w) \/ Reply(w) \/ JoinBoth(w)
  BY ONLY <1>11, <1>15 DEF JoinAll, Emit, Reply, JoinBoth, At
<1>16. CASE SaveMessage(w) \/ \E m \in Messages : Mark(w, m)
  <2>1. task'[w].op = task[w].op /\ task[w].pc # "idle"
    BY <1>0, <1>16, ZenonT(60) DEF SaveMessage, Mark, Become
  <2> QED
    BY <1>10, <2>1
<1>a. ASSUME NEW t, Become(w, t), t.op = task[w].op PROVE task'[w].op = task[w].op
  BY <1>0, <1>a DEF Become
<1>17. CASE Fetch(w) \/ FetchPage(w)
  <2>1. CASE Fetch(w)
    BY <1>0, <1>10, <1>a, <2>1 DEF Fetch
  <2>2. CASE FetchPage(w)
    <3>1. task'[w].op = task[w].op
      BY <1>0, <1>a, <2>2 DEF FetchPage
    <3> QED
      BY <1>10, <2>2, <3>1 DEF FetchPage
  <2> QED
    BY <1>17, <2>1, <2>2
<1>18. CASE FindPrivate(w)
  <2>1. ASSUME NEW r, Become(w, [task[w] EXCEPT !.room = r, !.pc = "joinBoth"])
        PROVE  task'[w].op = task[w].op
    BY <1>0, <2>1 DEF Become
  <2>2. ASSUME Goto(w, "privateSave") PROVE task'[w].op = task[w].op
    BY <1>0, <2>2 DEF Become
  <2>3. task'[w].op = task[w].op
    BY <1>18, <2>1, <2>2 DEF FindPrivate
  <2> QED
    BY <1>10, <1>18, <2>3 DEF FindPrivate
<1>19. CASE SavePrivate(w)
  <2>1. CASE task[w].op = "Private"
    <3>1. task'[w].op = task[w].op /\ task[w].pc # "idle"
      BY <1>0, <1>19, <2>1, ZenonT(60) DEF SavePrivate, Become
    <3> QED
      BY <1>10, <3>1
  <2>2. CASE task[w].op # "Private"
    <3>1. Finish(w) /\ task[w].pc # "idle"
      BY <1>19, <2>2 DEF SavePrivate
    <3> QED
      BY ONLY <1>11, <3>1
  <2> QED
    BY <2>1, <2>2
<1>20. CASE Fail(w) \/ GroupSave(w)
  BY <1>11, <1>12, <1>20 DEF Fail, GroupSave
<1> QED
  BY <1>2, <1>3, <1>4, <1>5, <1>6, <1>7, <1>8, <1>9, <1>13, <1>14, <1>15, <1>16, <1>17, <1>18, <1>19,
     <1>20 DEF Acts

OpsInv ==
  /\ \A w \in Workers : task[w].op \in workload.ops \cup {"none"}
  /\ Serial => \A v, w \in Workers : ~At(v, "idle") /\ ~At(w, "idle") => v = w

LEMMA OpsInitial == Init => OpsInv
BY DEF Init, OpsInv, Idle, At

LEMMA OpsStay == TypeInv /\ OpsInv /\ [Next]_vars => OpsInv'
<1> SUFFICES ASSUME TypeInv, OpsInv, [Next]_vars PROVE OpsInv'
  OBVIOUS
<1>0. workload' = workload /\ \A w \in Workers : task[w].pc = "idle" => task[w].op = "none"
  BY TasksTyped DEF TypeInv, Tasks, Reaches, Idle
<1>1. CASE task' = task
  BY <1>0, <1>1 DEF OpsInv, Serial, At
<1>2. ASSUME NEW w \in Workers, Acts(w), \A v \in Workers \ {w} : task'[v] = task[v]
      PROVE  OpsInv'
  <2>1. ASSUME NEW v \in Workers PROVE task'[v].op \in workload.ops \cup {"none"}
    BY <1>2, <2>1, Starts DEF Accepts, OpsInv
  <2>2. ASSUME Serial, NEW v \in Workers, v # w, task[v].pc # "idle" PROVE FALSE
    <3>1. task[w].pc = "idle"
      BY <2>2 DEF OpsInv, At
    <3> DEFINE B == {u \in Workers : ~At(u, "idle")}
    <3>2. Cardinality(B) < 1
      BY <1>2, <2>2, <3>1, Starts DEF Accepts, Serial
    <3>3. IsFiniteSet(B) /\ B # {}
      BY <2>2, WorkersAssumption, FS_Subset DEF At
    <3>4. Cardinality(B) \in Nat /\ Cardinality(B) # 0
      BY <3>3, FS_CardinalityType, FS_EmptySet
    <3> QED
      BY <3>2, <3>4
  <2> QED
    BY <1>0, <1>2, <2>1, <2>2 DEF OpsInv, Serial, At
<1> QED
  BY <1>1, <1>2, OneActs

LEMMA OpsInvariant == Spec => []OpsInv
BY OpsInitial, OpsStay, TypeInvariant, PTL DEF Spec

-----------------------------------------------------------------------------
(* No room twice.                                                          *)

\* What the gateway and the route for groups make of rooms.
Plain == ~Asked({"PrivateHttp", "CreateRoom"})

PairOf(r, u, v) == room[r].members = {u, v} /\ room[r].kind = PrivateKind(u, v)

\* A handler that is about to save a room has found none, and alone as it is,
\* nobody has created one since.
SingleInv ==
  Plain =>
    /\ \A r \in Exists : room[r].kind # "group" => \E u, v \in Users : PairOf(r, u, v)
    /\ Serial =>
         /\ \A q, r \in Exists :
              room[q].kind = "group" /\ room[r].kind = "group" /\ room[q].supplier = room[r].supplier
              => q = r
         /\ \A q, r \in Exists :
              room[q].kind # "group" /\ room[r].kind # "group" /\ room[q].members = room[r].members
              => q = r
         /\ \A w \in Workers :
              /\ At(w, "groupSave") => GroupsOf(task[w].target) = {}
              /\ At(w, "privateSave") => PrivateRooms(task[w].user, task[w].target) = {}

\* What a room that is inserted leaves the rooms with.
LEMMA Inserted ==
  ASSUME TypeInv, NEW r \in Rooms, NEW kind \in Kinds, NEW supplier, NEW members, NEW by,
         Insert(r, kind, supplier, members, by)
  PROVE  /\ r \notin Exists /\ Exists' = Exists \cup {r}
         /\ room'[r] = [kind |-> kind, supplier |-> supplier, members |-> members, by |-> by]
         /\ \A q \in Exists : room'[q] = room[q]
BY DEF Insert, IsFree, Exists, TypeInv, Kinds

\* A room of two users is found by either of them.
LEMMA PairFound ==
  ASSUME NEW r \in Exists, NEW u \in Users, NEW v \in Users, PairOf(r, u, v)
  PROVE  r \in PrivateRooms(u, v)
BY DEF PairOf, PrivateRooms

LEMMA SingleInitial == Init => SingleInv
BY DEF Init, SingleInv, Exists, Unused, At, Idle

\* Handlers that are alone meet the rooms they have looked for.
LEMMA SavesAlone ==
  ASSUME TypeInv, OpsInv, SingleInv, [Next]_vars, Plain, Serial, NEW v \in Workers
  PROVE  /\ task'[v].pc = "groupSave" => room' = room /\ GroupsOf(task'[v].target) = {}
         /\ task'[v].pc = "privateSave" =>
              room' = room /\ PrivateRooms(task'[v].user, task'[v].target) = {}
<1> DEFINE Goal == /\ task'[v].pc = "groupSave" => room' = room /\ GroupsOf(task'[v].target) = {}
                   /\ task'[v].pc = "privateSave" =>
                        room' = room /\ PrivateRooms(task'[v].user, task'[v].target) = {}
<1>0. task \in [Workers -> Tasks] /\ task[v] \in Records
  BY DEF TypeInv, Tasks
<1>1. ASSUME NEW op \in {"PrivateHttp", "CreateRoom"}, NEW w \in Workers, Accepts(w, op) PROVE FALSE
  BY <1>1 DEF Plain, Asked, Accepts
<1>2. ASSUME task'[v] = task[v] PROVE Goal
  <2>1. CASE task[v].pc \in {"groupSave", "privateSave"}
    <3>1. ASSUME NEW w \in Workers, GroupSave(w) \/ SavePrivate(w) PROVE FALSE
      <4>1. w = v
        BY <2>1, <3>1 DEF OpsInv, At, GroupSave, SavePrivate
      <4>2. task'[w].pc \in {"direct", "idle", "joinBoth"}
        BY <3>1, PcAfter
      <4> QED
        BY <1>2, <2>1, <4>1, <4>2
    <3>2. room' = room
      BY <1>1, <3>1, RoomActions DEF CreateRoom
    <3> QED
      BY <1>2, <3>2 DEF SingleInv, At
  <2> QED
    BY <1>2, <2>1
<1>3. CASE FindGroup(v)
  <2> DEFINE s == SupplierOf[task[v].user]
  <2>1. room' = room
    BY <1>3 DEF FindGroup, database
  <2>2. task'[v].pc = "groupSave" => task'[v].target = s /\ GroupsOf(s) = {}
    BY <1>0, <1>3 DEF FindGroup, Become, Records
  <2>3. task'[v].pc # "privateSave"
    BY <1>3, PcAfter
  <2> QED
    BY <2>1, <2>2, <2>3
<1>4. ASSUME NEW s \in Suppliers, GroupHttp(v, s) PROVE Goal
  <2>1. room' = room /\ GroupsOf(s) = {} /\ task'[v].pc = "groupSave"
    BY <1>4, PcAfter DEF GroupHttp, database
  <2>2. task'[v].target = s
    BY <1>0, <1>4 DEF GroupHttp, Become, Idle
  <2> QED
    BY <2>1, <2>2
<1>5. CASE FindPrivate(v)
  <2>1. room' = room /\ task'[v].pc \in {"joinBoth", "privateSave"}
    BY <1>5, PcAfter DEF FindPrivate, database
  <2>2. ASSUME task'[v].pc = "privateSave"
        PROVE  /\ PrivateRooms(task[v].user, task[v].target) = {}
               /\ task'[v].user = task[v].user /\ task'[v].target = task[v].target
    <3>1. ASSUME NEW r, Become(v, [task[v] EXCEPT !.room = r, !.pc = "joinBoth"]) PROVE FALSE
      BY <1>0, <2>2, <3>1 DEF Become, Records
    <3>2. PrivateRooms(task[v].user, task[v].target) = {} /\ Goto(v, "privateSave")
      BY <1>5, <3>1 DEF FindPrivate
    <3> QED
      BY <1>0, <3>2 DEF Goto, Become, Records
  <2> QED
    BY <2>1, <2>2
<1>6. ASSUME NEW u \in Users, PrivateHttp(v, u) PROVE FALSE
  BY <1>1, <1>6 DEF PrivateHttp
<1>7. CASE Acts(v)
  <2>1. \/ task'[v].pc \notin {"groupSave", "privateSave"}
        \/ FindGroup(v) \/ FindPrivate(v)
        \/ \E s \in Suppliers : GroupHttp(v, s)
        \/ \E u \in Users : PrivateHttp(v, u)
    BY <1>7, PcAfter DEF Acts, Idle
  <2> QED
    BY <1>3, <1>4, <1>5, <1>6, <2>1
<1> QED
  BY <1>2, <1>7, OneActs

LEMMA SingleStays == TypeInv /\ OpsInv /\ SingleInv /\ [Next]_vars => SingleInv'
<1> SUFFICES ASSUME TypeInv, OpsInv, SingleInv, [Next]_vars, Plain
             PROVE  SingleInv'
  BY TasksTyped DEF SingleInv, Plain, Asked
<1> DEFINE Pairs == \A r \in Exists : room[r].kind # "group" => \E u, v \in Users : PairOf(r, u, v)
           Groups == \A q, r \in Exists :
             room[q].kind = "group" /\ room[r].kind = "group" /\ room[q].supplier = room[r].supplier
             => q = r
           Others == \A q, r \in Exists :
             room[q].kind # "group" /\ room[r].kind # "group" /\ room[q].members = room[r].members
             => q = r
           Saving == \A w \in Workers :
             /\ At(w, "groupSave") => GroupsOf(task[w].target) = {}
             /\ At(w, "privateSave") => PrivateRooms(task[w].user, task[w].target) = {}
<1>0. Pairs /\ (Serial => Groups /\ Others)
  BY DEF SingleInv
<1>a. Serial => Saving'
  BY SavesAlone DEF At, GroupsOf, PrivateRooms, Exists
<1>b. ASSUME Pairs', Serial => Groups' /\ Others' PROVE SingleInv'
  BY <1>a, <1>b, TasksTyped DEF SingleInv, Serial
<1>1. CASE room' = room
  <2>1. Exists' = Exists
    BY <1>1 DEF Exists
  <2>2. Pairs' /\ (Serial => Groups' /\ Others')
    BY <1>0, <1>1, <2>1 DEF PairOf
  <2> QED
    BY ONLY <1>b, <2>2
<1>2. ASSUME NEW w \in Workers, GroupSave(w) PROVE SingleInv'
  <2>1. PICK r, supplier, members, by :
          r \in Rooms /\ Insert(r, "group", supplier, members, by) /\ supplier = task[w].target
    BY <1>2 DEF GroupSave
  <2>2. /\ r \notin Exists /\ Exists' = Exists \cup {r}
        /\ room'[r].kind = "group" /\ room'[r].supplier = supplier
        /\ \A q \in Exists : room'[q] = room[q]
    <3>1. "group" \in Kinds
      BY DEF Kinds
    <3>2. /\ r \notin Exists /\ Exists' = Exists \cup {r}
          /\ room'[r] = [kind |-> "group", supplier |-> supplier, members |-> members, by |-> by]
          /\ \A q \in Exists : room'[q] = room[q]
      BY ONLY TypeInv, <2>1, <3>1, Inserted, Zenon
    <3> QED
      BY <3>2
  <2>3. Pairs'
    BY <1>0, <2>2 DEF PairOf
  <2>4. ASSUME Serial PROVE Groups' /\ Others'
    <3>1. GroupsOf(supplier) = {}
      BY <1>2, <2>1, <2>4 DEF SingleInv, GroupSave
    <3>2. \A q \in Exists : room[q].kind = "group" => room[q].supplier # supplier
      BY <3>1 DEF GroupsOf
    <3> QED
      BY <1>0, <2>2, <2>4, <3>2
  <2> QED
    BY ONLY <1>b, <2>3, <2>4
<1>3. ASSUME NEW w \in Workers, SavePrivate(w) PROVE SingleInv'
  <2>0. PICK u \in Users, v \in Users : u = task[w].user /\ v = task[w].target
    BY <1>3 DEF SavePrivate, At, TypeInv, Tasks, Reaches
  <2>1. PICK r \in Rooms : Insert(r, PrivateKind(u, v), Nobody, {u, v}, u)
    BY <1>3, <2>0 DEF SavePrivate
  <2>2. PrivateKind(u, v) \in Kinds /\ PrivateKind(u, v) # "group"
    BY DEF PrivateKind, Kinds
  <2>3. /\ r \notin Exists /\ Exists' = Exists \cup {r}
        /\ room'[r].kind = PrivateKind(u, v) /\ room'[r].members = {u, v}
        /\ \A q \in Exists : room'[q] = room[q]
    <3>1. PICK kind, members : kind = PrivateKind(u, v) /\ members = {u, v}
      OBVIOUS
    <3>2. Insert(r, kind, Nobody, members, u) /\ kind \in Kinds
      BY <2>1, <2>2, <3>1
    <3>3. /\ r \notin Exists /\ Exists' = Exists \cup {r}
          /\ room'[r] = [kind |-> kind, supplier |-> Nobody, members |-> members, by |-> u]
          /\ \A q \in Exists : room'[q] = room[q]
      BY ONLY TypeInv, <3>2, Inserted, Zenon
    <3> QED
      BY <3>1, <3>3
  <2>5. Pairs'
    BY <1>0, <2>3 DEF PairOf, PrivateKind
  <2>6. ASSUME Serial PROVE Groups' /\ Others'
    <3>1. PrivateRooms(u, v) = {}
      BY <1>3, <2>0, <2>6 DEF SingleInv, SavePrivate
    <3>2. \A q \in Exists : room[q].kind # "group" => room[q].members # {u, v}
      <4> SUFFICES ASSUME NEW q \in Exists, room[q].kind # "group", room[q].members = {u, v}
                   PROVE  FALSE
        OBVIOUS
      <4>1. PICK a \in Users, b \in Users : PairOf(q, a, b)
        BY <1>0
      <4>2. room[q].kind = PrivateKind(u, v)
        BY <4>1 DEF PairOf, PrivateKind
      <4> QED
        BY <3>1, <4>2, PairFound DEF PairOf
    <3>3. Groups'
      BY <1>0, <2>2, <2>3, <2>6
    <3> QED
      BY <1>0, <2>3, <2>6, <3>2, <3>3
  <2> QED
    BY ONLY <1>b, <2>5, <2>6
<1>4. ASSUME NEW w \in Workers, Accepts(w, "CreateRoom") PROVE FALSE
  BY <1>4 DEF Plain, Asked, Accepts
<1> QED
  BY <1>1, <1>2, <1>3, <1>4, RoomActions DEF CreateRoom

LEMMA SingleImplies == SingleInv => NoDuplicateRooms
<1> SUFFICES ASSUME SingleInv, Serial, Plain
             PROVE  /\ \A s \in Suppliers : Cardinality(GroupsOf(s)) <= 1
                    /\ \A q, r \in Exists :
                         /\ room[q].kind # "group" /\ room[r].kind # "group"
                         /\ room[q].members = room[r].members
                         => q = r
  BY DEF NoDuplicateRooms, Plain
<1>1. ASSUME NEW s \in Suppliers PROVE Cardinality(GroupsOf(s)) <= 1
  <2>1. CASE GroupsOf(s) = {}
    BY <2>1, FS_EmptySet
  <2>2. ASSUME NEW r \in GroupsOf(s) PROVE Cardinality(GroupsOf(s)) = 1
    <3>1. GroupsOf(s) = {r}
      BY <2>2 DEF SingleInv, GroupsOf
    <3> QED
      BY <3>1, FS_Singleton
  <2> QED
    BY <2>1, <2>2
<1> QED
  BY <1>1 DEF SingleInv

\* Connections that do not overlap open one group for each supplier, and users
\* who open private rooms with each other one after the other have one
\* (createSupplierGroupRoom, getOrCreatePrivateRoom).
THEOREM NoRoomTwice == Spec => []NoDuplicateRooms
BY SingleInitial, SingleStays, SingleImplies, TypeInvariant, OpsInvariant, PTL DEF Spec

-----------------------------------------------------------------------------
(* Sockets and their users.                                                *)

ClientOps == {"Send", "Load", "Join", "Page", "Private"}

\* A handler keeps the socket and the user it works for until it ends.
Keeps(w) ==
  /\ task[w].pc # "idle" /\ task'[w].pc # "auth" /\ task'[w].op = task[w].op
  /\ task'[w].socket = task[w].socket /\ task'[w].user = task[w].user

\* The beginning of a handler, with the user the socket has.
Begins(w) ==
  \/ /\ UNCHANGED sockets /\ task'[w].op \in ClientOps /\ task'[w].pc # "auth"
     /\ \E s \in Sockets :
          Known(s) /\ task'[w].socket = s /\ task'[w].user = socket[s].user
  \/ /\ UNCHANGED sockets /\ task'[w].op \in {"GroupHttp", "PrivateHttp", "LoadHttp"}
     /\ task'[w].pc # "auth"
  \/ \E s \in Sockets, u \in Users :
       /\ Connect(w, s, u) /\ task'[w].pc = "auth" /\ task'[w].op = "Connect"
       /\ task'[w].socket = s /\ task'[w].user = u

LEMMA Carries ==
  ASSUME TypeInv, NEW w \in Workers, Acts(w)
  PROVE  task'[w] = Idle \/ Keeps(w) \/ Begins(w)
<1> DEFINE Goal == task'[w] = Idle \/ Keeps(w) \/ Begins(w)
<1>0. task \in [Workers -> Tasks] /\ task[w] \in Records
  BY DEF TypeInv, Tasks
<1>a. ASSUME NEW t, Become(w, t), task[w].pc # "idle", t.pc # "auth", t.op = task[w].op,
             t.socket = task[w].socket, t.user = task[w].user
      PROVE  Keeps(w)
  BY <1>0, <1>a DEF Keeps, Become
<1>b. ASSUME Finish(w) PROVE task'[w] = Idle
  BY <1>0, <1>b DEF Finish, Become
<1>c. ASSUME Goto(w, "direct"), task[w].pc # "idle" PROVE Keeps(w)
  BY <1>0, <1>c DEF Goto, Become, Keeps, Records
<1> USE DEF Records, Goto, At
<1>1. ASSUME NEW s \in Sockets, NEW op \in ClientOps, NEW pc \in Pcs \ {"auth"}, Known(s),
             UNCHANGED sockets, task'[w].op = op, task'[w].pc = pc, task'[w].socket = s,
             task'[w].user = socket[s].user
      PROVE  Begins(w)
  BY <1>1 DEF Begins
<1>2. ASSUME NEW s \in Sockets, NEW u \in Users, Connect(w, s, u) PROVE Begins(w)
  BY <1>0, <1>2 DEF Connect, Begins, Become, Idle
<1>3. ASSUME NEW s \in Sockets, NEW v \in Users, Private(w, s, v) PROVE Begins(w)
  BY <1>0, <1>3 DEF Private, Ask, Begins, Become, Idle, ClientOps
<1>4. ASSUME NEW s \in Sockets, NEW r \in Rooms, Send(w, s, r) PROVE Begins(w)
  BY <1>0, <1>4 DEF Send, Ask, Begins, Become, Idle, ClientOps
<1>5. ASSUME NEW s \in Sockets, NEW r \in Rooms, Load(w, s, r) PROVE Begins(w)
  <2>1. CASE Ask(w, "Join", s, [Idle EXCEPT !.pc = "fetch", !.room = r])
    BY <1>0, <2>1 DEF Ask, Begins, Become, Idle, ClientOps
  <2>2. CASE Ask(w, "Load", s, [Idle EXCEPT !.pc = "fetch", !.room = r, !.more = r \in joined[s]])
    BY <1>0, <2>2 DEF Ask, Begins, Become, Idle, ClientOps
  <2> QED
    BY <1>5, <2>1, <2>2 DEF Load
<1>6. ASSUME NEW s \in Sockets, NEW r \in Rooms, Page(w, s, r) PROVE Begins(w)
  BY <1>0, <1>6 DEF Page, Ask, Begins, Become, Idle, ClientOps
<1>7. ASSUME NEW s \in Suppliers, GroupHttp(w, s) PROVE Begins(w)
  BY <1>0, <1>7 DEF GroupHttp, Begins, Become, Idle
<1>8. ASSUME NEW v \in Users, PrivateHttp(w, v) PROVE Begins(w)
  BY <1>0, <1>8 DEF PrivateHttp, Begins, Become, Idle
<1>9. ASSUME NEW r \in Rooms, LoadHttp(w, r) PROVE Begins(w)
  BY <1>0, <1>9 DEF LoadHttp, Begins, Become, Idle
<1>10. CASE Authenticated(w)
  BY <1>0, <1>10 DEF Authenticated, Become, Keeps
<1>11. CASE FindGroup(w)
  BY <1>0, <1>11 DEF FindGroup, Become, Keeps
<1>12. CASE FindDirect(w)
  BY <1>0, <1>12 DEF FindDirect, Become, Keeps
<1>13. CASE JoinAll(w) \/ Emit(w) \/ Reply(w) \/ JoinBoth(w)
  BY ONLY <1>b, <1>13 DEF JoinAll, Emit, Reply, JoinBoth
<1>14. CASE SaveMessage(w)
  BY <1>0, <1>14 DEF SaveMessage, Become, Keeps
<1>15. ASSUME NEW m \in Messages, Mark(w, m) PROVE Keeps(w)
  BY <1>0, <1>15 DEF Mark, Become, Keeps
<1>16. CASE Fetch(w)
  BY <1>0, <1>16 DEF Fetch, Become, Keeps
<1>17. CASE FetchPage(w)
  BY <1>0, <1>17 DEF FetchPage, Become, Keeps
<1>18. CASE FindPrivate(w)
  <2>1. ASSUME NEW r, Become(w, [task[w] EXCEPT !.room = r, !.pc = "joinBoth"]) PROVE Keeps(w)
    BY <1>0, <1>18, <2>1 DEF Become, Keeps, FindPrivate
  <2>2. ASSUME Goto(w, "privateSave") PROVE Keeps(w)
    BY <1>0, <1>18, <2>2 DEF Become, Keeps, FindPrivate
  <2> QED
    BY <1>18, <2>1, <2>2 DEF FindPrivate
<1>19. CASE SavePrivate(w)
  <2>1. ASSUME NEW r, Become(w, [task[w] EXCEPT !.room = r, !.pc = "joinBoth"]) PROVE Keeps(w)
    BY <1>0, <1>19, <2>1 DEF Become, Keeps, SavePrivate
  <2> QED
    BY <1>19, <1>b, <2>1 DEF SavePrivate
<1>20. CASE Fail(w) \/ GroupSave(w)
  BY <1>20, <1>b, <1>c DEF Fail, GroupSave
<1> QED
  BY <1>2, <1>3, <1>4, <1>5, <1>6, <1>7, <1>8, <1>9, <1>10, <1>11, <1>12, <1>13, <1>14, <1>15, <1>16,
     <1>17, <1>18, <1>19, <1>20 DEF Acts

\* A socket gets its user from the handler of its connection, and keeps it.
LEMMA SocketUsers ==
  ASSUME TypeInv, [Next]_vars, NEW s \in Sockets
  PROVE  /\ \/ socket'[s].user = socket[s].user
            \/ \E w \in Workers : /\ Authenticated(w) /\ task[w].socket = s
                                  /\ socket'[s].user = task[w].user
         /\ socket'[s].state = "new" => socket[s].state = "new"
         /\ \/ socket'[s].state = socket[s].state
            \/ \E w \in Workers, u \in Users : Connect(w, s, u)
            \/ Disconnect(s)
<1> DEFINE Same == socket'[s].user = socket[s].user /\ socket'[s].state = socket[s].state
           Goal == /\ \/ socket'[s].user = socket[s].user
                      \/ \E w \in Workers : /\ Authenticated(w) /\ task[w].socket = s
                                            /\ socket'[s].user = task[w].user
                   /\ socket'[s].state = "new" => socket[s].state = "new"
                   /\ \/ socket'[s].state = socket[s].state
                      \/ \E w \in Workers, u \in Users : Connect(w, s, u)
                      \/ Disconnect(s)
<1> USE DEF TypeInv, SocketRows
<1>1. ASSUME NEW w \in Workers, NEW q \in Sockets, NEW u \in Users, Connect(w, q, u) PROVE Goal
  <2>1. socket' = [socket EXCEPT ![q].state = "open"]
    BY <1>1 DEF Connect
  <2>2. CASE q = s
    BY <1>1, <2>1, <2>2
  <2>3. CASE q # s
    BY <2>1, <2>3
  <2> QED
    BY <2>2, <2>3
<1>2. ASSUME NEW w \in Workers, Authenticated(w) PROVE Goal
  <2>1. socket' = [socket EXCEPT ![task[w].socket].user = task[w].user]
    BY <1>2 DEF Authenticated
  <2>2. CASE task[w].socket = s
    BY <1>2, <2>1, <2>2
  <2>3. CASE task[w].socket # s
    BY <2>1, <2>3
  <2> QED
    BY <2>2, <2>3
<1>3. ASSUME NEW w \in Workers, JoinAll(w) \/ Emit(w) \/ JoinBoth(w) PROVE Same
  BY <1>3 DEF JoinAll, Emit, JoinBoth
<1>4. ASSUME NEW w \in Workers, Reply(w) PROVE Same
  <2>1. \E p : socket' = [socket EXCEPT ![task[w].socket].page = p] \/ socket' = socket
    BY <1>4 DEF Reply, sockets
  <2> QED
    BY <2>1
<1>5. ASSUME NEW w \in Workers, FetchPage(w) PROVE Same
  <2>1. \E p : socket' = [socket EXCEPT ![task[w].socket].page = p]
    BY <1>5 DEF FetchPage
  <2> QED
    BY <2>1
<1>6. ASSUME NEW q \in Sockets, Disconnect(q) PROVE Goal
  <2>1. socket' = [socket EXCEPT ![q].state = "gone"]
    BY <1>6 DEF Disconnect
  <2> QED
    BY <1>6, <2>1
<1>7. ASSUME NEW q \in Sockets, NEW r \in Rooms, Leave(q, r) PROVE Same
  BY <1>7 DEF Leave
<1>8. ASSUME UNCHANGED sockets PROVE Same
  BY <1>8 DEF sockets
<1> QED
  BY <1>1, <1>2, <1>3, <1>4, <1>5, <1>6, <1>7, <1>8, SocketActions

\* What a socket has received comes from broadcasts and replies.
LEMMA Receives ==
  ASSUME TypeInv, [Next]_vars, NEW s \in Sockets
  PROVE  \/ seen'[s] = seen[s]
         \/ \E w \in Workers : /\ seen'[s] = seen[s] \cup task[w].got
                               /\ \/ Emit(w) /\ s \in Receivers(task[w].room)
                                  \/ Reply(w) /\ task[w].op \in {"Load", "Page"} /\ task[w].socket = s
<1> DEFINE Goal == \/ seen'[s] = seen[s]
                   \/ \E w \in Workers :
                        /\ seen'[s] = seen[s] \cup task[w].got
                        /\ \/ Emit(w) /\ s \in Receivers(task[w].room)
                           \/ Reply(w) /\ task[w].op \in {"Load", "Page"} /\ task[w].socket = s
<1>1. ASSUME NEW w \in Workers, Emit(w) PROVE Goal
  BY <1>1 DEF Emit, Receive, TypeInv
<1>2. ASSUME NEW w \in Workers, Reply(w) PROVE Goal
  <2>1. CASE task[w].op = "LoadHttp"
    BY <1>2, <2>1 DEF Reply, sockets
  <2>2. CASE task[w].op # "LoadHttp"
    <3>1. Receive(IF task[w].op \in {"Load", "Page"} THEN {task[w].socket} ELSE {}, task[w].got)
      BY <1>2, <2>2 DEF Reply
    <3> QED
      BY <1>2, <3>1 DEF Receive, TypeInv
  <2> QED
    BY <2>1, <2>2
<1>3. ASSUME NEW w \in Workers, \/ \E q \in Sockets, u \in Users : Connect(w, q, u)
                                \/ Authenticated(w) \/ JoinAll(w) \/ FetchPage(w) \/ JoinBoth(w)
      PROVE  seen' = seen
  BY <1>3 DEF Connect, Authenticated, JoinAll, FetchPage, JoinBoth
<1>4. ASSUME NEW q \in Sockets, Disconnect(q) \/ \E r \in Rooms : Leave(q, r) PROVE seen' = seen
  BY <1>4 DEF Disconnect, Leave
<1>5. ASSUME UNCHANGED sockets PROVE seen' = seen
  BY <1>5 DEF sockets
<1> QED
  BY <1>1, <1>2, <1>3, <1>4, <1>5, SocketActions

\* A socket is put into rooms by three handlers.
LEMMA Joins ==
  ASSUME TypeInv, [Next]_vars, NEW s \in Sockets
  PROVE  \/ joined'[s] = joined[s]
         \/ Disconnect(s) /\ joined'[s] = {}
         \/ \E r \in Rooms : Leave(s, r) /\ joined'[s] = joined[s] \ {r}
         \/ /\ joined[s] \subseteq joined'[s]
            /\ \E w \in Workers : \/ JoinAll(w) /\ task[w].socket = s
                                  \/ Reply(w) /\ task[w].op = "Join" /\ task[w].socket = s
                                  \/ JoinBoth(w) /\ s \in Both(task[w])
<1> DEFINE More(w) == /\ joined[s] \subseteq joined'[s]
                      /\ \/ JoinAll(w) /\ task[w].socket = s
                         \/ Reply(w) /\ task[w].op = "Join" /\ task[w].socket = s
                         \/ JoinBoth(w) /\ s \in Both(task[w])
           Goal == \/ joined'[s] = joined[s]
                   \/ Disconnect(s) /\ joined'[s] = {}
                   \/ \E r \in Rooms : Leave(s, r) /\ joined'[s] = joined[s] \ {r}
                   \/ \E w \in Workers : More(w)
<1> USE DEF TypeInv
<1>1. ASSUME NEW w \in Workers, JoinAll(w) PROVE Goal
  <2>1. PICK found : joined' = [joined EXCEPT ![task[w].socket] = @ \cup task[w].rooms \cup found]
    BY <1>1 DEF JoinAll
  <2>2. CASE task[w].socket = s
    BY <1>1, <2>1, <2>2
  <2>3. CASE task[w].socket # s
    BY <2>1, <2>3
  <2> QED
    BY <2>2, <2>3
<1>2. ASSUME NEW w \in Workers, Reply(w) PROVE Goal
  <2>1. CASE task[w].op = "LoadHttp"
    BY <1>2, <2>1 DEF Reply, sockets
  <2>2. CASE task[w].op # "LoadHttp"
    <3>1. joined' = [joined EXCEPT ![task[w].socket] =
                      IF task[w].op \in {"Load", "Page"} THEN @ ELSE @ \cup {task[w].room}]
      BY <1>2, <2>2 DEF Reply
    <3>2. task[w].op \in {"Load", "Join", "Page"}
      BY <1>2, <2>2 DEF Reply, At, Tasks, Reaches
    <3>3. CASE task[w].op = "Join" /\ task[w].socket = s
      BY <1>2, <3>1, <3>3
    <3>4. CASE ~(task[w].op = "Join" /\ task[w].socket = s)
      BY <3>1, <3>2, <3>4
    <3> QED
      BY <3>3, <3>4
  <2> QED
    BY <2>1, <2>2
<1>3. ASSUME NEW w \in Workers, JoinBoth(w) PROVE Goal
  BY <1>3 DEF JoinBoth
<1>4. ASSUME NEW q \in Sockets, Disconnect(q) PROVE Goal
  <2>1. joined' = [joined EXCEPT ![q] = {}]
    BY <1>4 DEF Disconnect
  <2> QED
    BY <1>4, <2>1
<1>5. ASSUME NEW q \in Sockets, NEW r \in Rooms, Leave(q, r) PROVE Goal
  <2>1. joined' = [joined EXCEPT ![q] = @ \ {r}]
    BY <1>5 DEF Leave
  <2> QED
    BY <1>5, <2>1
<1>6. ASSUME NEW w \in Workers, \/ \E q \in Sockets, u \in Users : Connect(w, q, u)
                                \/ Authenticated(w) \/ FetchPage(w) \/ Emit(w)
      PROVE  joined' = joined
  BY <1>6 DEF Connect, Authenticated, FetchPage, Emit
<1>7. ASSUME UNCHANGED sockets PROVE joined' = joined
  BY <1>7 DEF sockets
<1>8. Goal
  BY <1>1, <1>2, <1>3, <1>4, <1>5, <1>6, <1>7, SocketActions
<1> QED
  BY <1>8

\* From where a handler takes which step.
LEMMA PcBefore ==
  ASSUME NEW w \in Workers
  PROVE  /\ Authenticated(w) => At(w, "auth")
         /\ FindGroup(w) => At(w, "group")
         /\ FindDirect(w) => At(w, "direct")
         /\ JoinAll(w) => At(w, "joinAll")
         /\ SaveMessage(w) => At(w, "save")
         /\ Emit(w) => At(w, "emit")
         /\ Fetch(w) => At(w, "fetch")
         /\ Reply(w) \/ (\E m \in Messages : Mark(w, m)) => At(w, "mark")
         /\ FetchPage(w) => At(w, "page")
         /\ FindPrivate(w) => At(w, "find")
         /\ SavePrivate(w) => At(w, "privateSave")
         /\ GroupSave(w) => At(w, "groupSave")
         /\ JoinBoth(w) => At(w, "joinBoth")
         /\ Fail(w) => task[w].pc \notin {"idle", "auth", "emit", "joinBoth"}
         /\ \A s \in Sockets :
              /\ \A u \in Users : Connect(w, s, u) \/ Private(w, s, u) => At(w, "idle")
              /\ \A r \in Rooms : Send(w, s, r) \/ Load(w, s, r) \/ Page(w, s, r) => At(w, "idle")
         /\ \A s \in Suppliers : GroupHttp(w, s) => At(w, "idle")
         /\ \A v \in Users : PrivateHttp(w, v) => At(w, "idle")
         /\ \A r \in Rooms : LoadHttp(w, r) => At(w, "idle")
BY DEF Authenticated, FindGroup, FindDirect, JoinAll, SaveMessage, Emit, Fetch, Reply, Mark, FetchPage,
       FindPrivate, SavePrivate, GroupSave, JoinBoth, Fail, Connect, Private, Send, Load, Page, Ask,
       GroupHttp, PrivateHttp, LoadHttp, Accepts

\* Until its connection is verified a socket has no user, no room and no
\* message; from then on handlers work for the user it has.
ClientInv ==
  /\ \A w \in Workers : At(w, "auth") =>
       socket[task[w].socket].user = Nobody /\ socket[task[w].socket].state # "new"
  /\ \A v, w \in Workers :
       At(v, "auth") /\ At(w, "auth") /\ task[v].socket = task[w].socket => v = w
  /\ \A w \in Workers : task[w].op \in ClientOps \cup {"Connect"} /\ ~At(w, "auth") =>
       socket[task[w].socket].user = task[w].user
  /\ \A s \in Sockets : socket[s].state = "new" => socket[s].user = Nobody
  /\ \A s \in Sockets : socket[s].user = Nobody =>
       joined[s] = {} /\ seen[s] = {} /\ s \notin clients
  /\ \A s \in Sockets : Known(s) => s \in clients

LEMMA ClientInitial == Init => ClientInv
BY DEF Init, ClientInv, At, Idle, Known, Open, ClientOps

\* The handler that is at its first await takes its next step from there.
LEMMA FromAuth ==
  ASSUME NEW w \in Workers, Acts(w), At(w, "auth")
  PROVE  Authenticated(w)
BY PcBefore DEF Acts, At

LEMMA ClientHandlers ==
  ASSUME TypeInv, ClientInv, [Next]_vars
  PROVE  /\ \A w \in Workers : At(w, "auth")' =>
              socket'[task'[w].socket].user = Nobody /\ socket'[task'[w].socket].state # "new"
         /\ \A v, w \in Workers :
              At(v, "auth")' /\ At(w, "auth")' /\ task'[v].socket = task'[w].socket => v = w
         /\ \A w \in Workers : task'[w].op \in ClientOps \cup {"Connect"} /\ ~At(w, "auth")' =>
              socket'[task'[w].socket].user = task'[w].user
<1>0. \A w \in Workers :
        /\ task[w].op \in ClientOps \cup {"Connect"} => task[w].socket \in Sockets /\ task[w].user \in Users
        /\ task'[w].op \in ClientOps \cup {"Connect"} => task'[w].socket \in Sockets
        /\ At(w, "auth") => task[w].op = "Connect"
  BY TasksTyped DEF TypeInv, Tasks, Reaches, ClientOps, At
<1>a. \A u \in Users : u # Nobody
  BY UsersAssumption
<1>1. \A v \in Workers : task'[v] = task[v] \/ Acts(v)
  BY OneActs
<1>2. ASSUME NEW v \in Workers, At(v, "auth")'
      PROVE  \/ task'[v] = task[v] /\ At(v, "auth")
             \/ \E s \in Sockets, u \in Users : /\ Connect(v, s, u) /\ task'[v].socket = s
                                                /\ task'[v].op = "Connect"
  <2>1. CASE task'[v] = task[v]
    BY <1>2, <2>1 DEF At
  <2>2. CASE Acts(v)
    BY <1>2, <2>2, Carries DEF At, Keeps, Begins, Idle
  <2> QED
    BY <1>1, <2>1, <2>2
<1>3. ASSUME NEW v \in Workers, NEW w \in Workers, Authenticated(w), At(v, "auth"), task'[v] = task[v]
      PROVE  task[v].socket # task[w].socket
  <2>1. At(w, "auth") /\ task'[w].pc # "auth"
    BY <1>3, PcAfter DEF Authenticated
  <2> QED
    BY <1>3, <2>1 DEF ClientInv, At
<1>4. ASSUME NEW v \in Workers, NEW s \in Sockets, NEW u \in Users, Connect(v, s, u)
      PROVE  socket[s].state = "new" /\ socket'[s].state = "open" /\ socket'[s].user = socket[s].user
  BY <1>4 DEF Connect, TypeInv, SocketRows
<1>5. ASSUME NEW w \in Workers, At(w, "auth")'
      PROVE  socket'[task'[w].socket].user = Nobody /\ socket'[task'[w].socket].state # "new"
  <2>1. CASE task'[w] = task[w] /\ At(w, "auth")
    <3> DEFINE s == task[w].socket
    <3>1. s \in Sockets /\ socket[s].user = Nobody /\ socket[s].state # "new"
      BY <1>0, <2>1 DEF ClientInv
    <3>2. PICK q \in Sockets : q = s
      BY <3>1
    <3>3. socket'[q].user = socket[q].user /\ socket'[q].state # "new"
      BY <1>3, <2>1, <3>1, <3>2, SocketUsers
    <3> QED
      BY <2>1, <3>1, <3>2, <3>3
  <2>2. ASSUME NEW s \in Sockets, NEW u \in Users, Connect(w, s, u), task'[w].socket = s
        PROVE  socket'[task'[w].socket].user = Nobody /\ socket'[task'[w].socket].state # "new"
    BY <1>4, <2>2 DEF ClientInv
  <2> QED
    BY <1>2, <1>5, <2>1, <2>2
<1>6. ASSUME NEW v \in Workers, NEW w \in Workers, v # w, At(v, "auth")', At(w, "auth")'
      PROVE  task'[v].socket # task'[w].socket
  <2>1. ASSUME NEW x \in Workers, NEW y \in Workers, x # y, task'[x] = task[x], At(x, "auth"),
               \E s \in Sockets, u \in Users : Connect(y, s, u) /\ task'[y].socket = s
        PROVE  task'[x].socket # task'[y].socket
    BY <1>4, <2>1 DEF ClientInv
  <2>2. task'[v] = task[v] \/ task'[w] = task[w]
    BY <1>6, OneActs
  <2>3. CASE task'[v] = task[v] /\ At(v, "auth") /\ task'[w] = task[w] /\ At(w, "auth")
    BY <1>6, <2>3 DEF ClientInv
  <2>4. ASSUME NEW x \in Workers, task'[x] = task[x], NEW s \in Sockets, NEW u \in Users,
               Connect(x, s, u), task'[x].op = "Connect", task'[x].pc = "auth"
        PROVE  FALSE
    BY <2>4, PcBefore DEF At
  <2>5. (task'[v] = task[v] => At(v, "auth")) /\ (task'[w] = task[w] => At(w, "auth"))
    BY <1>6 DEF At
  <2>6. CASE task'[v] = task[v] /\ task'[w] # task[w]
    BY <1>2, <1>6, <2>1, <2>5, <2>6
  <2>7. CASE task'[v] # task[v] /\ task'[w] = task[w]
    BY <1>2, <1>6, <2>1, <2>5, <2>7
  <2> QED
    BY <2>2, <2>3, <2>5, <2>6, <2>7
<1>7. ASSUME NEW w \in Workers, task'[w].op \in ClientOps \cup {"Connect"}, ~At(w, "auth")'
      PROVE  socket'[task'[w].socket].user = task'[w].user
  <2>1. CASE task[w].op = task'[w].op /\ task[w].socket = task'[w].socket /\ task[w].user = task'[w].user
             /\ ~At(w, "auth")
    <3>1. PICK s \in Sockets : s = task[w].socket
      BY <1>0, <1>7, <2>1
    <3>2. socket[s].user = task[w].user /\ socket[s].user # Nobody
      BY <1>0, <1>7, <1>a, <2>1, <3>1 DEF ClientInv
    <3>3. ASSUME NEW v \in Workers, Authenticated(v), task[v].socket = s PROVE FALSE
      BY <3>2, <3>3 DEF Authenticated, ClientInv
    <3> QED
      BY <2>1, <3>1, <3>2, <3>3, SocketUsers
  <2>2. CASE task'[w] = task[w]
    BY <1>7, <2>1, <2>2 DEF At
  <2>3. CASE Acts(w) /\ Keeps(w)
    <3>1. CASE ~At(w, "auth")
      BY <2>1, <2>3, <3>1 DEF Keeps
    <3>2. CASE At(w, "auth")
      <4>1. socket' = [socket EXCEPT ![task[w].socket].user = task[w].user]
        BY <2>3, <3>2, FromAuth DEF Authenticated
      <4>2. task[w].socket \in Sockets
        BY <1>0, <3>2
      <4> QED
        BY <2>3, <4>1, <4>2 DEF Keeps, TypeInv, SocketRows
    <3> QED
      BY <3>1, <3>2
  <2>4. CASE Acts(w) /\ Begins(w)
    BY <1>7, <2>4 DEF Begins, At, sockets, ClientOps
  <2>5. CASE task'[w] = Idle
    BY <1>7, <2>5 DEF Idle, ClientOps
  <2> QED
    BY <1>1, <2>2, <2>3, <2>4, <2>5, Carries
<1> QED
  BY <1>5, <1>6, <1>7

LEMMA ClientStays == TypeInv /\ ClientInv /\ [Next]_vars => ClientInv'
<1> SUFFICES ASSUME TypeInv, ClientInv, [Next]_vars PROVE ClientInv'
  OBVIOUS
<1>a. \A u \in Users : u # Nobody
  BY UsersAssumption
<1>b. \A w \in Workers : task[w].op \in ClientOps \cup {"Connect"} /\ ~At(w, "auth") =>
        task[w].socket \in Sockets /\ socket[task[w].socket].user # Nobody
  BY <1>a DEF ClientInv, TypeInv, Tasks, Reaches, ClientOps
<1>c. \A w \in Workers : At(w, "auth") => task[w].socket \in Sockets /\ task[w].user \in Users
  BY DEF At, TypeInv, Tasks, Reaches
<1>1. ASSUME NEW s \in Sockets, socket'[s].user = Nobody
      PROVE  socket[s].user = Nobody /\ ~\E w \in Workers : Authenticated(w) /\ task[w].socket = s
  <2>1. ASSUME NEW w \in Workers, Authenticated(w), task[w].socket = s PROVE FALSE
    <3>1. socket'[s].user = task[w].user /\ task[w].user \in Users
      BY <1>c, <2>1 DEF Authenticated, TypeInv, SocketRows
    <3> QED
      BY <1>1, <1>a, <3>1
  <2> QED
    BY <1>1, <2>1, SocketUsers
<1>2. ASSUME NEW s \in Sockets, socket'[s].state = "new" PROVE socket'[s].user = Nobody
  <2>1. socket[s].state = "new" /\ socket[s].user = Nobody
    BY <1>2, SocketUsers DEF ClientInv
  <2>2. ASSUME NEW w \in Workers, Authenticated(w), task[w].socket = s PROVE FALSE
    BY <2>1, <2>2 DEF Authenticated, ClientInv
  <2> QED
    BY <2>1, <2>2, SocketUsers
<1>3. ASSUME NEW s \in Sockets, socket'[s].user = Nobody
      PROVE  joined'[s] = {} /\ seen'[s] = {} /\ s \notin clients'
  <2>1. socket[s].user = Nobody /\ joined[s] = {} /\ seen[s] = {} /\ s \notin clients
    BY <1>1, <1>3 DEF ClientInv
  <2>2. ASSUME NEW w \in Workers, \/ Reply(w) /\ task[w].op \in {"Load", "Join", "Page"}
                                  \/ JoinAll(w) \/ JoinBoth(w)
        PROVE  task[w].socket # s
    <3>1. task[w].op \in ClientOps \cup {"Connect"} /\ ~At(w, "auth")
      BY <2>2, PcBefore DEF ClientOps, At, TypeInv, Tasks, Reaches
    <3> QED
      BY <1>b, <2>1, <3>1
  <2>3. ASSUME NEW w \in Workers, JoinBoth(w), s \in Both(task[w]) PROVE FALSE
    BY <2>1, <2>2, <2>3 DEF Both
  <2>4. joined'[s] = {}
    BY <2>1, <2>2, <2>3, Joins DEF Leave
  <2>5. seen'[s] = {}
    BY <2>1, <2>2, Receives DEF Receivers
  <2>6. s \notin clients'
    <3>1. ASSUME NEW w \in Workers, Authenticated(w) PROVE s \notin clients'
      BY <1>1, <1>3, <2>1, <3>1 DEF Authenticated
    <3>2. ASSUME NEW w \in Workers, \/ \E q \in Sockets, u \in Users : Connect(w, q, u)
                                    \/ JoinAll(w) \/ Emit(w) \/ Reply(w) \/ FetchPage(w) \/ JoinBoth(w)
          PROVE  clients' = clients
      BY <3>2 DEF Connect, JoinAll, Emit, Reply, FetchPage, JoinBoth, sockets
    <3>3. ASSUME NEW q \in Sockets, Disconnect(q) \/ \E r \in Rooms : Leave(q, r)
          PROVE  clients' \subseteq clients
      BY <3>3 DEF Disconnect, Leave
    <3>4. ASSUME UNCHANGED sockets PROVE clients' = clients
      BY <3>4 DEF sockets
    <3> QED
      BY <2>1, <3>1, <3>2, <3>3, <3>4, SocketActions
  <2> QED
    BY <2>4, <2>5, <2>6
<1>4. ASSUME NEW s \in Sockets, Known(s)' PROVE s \in clients'
  <2>1. ASSUME NEW w \in Workers, NEW u \in Users, Connect(w, s, u) PROVE FALSE
    <3>1. socket'[s].user = Nobody
      BY <2>1 DEF Connect, ClientInv, TypeInv, SocketRows
    <3> QED
      BY <1>4, <3>1 DEF Known
  <2>2. ASSUME Disconnect(s) PROVE FALSE
    BY <1>4, <2>2 DEF Disconnect, Known, Open, TypeInv, SocketRows
  <2>3. ASSUME NEW w \in Workers, Authenticated(w), task[w].socket = s PROVE s \in clients'
    BY <2>3 DEF Authenticated
  <2>4. CASE socket'[s].user = socket[s].user /\ socket'[s].state = socket[s].state
    <3>1. s \in clients
      BY <1>4, <2>4 DEF ClientInv, Known, Open
    <3>2. ASSUME NEW w \in Workers, \/ \E q \in Sockets, u \in Users : Connect(w, q, u)
                                    \/ Authenticated(w)
                                    \/ JoinAll(w) \/ Emit(w) \/ Reply(w) \/ FetchPage(w) \/ JoinBoth(w)
          PROVE  clients \subseteq clients'
      BY <3>2 DEF Connect, Authenticated, JoinAll, Emit, Reply, FetchPage, JoinBoth, sockets
    <3>3. ASSUME NEW q \in Sockets, Disconnect(q) \/ \E r \in Rooms : Leave(q, r)
          PROVE  (q = s /\ Disconnect(s)) \/ s \in clients'
      BY <3>1, <3>3 DEF Disconnect, Leave
    <3>4. ASSUME UNCHANGED sockets PROVE clients' = clients
      BY <3>4 DEF sockets
    <3> QED
      BY <2>2, <3>1, <3>2, <3>3, <3>4, SocketActions
  <2> QED
    BY <2>1, <2>2, <2>3, <2>4, SocketUsers
<1> QED
  BY <1>2, <1>3, <1>4, ClientHandlers DEF ClientInv

LEMMA ClientInvariant == Spec => []ClientInv
BY ClientInitial, ClientStays, TypeInvariant, PTL DEF Spec

-----------------------------------------------------------------------------
(* What is marked as read has been delivered.                              *)

\* Messages are read by those who ask for them on a socket, and no query fails.
ReadOnSockets == ~Asked({"Join", "LoadHttp", "Fail"})

Delivered(m) == \E s \in Sockets : m \in seen[s] /\ socket[s].user # message[m].sender

\* A handler holds the message for a user who has not written it.
OnItsWay(m, w) ==
  /\ At(w, "mark") /\ task[w].op \in {"Load", "Page"} /\ m \in task[w].got
  /\ task[w].user # message[m].sender

ReadInv ==
  ReadOnSockets =>
    /\ \A m \in Stored : message[m].read => Delivered(m) \/ \E w \in Workers : OnItsWay(m, w)
    /\ \A w \in Workers : At(w, "mark") =>
         task[w].unread \subseteq task[w].got
         /\ \A m \in task[w].unread : message[m].sender # task[w].user

LEMMA ReadInitial == Init => ReadInv
BY DEF Init, ReadInv, Stored, NoMsg, At, Idle

LEMMA DeliveredStays ==
  ASSUME TypeInv, ClientInv, [Next]_vars, NEW m \in Stored, Delivered(m)
  PROVE  Delivered(m)'
<1>1. PICK s \in Sockets : m \in seen[s] /\ socket[s].user # message[m].sender
  BY DEF Delivered
<1>2. m \in seen'[s]
  BY <1>1, Receives
<1>3. socket[s].user # Nobody
  BY <1>1 DEF ClientInv
<1>4. ASSUME NEW w \in Workers, Authenticated(w), task[w].socket = s PROVE FALSE
  BY <1>3, <1>4 DEF Authenticated, ClientInv
<1>5. socket'[s].user = socket[s].user /\ message'[m].sender = message[m].sender
  BY <1>4, SocketUsers, MessagesGrow
<1> QED
  BY <1>1, <1>2, <1>5 DEF Delivered

\* Those who read a message mark it for the user they read it for.
LEMMA UnreadKept ==
  ASSUME TypeInv, OpsInv, ReadInv, [Next]_vars, ReadOnSockets, NEW w \in Workers, At(w, "mark")'
  PROVE  /\ task'[w].unread \subseteq task'[w].got
         /\ \A m \in task'[w].unread : message'[m].sender # task'[w].user
<1> DEFINE Goal == /\ task'[w].unread \subseteq task'[w].got
                   /\ \A m \in task'[w].unread : message'[m].sender # task'[w].user
<1>0. task \in [Workers -> Tasks] /\ task[w] \in Records /\ task[w].unread \subseteq Stored
  BY DEF TypeInv, Tasks, Grounded
<1>1. \A m \in Stored : message'[m].sender = message[m].sender
  BY MessagesGrow
<1>2. CASE task'[w] = task[w]
  BY <1>0, <1>1, <1>2 DEF ReadInv, At
<1>3. CASE Acts(w)
  <2>1. Fetch(w) \/ FetchPage(w) \/ (\E m \in Messages : Mark(w, m)) \/ \E r \in Rooms : LoadHttp(w, r)
    BY <1>3, PcAfter DEF Acts, At, Idle
  <2>2. ASSUME NEW r \in Rooms, LoadHttp(w, r) PROVE FALSE
    BY <2>2 DEF LoadHttp, Accepts, ReadOnSockets, Asked
  <2>3. ASSUME NEW m \in Messages, Mark(w, m) PROVE Goal
    <3>1. /\ task'[w].unread = task[w].unread \ {m} /\ task'[w].got = task[w].got
          /\ task'[w].user = task[w].user
      BY <1>0, <2>3 DEF Mark, Become, Records
    <3> QED
      BY <1>0, <1>1, <2>3, <3>1 DEF ReadInv, Mark
  <2>4. CASE Fetch(w)
    <3> DEFINE ms == Posted(task[w].room)
    <3>1. /\ task'[w].unread = Unread(ms, task[w].user) /\ task'[w].got = ms
          /\ task'[w].user = task[w].user
      BY <1>0, <2>4 DEF Fetch, Become, Records
    <3>2. ms \subseteq Stored
      BY DEF Posted
    <3> HIDE DEF ms
    <3> QED
      BY <1>1, <3>1, <3>2 DEF Unread
  <2>5. CASE FetchPage(w)
    <3> DEFINE rest == Older(Posted(task[w].room), socket[task[w].socket].page.next)
               ms == Newest(rest, PageSize)
    <3>1. \E more : Become(w, [task[w] EXCEPT !.got = ms, !.unread = Unread(ms, task[w].user),
                                             !.pc = "mark", !.more = more])
      BY <2>5 DEF FetchPage
    <3>2. ms \subseteq Stored
      BY DEF Newest, Older, Posted
    <3> HIDE DEF ms
    <3>3. /\ task'[w].unread = Unread(ms, task[w].user) /\ task'[w].got = ms
          /\ task'[w].user = task[w].user
      BY <1>0, <3>1 DEF Become, Records
    <3> QED
      BY <1>1, <3>2, <3>3 DEF Unread
  <2> QED
    BY <2>1, <2>2, <2>3, <2>4, <2>5
<1> QED
  BY <1>2, <1>3, OneActs

\* What a handler holds for its user it gives to the socket that has asked.
LEMMA OnItsWayStays ==
  ASSUME TypeInv, OpsInv, ClientInv, [Next]_vars, ReadOnSockets, NEW m \in Stored, NEW w \in Workers,
         OnItsWay(m, w)
  PROVE  OnItsWay(m, w)' \/ Delivered(m)'
<1>0. message'[m].sender = message[m].sender
  BY MessagesGrow
<1>a. task \in [Workers -> Tasks] /\ task[w] \in Records
  BY DEF TypeInv, Tasks
<1>1. CASE task'[w] = task[w]
  BY <1>0, <1>1 DEF OnItsWay, At
<1>2. CASE Acts(w)
  <2>1. (\E k \in Messages : Mark(w, k)) \/ Reply(w) \/ Fail(w)
    BY <1>2, PcBefore DEF Acts, OnItsWay, At
  <2>2. ASSUME Fail(w) PROVE FALSE
    BY <2>2 DEF Fail, ReadOnSockets, Asked
  <2>3. ASSUME NEW k \in Messages, Mark(w, k) PROVE OnItsWay(m, w)'
    <3>1. /\ task'[w].pc = "mark" /\ task'[w].got = task[w].got /\ task'[w].user = task[w].user
          /\ task'[w].op = task[w].op
      BY <1>a, <2>3 DEF Mark, Become, Records, At
    <3> QED
      BY <1>0, <3>1 DEF OnItsWay, At
  <2>4. CASE Reply(w)
    <3>1. task[w].op \in {"Load", "Page"} /\ m \in task[w].got /\ task[w].user # message[m].sender
          /\ ~At(w, "auth")
      BY DEF OnItsWay, At
    <3>2. PICK s \in Sockets : s = task[w].socket
      BY <3>1 DEF TypeInv, Tasks, Reaches
    <3>3. socket[s].user = task[w].user
      BY <3>1, <3>2 DEF ClientInv, ClientOps
    <3>4. m \in seen'[s]
      BY <2>4, <3>1, <3>2 DEF Reply, Receive
    <3>5. ASSUME NEW v \in Workers, Authenticated(v) PROVE FALSE
      <4>1. v # w /\ At(v, "auth")
        BY <2>4, <3>5 DEF Authenticated, Reply, At
      <4>2. task'[v] # task[v] /\ task'[w] # task[w]
        BY <2>4, <3>1, <3>5, <4>1, PcAfter DEF At, Idle
      <4> QED
        BY <4>1, <4>2, OneActs
    <3>6. socket'[s].user = socket[s].user
      BY <3>5, SocketUsers
    <3> QED
      BY <1>0, <3>1, <3>3, <3>4, <3>6 DEF Delivered
  <2> QED
    BY <2>1, <2>2, <2>3, <2>4
<1> QED
  BY <1>1, <1>2, OneActs

LEMMA ReadStays == TypeInv /\ OpsInv /\ ClientInv /\ ReadInv /\ [Next]_vars => ReadInv'
<1> SUFFICES ASSUME TypeInv, OpsInv, ClientInv, ReadInv, [Next]_vars, ReadOnSockets PROVE ReadInv'
  BY TasksTyped DEF ReadInv, ReadOnSockets, Asked
<1>1. ASSUME NEW m \in Stored', message'[m].read
      PROVE  Delivered(m)' \/ \E w \in Workers : OnItsWay(m, w)'
  <2>1. CASE m \in Stored /\ message[m].read
    BY <2>1, DeliveredStays, OnItsWayStays DEF ReadInv
  <2>2. ASSUME NEW w \in Workers, NEW k \in Messages, NEW r, NEW u, InsertMessage(k, r, u)
        PROVE  m \in Stored /\ message[m].read
    <3>1. message' = [message EXCEPT ![k] = [room |-> r, sender |-> u, at |-> clock, read |-> FALSE]]
      BY <2>2 DEF InsertMessage
    <3>2. m # k /\ message'[m] = message[m]
      BY <1>1, <3>1 DEF TypeInv, Stored
    <3> QED
      BY <1>1, <3>2 DEF Stored
  <2>3. ASSUME NEW w \in Workers, NEW k \in Messages, Mark(w, k)
        PROVE  Delivered(m)' \/ OnItsWay(m, w)' \/ (m \in Stored /\ message[m].read)
    <3>1. message' = [message EXCEPT ![k].read = TRUE] /\ k \in task[w].unread /\ At(w, "mark")
      BY <2>3 DEF Mark
    <3>2. m \in Stored
      BY <1>1, <3>1 DEF TypeInv, MessageRows, Stored
    <3>3. CASE m # k
      BY <1>1, <3>1, <3>2, <3>3 DEF TypeInv, Stored
    <3>4. CASE m = k
      <4>1. task[w].op \in {"Load", "Page"}
        BY <3>1 DEF TypeInv, Tasks, Reaches, At, OpsInv, ReadOnSockets, Asked
      <4>2. m \in task[w].got /\ message[m].sender # task[w].user
        BY <3>1, <3>4 DEF ReadInv
      <4>3. OnItsWay(m, w)
        BY <3>1, <4>1, <4>2 DEF OnItsWay
      <4> QED
        BY <3>2, <4>3, OnItsWayStays
    <3> QED
      BY <3>3, <3>4
  <2>4. CASE message' = message
    BY <1>1, <2>1, <2>4 DEF Stored
  <2> QED
    BY <2>1, <2>2, <2>3, <2>4, MessageActions DEF PostHttp, SaveMessage
<1> QED
  BY <1>1, UnreadKept DEF ReadInv

LEMMA ReadImplies == ReadInv => ReadIsDelivered
BY DEF ReadInv, ReadIsDelivered, AtRest, OnItsWay, Delivered, At, ReadOnSockets

\* What is marked as read has been given to somebody who did not write it, as
\* long as nobody joins rooms by hand or reads over HTTP and no query fails
\* (getRoomMessages marks what it returns).
THEOREM ReadMeansDelivered == Spec => []ReadIsDelivered
BY ReadInitial, ReadStays, ReadImplies, TypeInvariant, OpsInvariant, ClientInvariant, PTL DEF Spec

-----------------------------------------------------------------------------
(* Sockets are in the private rooms opened with their users.               *)

\* Nobody leaves a room, no query fails, and rooms come from the gateway.
RoomsByGateway == ~Asked({"Leave", "Fail", "PrivateHttp", "CreateRoom"})

Target(s, r) ==
  /\ Open(s) /\ socket[s].user \in room[r].members
  /\ room[r].kind # "group" /\ room[r].by # socket[s].user

\* A handler is going to put the socket into the room: the connection of the
\* socket, which has not looked for rooms yet or has found this one, or the
\* handler of the one who has opened it.
Coming(s, r, w) ==
  \/ task[w].socket = s /\ task[w].op = "Connect" /\ task[w].pc \in {"group", "groupSave", "direct"}
  \/ task[w].socket = s /\ At(w, "joinAll") /\ r \in task[w].rooms
  \/ At(w, "joinBoth") /\ task[w].room = r /\ task[w].target = socket[s].user

JoinInv ==
  RoomsByGateway =>
    \A s \in Sockets, r \in Exists : Target(s, r) => r \in joined[s] \/ \E w \in Workers : Coming(s, r, w)

LEMMA JoinInitial == Init => JoinInv
BY DEF Init, JoinInv, Exists, Unused

\* A handler that is going to put a socket into a room does.
LEMMA ComingStays ==
  ASSUME TypeInv, OpsInv, ClientInv, [Next]_vars, RoomsByGateway,
         NEW s \in Sockets, NEW r \in Exists, NEW w \in Workers,
         Target(s, r), Target(s, r)', Coming(s, r, w), socket'[s].user = socket[s].user
  PROVE  Coming(s, r, w)' \/ r \in joined'[s]
<1> DEFINE Goal == Coming(s, r, w)' \/ r \in joined'[s]
<1>0. task \in [Workers -> Tasks] /\ task[w] \in Records
  BY DEF TypeInv, Tasks
<1>1. CASE task'[w] = task[w]
  BY <1>1 DEF Coming, At
<1>2. CASE Acts(w)
  <2>0. task[w].pc \in {"group", "groupSave", "direct", "joinAll", "joinBoth"}
    BY DEF Coming, At
  <2>1. FindGroup(w) \/ GroupSave(w) \/ FindDirect(w) \/ JoinAll(w) \/ JoinBoth(w) \/ Fail(w)
    BY <1>2, <2>0, PcBefore DEF Acts, At
  <2>2. ASSUME Fail(w) PROVE FALSE
    BY <2>2 DEF Fail, RoomsByGateway, Asked
  <2>3. CASE FindGroup(w)
    <3>1. task[w].socket = s /\ task[w].op = "Connect"
      BY <2>3 DEF Coming, FindGroup, At
    <3>2. task'[w].socket = s /\ task'[w].op = "Connect"
      BY <1>0, <2>3, <3>1 DEF FindGroup, Become, Records
    <3>3. task'[w].pc \in {"groupSave", "direct"}
      BY <2>3, PcAfter
    <3> QED
      BY <3>2, <3>3 DEF Coming
  <2>4. CASE GroupSave(w)
    <3>1. task[w].socket = s /\ task[w].op = "Connect"
      BY <2>4 DEF Coming, GroupSave, At
    <3>2. task'[w].socket = s /\ task'[w].op = "Connect" /\ task'[w].pc = "direct"
      BY <1>0, <2>4, <3>1 DEF GroupSave, Goto, Become, Records
    <3> QED
      BY <3>2 DEF Coming
  <2>5. CASE FindDirect(w)
    <3>1. task[w].socket = s /\ task[w].op = "Connect" /\ ~At(w, "auth")
      BY <2>5 DEF Coming, FindDirect, At
    <3>2. socket[s].user = task[w].user
      BY <3>1 DEF ClientInv
    <3>3. r \in DirectRooms(task[w].user)
      BY <3>2 DEF Target, DirectRooms
    <3>4. task'[w].socket = s /\ task'[w].pc = "joinAll" /\ task'[w].rooms = DirectRooms(task[w].user)
      BY <1>0, <2>5, <3>1 DEF FindDirect, Become, Records
    <3> QED
      BY <3>3, <3>4 DEF Coming, At
  <2>6. CASE JoinAll(w)
    <3>1. task[w].socket = s /\ r \in task[w].rooms
      BY <2>6 DEF Coming, JoinAll, At
    <3>2. PICK found : joined' = [joined EXCEPT ![task[w].socket] = @ \cup task[w].rooms \cup found]
      BY <2>6 DEF JoinAll
    <3> QED
      BY <3>1, <3>2 DEF TypeInv
  <2>7. CASE JoinBoth(w)
    <3>1. task[w].room = r /\ task[w].target = socket[s].user
      BY <2>7 DEF Coming, JoinBoth, At
    <3>2. socket[s].user # Nobody
      BY UsersAssumption DEF Target, TypeInv, RoomRows, Exists
    <3>3. s \in Both(task[w])
      BY <3>1, <3>2 DEF Both, ClientInv, Known, Target
    <3> QED
      BY <2>7, <3>1, <3>3 DEF JoinBoth
  <2> QED
    BY <2>1, <2>2, <2>3, <2>4, <2>5, <2>6, <2>7
<1> QED
  BY <1>1, <1>2, OneActs

\* A room that is new is on its way to the sockets of the user it is opened with.
LEMMA NewRoomComing ==
  ASSUME TypeInv, OpsInv, [Next]_vars, RoomsByGateway,
         NEW s \in Sockets, NEW r \in Exists', r \notin Exists, Target(s, r)'
  PROVE  \E w \in Workers : Coming(s, r, w)'
<1>0. room' # room
  BY DEF Exists
<1>1. ASSUME NEW w \in Workers, NEW q \in Rooms, NEW members \in SUBSET Users,
             NEW kind \in {"pair", "guest"}, CreateRoom(w, q, kind, members)
      PROVE  FALSE
  BY <1>1 DEF CreateRoom, Accepts, RoomsByGateway, Asked
<1>2. ASSUME NEW w \in Workers, GroupSave(w) PROVE FALSE
  <2>1. PICK q, supplier, members, by : q \in Rooms /\ Insert(q, "group", supplier, members, by)
    BY <1>2 DEF GroupSave
  <2>2. room'[r] = room[r] \/ room'[r].kind = "group"
    BY <2>1 DEF Insert, TypeInv
  <2> QED
    BY <2>2 DEF Target, Exists
<1>3. PICK w \in Workers : SavePrivate(w)
  BY <1>0, <1>1, <1>2, RoomActions
<1>4. task[w].op = "Private"
  BY <1>3 DEF SavePrivate, At, TypeInv, Tasks, Reaches, OpsInv, RoomsByGateway, Asked
<1>5. PICK q \in Rooms :
        /\ Insert(q, PrivateKind(task[w].user, task[w].target), Nobody, {task[w].user, task[w].target},
                  task[w].user)
        /\ Become(w, [task[w] EXCEPT !.room = q, !.pc = "joinBoth"])
  BY <1>3, <1>4 DEF SavePrivate
<1>6. q = r /\ room'[r].members = {task[w].user, task[w].target} /\ room'[r].by = task[w].user
  BY <1>5 DEF Insert, TypeInv, Exists
<1>7. socket'[s].user = task[w].target
  BY <1>6 DEF Target
<1>8. task'[w].pc = "joinBoth" /\ task'[w].room = q /\ task'[w].target = task[w].target
  BY <1>5 DEF Become, TypeInv, Tasks, Records
<1> QED
  BY <1>6, <1>7, <1>8 DEF Coming, At

LEMMA JoinStays == TypeInv /\ OpsInv /\ ClientInv /\ JoinInv /\ [Next]_vars => JoinInv'
<1> SUFFICES ASSUME TypeInv, OpsInv, ClientInv, JoinInv, [Next]_vars, RoomsByGateway,
                    NEW s \in Sockets, NEW r \in Exists', Target(s, r)'
             PROVE  r \in joined'[s] \/ \E w \in Workers : Coming(s, r, w)'
  BY TasksTyped DEF JoinInv, RoomsByGateway, Asked
<1>0. socket'[s].user # Nobody
  BY Typed, UsersAssumption DEF Target, TypeInv, RoomRows, Exists
<1>1. CASE r \notin Exists
  BY <1>1, NewRoomComing
<1>2. CASE r \in Exists /\ socket'[s].user # socket[s].user
  <2>1. PICK w \in Workers : Authenticated(w) /\ task[w].socket = s
    BY <1>2, SocketUsers
  <2>2. task'[w].pc \in {"group", "direct"}
    BY <2>1, PcAfter
  <2>3. Keeps(w) \/ Begins(w)
    BY <2>1, <2>2, Carries DEF Acts, Idle
  <2>4. task[w].pc = "auth" /\ task[w].op = "Connect"
    BY <2>1 DEF Authenticated, At, TypeInv, Tasks, Reaches
  <2>5. task'[w].socket = s /\ task'[w].op = "Connect"
    <3>1. CASE Keeps(w)
      BY <2>1, <2>4, <3>1 DEF Keeps
    <3>2. CASE Begins(w)
      <4>1. UNCHANGED sockets
        BY <2>2, <3>2 DEF Begins
      <4> QED
        BY <1>2, <4>1 DEF sockets
    <3> QED
      BY <2>3, <3>1, <3>2
  <2> QED
    BY <2>2, <2>5 DEF Coming
<1>3. CASE r \in Exists /\ socket'[s].user = socket[s].user
  <2>0. room'[r] = room[r]
    BY <1>3, RoomsGrow
  <2>1. ASSUME Disconnect(s) PROVE FALSE
    BY <2>1 DEF Disconnect, Target, Open, TypeInv, SocketRows
  <2>2. ASSUME NEW w \in Workers, NEW u \in Users, Connect(w, s, u) PROVE FALSE
    <3>1. socket[s].user = Nobody
      BY <2>2 DEF Connect, ClientInv
    <3> QED
      BY <1>0, <1>3, <3>1
  <2>3. Target(s, r)
    BY <1>3, <2>0, <2>1, <2>2, SocketUsers DEF Target, Open
  <2>4. CASE r \in joined[s]
    <3>1. ASSUME NEW q \in Rooms, Leave(s, q) PROVE FALSE
      BY <3>1 DEF Leave, RoomsByGateway, Asked
    <3> QED
      BY <2>1, <2>4, <3>1, Joins
  <2> QED
    BY <1>3, <2>3, <2>4, ComingStays DEF JoinInv
<1> QED
  BY <1>1, <1>2, <1>3

LEMMA JoinImplies == JoinInv => TargetsJoined
BY DEF JoinInv, TargetsJoined, AtRest, At, Coming, Target, RoomsByGateway

\* Once every handler has ended, each socket of a user hears the private rooms
\* others have opened with that user, also when the room was opened while the
\* socket was connecting (handleConnection, handleCreatePrivateRoom).
THEOREM TargetsHear == Spec => []TargetsJoined
BY JoinInitial, JoinStays, JoinImplies, TypeInvariant, OpsInvariant, ClientInvariant, PTL DEF Spec

-----------------------------------------------------------------------------
(* A client that has caught up misses nothing.                             *)

\* Messages are sent on sockets, and no room is left and joined again while
\* its messages are loaded.
SentOnSockets == ~Asked({"PostHttp", "BotHttp"}) /\ (Serial \/ ~Asked({"Leave"}))

Sending(m, r) == \E w \in Workers : At(w, "emit") /\ m \in task[w].got /\ task[w].room = r

\* With these messages the socket has all of the room, or will.
HasAll(s, r, ms) == \A m \in Posted(r) : m \in ms \/ m \in seen[s] \/ Sending(m, r)

Loads(w) == task[w].op = "Load" /\ task[w].more /\ Open(task[w].socket)

CaughtInv ==
  SentOnSockets =>
    /\ \A s \in Sockets : Open(s) => \A r \in caught[s] : r \in joined[s] /\ HasAll(s, r, {})
    /\ \A w \in Workers : At(w, "mark") /\ Loads(w) =>
         HasAll(task[w].socket, task[w].room, task[w].got)
    /\ \A s \in Sockets : socket[s].user = Nobody => caught[s] = {}
    /\ ~Asked({"Leave"}) => \A w \in Workers : Loads(w) => task[w].room \in joined[task[w].socket]

LEMMA CaughtInitial == Init => CaughtInv
BY DEF Init, CaughtInv, At, Idle, Loads

\* A socket that is in the room while others send goes on having all of it.
LEMMA HasAllStays ==
  ASSUME TypeInv, [Next]_vars, SentOnSockets, NEW s \in Sockets, NEW r \in Rooms, NEW ms,
         HasAll(s, r, ms), Open(s), \A w \in Workers : Emit(w) /\ task[w].room = r => r \in joined[s]
  PROVE  HasAll(s, r, ms)'
<1> SUFFICES ASSUME NEW m \in Posted(r)' PROVE m \in ms \/ m \in seen'[s] \/ Sending(m, r)'
  BY DEF HasAll
<1>1. CASE m \in Posted(r)
  <2>1. CASE m \in seen[s]
    BY <2>1, Receives
  <2>2. ASSUME NEW w \in Workers, At(w, "emit"), m \in task[w].got, task[w].room = r
        PROVE  m \in seen'[s] \/ Sending(m, r)'
    <3>1. CASE task'[w] = task[w]
      BY <2>2, <3>1 DEF Sending, At
    <3>2. CASE Emit(w)
      BY <2>2, <3>2 DEF Emit, Receive, Receivers
    <3>3. CASE Acts(w)
      BY <2>2, <3>2, <3>3, PcBefore DEF Acts, At
    <3> QED
      BY <3>1, <3>3, OneActs
  <2> QED
    BY <1>1, <2>1, <2>2 DEF HasAll, Sending
<1>2. CASE m \notin Posted(r)
  <2>0. m \notin Stored /\ m \in Messages
    BY <1>2, MessagesGrow DEF Posted, Stored
  <2>1. message' # message
    BY <2>0 DEF Posted, Stored
  <2>2. ASSUME NEW w \in Workers, NEW k \in Messages, Mark(w, k) PROVE FALSE
    <3>1. message' = [message EXCEPT ![k].read = TRUE]
      BY <2>2 DEF Mark
    <3> QED
      BY <2>0, <3>1 DEF Posted, Stored, TypeInv, MessageRows
  <2>3. ASSUME NEW w \in Workers, NEW k \in Messages, NEW q \in Rooms, NEW u \in Users \cup {Nobody},
               PostHttp(w, k, q, u)
        PROVE  FALSE
    BY <2>3 DEF PostHttp, Accepts, SentOnSockets, Asked
  <2>4. PICK w \in Workers : SaveMessage(w)
    BY <2>1, <2>2, <2>3, MessageActions
  <2>5. PICK k \in Messages : /\ InsertMessage(k, task[w].room, task[w].user)
                              /\ Become(w, [task[w] EXCEPT !.pc = "emit", !.got = {k}])
    BY <2>4 DEF SaveMessage
  <2>6. m = k /\ task[w].room = r
    BY <2>0, <2>5 DEF InsertMessage, TypeInv, Posted, Stored
  <2>7. task'[w].pc = "emit" /\ task'[w].got = {k} /\ task'[w].room = task[w].room
    BY <2>5 DEF Become, TypeInv, Tasks, Records
  <2> QED
    BY <2>6, <2>7 DEF Sending, At
<1> QED
  BY <1>1, <1>2

\* An open socket with a user was open before, if it has had its user.
LEMMA OpenBefore ==
  ASSUME TypeInv, ClientInv, [Next]_vars, NEW s \in Sockets, Open(s)', socket[s].user # Nobody
  PROVE  Open(s)
<1>1. ~Disconnect(s)
  BY DEF Disconnect, Open, TypeInv, SocketRows
<1>2. ASSUME NEW w \in Workers, NEW u \in Users, Connect(w, s, u) PROVE FALSE
  BY <1>2 DEF Connect, ClientInv
<1> QED
  BY <1>1, <1>2, SocketUsers DEF Open

\* Rooms of an open socket are left by the client only.
LEMMA StaysJoined ==
  ASSUME TypeInv, [Next]_vars, NEW s \in Sockets, NEW r \in joined[s], Open(s)'
  PROVE  r \in joined'[s] \/ Leave(s, r)
<1>1. ~Disconnect(s)
  BY DEF Disconnect, Open, TypeInv, SocketRows
<1> QED
  BY <1>1, Joins

\* The handler that loads for a socket keeps what it has asked for.
LEMMA LoadStep ==
  ASSUME TypeInv, ClientInv, [Next]_vars, NEW w \in Workers, Loads(w)'
  PROVE  \/ /\ Loads(w) /\ task'[w].socket = task[w].socket /\ task'[w].room = task[w].room
            /\ task[w].socket \in Sockets
            /\ \/ task'[w].pc = task[w].pc /\ task'[w].got = task[w].got
               \/ Fetch(w) /\ task'[w].got = Posted(task[w].room) /\ UNCHANGED <<message, seen>>
         \/ \E s \in Sockets : /\ task'[w].socket = s /\ task'[w].room \in joined[s]
                               /\ task'[w].pc = "fetch" /\ UNCHANGED sockets
<1> DEFINE Goal ==
       \/ /\ Loads(w) /\ task'[w].socket = task[w].socket /\ task'[w].room = task[w].room
          /\ task[w].socket \in Sockets
          /\ \/ task'[w].pc = task[w].pc /\ task'[w].got = task[w].got
             \/ Fetch(w) /\ task'[w].got = Posted(task[w].room) /\ UNCHANGED <<message, seen>>
       \/ \E s \in Sockets : /\ task'[w].socket = s /\ task'[w].room \in joined[s]
                             /\ task'[w].pc = "fetch" /\ UNCHANGED sockets
<1>0. task \in [Workers -> Tasks] /\ task[w] \in Records
  BY DEF TypeInv, Tasks
<1>1. ASSUME task'[w].socket = task[w].socket, task'[w].op = task[w].op,
             task'[w].more = task[w].more
      PROVE  Loads(w) /\ task[w].socket \in Sockets
  <2>1. task[w].op = "Load" /\ task[w].pc # "auth" /\ task[w].more
    BY <1>1 DEF Loads, TypeInv, Tasks, Reaches
  <2>2. PICK s \in Sockets : s = task[w].socket
    BY <2>1 DEF TypeInv, Tasks, Reaches
  <2>3. socket[s].user # Nobody
    BY <2>1, <2>2, UsersAssumption DEF ClientInv, ClientOps, At, TypeInv, Tasks, Reaches
  <2>4. Open(s)'
    BY <1>1, <2>2 DEF Loads, Open
  <2> QED
    BY <2>1, <2>2, <2>3, <2>4, OpenBefore DEF Loads
<1>2. CASE task'[w] = task[w]
  BY <1>1, <1>2
<1>3. CASE Acts(w)
  <2>1. ASSUME NEW s \in Sockets, NEW r \in Rooms, Load(w, s, r) PROVE Goal
    <3>1. CASE Ask(w, "Join", s, [Idle EXCEPT !.pc = "fetch", !.room = r])
      BY <1>0, <3>1 DEF Ask, Become, Idle, Loads
    <3>2. CASE Ask(w, "Load", s, [Idle EXCEPT !.pc = "fetch", !.room = r, !.more = r \in joined[s]])
      <4>1. /\ task'[w].socket = s /\ task'[w].room = r /\ task'[w].pc = "fetch"
            /\ (task'[w].more => r \in joined[s]) /\ UNCHANGED sockets
        BY <1>0, <3>2 DEF Ask, Become, Idle
      <4> QED
        BY <4>1 DEF Loads
    <3> QED
      BY <2>1, <3>1, <3>2 DEF Load
  <2>2. ASSUME NEW m \in Messages, Mark(w, m) PROVE Goal
    <3>1. /\ task'[w].socket = task[w].socket /\ task'[w].room = task[w].room
          /\ task'[w].op = task[w].op /\ task'[w].more = task[w].more
          /\ task'[w].pc = task[w].pc /\ task'[w].got = task[w].got
      BY <1>0, <2>2 DEF Mark, Become, Records
    <3> QED
      BY <1>1, <3>1
  <2>3. CASE Fetch(w)
    <3>1. /\ task'[w].socket = task[w].socket /\ task'[w].room = task[w].room
          /\ task'[w].op = task[w].op /\ task'[w].more = task[w].more
          /\ task'[w].got = Posted(task[w].room)
      BY <1>0, <2>3 DEF Fetch, Become, Records
    <3> QED
      BY <1>1, <2>3, <3>1 DEF Fetch, database, sockets
  <2>4. task'[w] # Idle
    BY DEF Loads, Idle
  <2>5. CASE Keeps(w)
    <3>1. task[w].op = "Load" /\ task[w].pc # "idle"
      BY <2>5 DEF Keeps, Loads
    <3>2. task[w].pc \in {"fetch", "mark"}
      BY <3>1 DEF TypeInv, Tasks, Records, Reaches, Pcs
    <3>3. Fetch(w) \/ (\E m \in Messages : Mark(w, m)) \/ Reply(w) \/ Fail(w)
      BY <1>3, <3>2, PcBefore DEF Acts, At
    <3>4. ASSUME Fail(w) PROVE FALSE
      BY <1>0, <2>4, <3>1, <3>4 DEF Fail, Finish, Become
    <3> QED
      BY <2>2, <2>3, <2>4, <3>3, <3>4, PcAfter
  <2>6. CASE Begins(w)
    <3>1. task'[w].op = "Load"
      BY DEF Loads
    <3>2. \/ \E s \in Sockets, r \in Rooms : Load(w, s, r)
          \/ task[w].pc # "idle"
          \/ \E s \in Sockets, u \in Users : Connect(w, s, u) \/ Private(w, s, u)
          \/ \E s \in Sockets, r \in Rooms : Send(w, s, r) \/ Page(w, s, r)
          \/ task'[w].pc \in {"groupSave", "privateSave"}
          \/ \E r \in Rooms : LoadHttp(w, r)
      BY <1>3, PcBefore, PcAfter DEF Acts, At
    <3>3. task'[w].pc \in {"fetch", "mark"} /\ task'[w].op = "Load"
      BY <2>4, <3>1, TasksTyped DEF Tasks, Records, Reaches, Pcs
    <3>4. ASSUME NEW r \in Rooms, LoadHttp(w, r) PROVE FALSE
      BY <1>0, <3>1, <3>4 DEF LoadHttp, Become, Idle
    <3>5. ASSUME task[w].pc # "idle" PROVE Goal
      <4>1. Fetch(w) \/ FetchPage(w) \/ \E m \in Messages : Mark(w, m)
        BY <1>3, <3>3, <3>5, PcAfter, PcBefore DEF Acts, At, Idle
      <4>2. ASSUME FetchPage(w) PROVE FALSE
        <5>1. task[w].op = "Page"
          BY <4>2 DEF FetchPage, At, TypeInv, Tasks, Reaches
        <5>2. task'[w].op \in {"Page", "none"}
          BY <1>3, <3>5, <5>1, Starts
        <5> QED
          BY <3>1, <5>2
      <4> QED
        BY <2>2, <2>3, <4>1, <4>2
    <3> QED
      BY <2>1, <3>2, <3>3, <3>4, <3>5, PcAfter
  <2> QED
    BY <1>3, <2>4, <2>5, <2>6, Carries
<1> QED
  BY <1>2, <1>3, OneActs

\* A socket catches up by the reply to a request for the messages of a room.
LEMMA Catches ==
  ASSUME TypeInv, [Next]_vars, NEW s \in Sockets
  PROVE  \/ caught'[s] = caught[s] /\ ~\E r \in Rooms : Leave(s, r) /\ r \in caught[s]
         \/ \E r \in Rooms : Leave(s, r) /\ caught'[s] = caught[s] \ {r}
         \/ \E w \in Workers :
              /\ Reply(w) /\ task[w].op = "Load" /\ task[w].more /\ task[w].socket = s
              /\ task[w].room \in joined[s] /\ caught'[s] = caught[s] \cup {task[w].room}
              /\ joined'[s] = joined[s] /\ task[w].got \subseteq seen'[s]
<1> DEFINE Goal ==
       \/ caught'[s] = caught[s] /\ ~\E r \in Rooms : Leave(s, r) /\ r \in caught[s]
       \/ \E r \in Rooms : Leave(s, r) /\ caught'[s] = caught[s] \ {r}
       \/ \E w \in Workers :
            /\ Reply(w) /\ task[w].op = "Load" /\ task[w].more /\ task[w].socket = s
            /\ task[w].room \in joined[s] /\ caught'[s] = caught[s] \cup {task[w].room}
            /\ joined'[s] = joined[s] /\ task[w].got \subseteq seen'[s]
<1>0. ASSUME caught'[s] = caught[s] PROVE Goal
  BY <1>0 DEF Leave, TypeInv
<1>1. ASSUME NEW w \in Workers, Reply(w) PROVE Goal
  <2>1. CASE task[w].op = "LoadHttp"
    BY <1>0, <1>1, <2>1 DEF Reply, sockets
  <2>2. CASE task[w].op # "LoadHttp"
    <3>1. /\ Receive(IF task[w].op \in {"Load", "Page"} THEN {task[w].socket} ELSE {}, task[w].got)
          /\ joined' = [joined EXCEPT ![task[w].socket] =
               IF task[w].op \in {"Load", "Page"} THEN @ ELSE @ \cup {task[w].room}]
          /\ caught' = [caught EXCEPT ![task[w].socket] =
               IF task[w].op = "Load" /\ task[w].more /\ task[w].room \in joined[task[w].socket]
               THEN @ \cup {task[w].room} ELSE @]
      BY <1>1, <2>2 DEF Reply
    <3>2. CASE /\ task[w].op = "Load" /\ task[w].more /\ task[w].socket = s
               /\ task[w].room \in joined[s]
      BY <1>1, <3>1, <3>2 DEF Receive, TypeInv
    <3>3. CASE ~(/\ task[w].op = "Load" /\ task[w].more /\ task[w].socket = s
                 /\ task[w].room \in joined[s])
      BY <1>0, <3>1, <3>3 DEF TypeInv
    <3> QED
      BY <3>2, <3>3
  <2> QED
    BY <2>1, <2>2
<1>2. ASSUME NEW q \in Sockets, NEW r \in Rooms, Leave(q, r) PROVE Goal
  <2>1. caught' = [caught EXCEPT ![q] = @ \ {r}]
    BY <1>2 DEF Leave
  <2>2. CASE q = s
    BY <1>2, <2>1, <2>2 DEF TypeInv
  <2>3. CASE q # s
    BY <1>0, <2>1, <2>3 DEF TypeInv
  <2> QED
    BY <2>2, <2>3
<1>3. ASSUME NEW w \in Workers, \/ \E q \in Sockets, u \in Users : Connect(w, q, u)
                                \/ Authenticated(w) \/ JoinAll(w) \/ Emit(w) \/ FetchPage(w)
                                \/ JoinBoth(w)
      PROVE  caught' = caught
  BY <1>3 DEF Connect, Authenticated, JoinAll, Emit, FetchPage, JoinBoth
<1>4. ASSUME NEW q \in Sockets, Disconnect(q) PROVE caught' = caught
  BY <1>4 DEF Disconnect
<1>5. ASSUME UNCHANGED sockets PROVE caught' = caught
  BY <1>5 DEF sockets
<1> HIDE DEF Goal
<1>6. Goal
  BY <1>0, <1>1, <1>2, <1>3, <1>4, <1>5, SocketActions
<1> QED
  BY <1>6 DEF Goal

LEMMA CaughtStays == TypeInv /\ OpsInv /\ ClientInv /\ CaughtInv /\ [Next]_vars => CaughtInv'
<1> SUFFICES ASSUME TypeInv, OpsInv, ClientInv, CaughtInv, [Next]_vars, SentOnSockets
             PROVE  CaughtInv'
  BY TasksTyped DEF CaughtInv, SentOnSockets, Asked, Serial
<1>0. \A w \in Workers : task[w].op = "Load" =>
        task[w].socket \in Sockets /\ socket[task[w].socket].user # Nobody /\ task[w].room \in Rooms
  BY UsersAssumption DEF ClientInv, ClientOps, At, TypeInv, Tasks, Reaches, Grounded, RoomOps, Exists
<1>1. ASSUME NEW s \in Sockets, Open(s)', NEW r \in caught'[s]
      PROVE  r \in joined'[s] /\ HasAll(s, r, {})'
  <2>0. r \in Rooms
    BY Typed DEF TypeInv, Exists
  <2>1. CASE r \in caught[s]
    <3>1. socket[s].user # Nobody
      BY <2>1 DEF CaughtInv
    <3>2. Open(s)
      BY <1>1, <3>1, OpenBefore
    <3>3. r \in joined[s] /\ HasAll(s, r, {})
      BY <2>1, <3>2 DEF CaughtInv
    <3>4. ~Leave(s, r)
      BY <1>1, <2>0, <2>1 DEF Leave, TypeInv
    <3>5. r \in joined'[s]
      BY <1>1, <3>3, <3>4, StaysJoined
    <3>6. PICK ms : ms = {}
      OBVIOUS
    <3>7. HasAll(s, r, ms)'
      BY <2>0, <3>2, <3>3, <3>6, HasAllStays
    <3> QED
      BY <3>5, <3>6, <3>7 DEF HasAll
  <2>2. CASE r \notin caught[s]
    <3>1. PICK w \in Workers :
            /\ Reply(w) /\ task[w].op = "Load" /\ task[w].more /\ task[w].socket = s
            /\ task[w].room = r /\ r \in joined[s]
            /\ joined'[s] = joined[s] /\ task[w].got \subseteq seen'[s]
      BY <1>1, <2>2, Catches
    <3>2. Open(s)
      BY <1>0, <1>1, <3>1, OpenBefore
    <3>3. PICK ms : ms = task[w].got
      OBVIOUS
    <3>4. HasAll(s, r, ms)
      BY <3>1, <3>2, <3>3 DEF CaughtInv, Loads, Reply
    <3>5. HasAll(s, r, ms)'
      BY <2>0, <3>1, <3>2, <3>4, HasAllStays
    <3> QED
      BY <3>1, <3>3, <3>5 DEF HasAll
  <2> QED
    BY <2>1, <2>2
<1>2. ASSUME NEW w \in Workers, At(w, "mark")', Loads(w)'
      PROVE  HasAll(task[w].socket, task[w].room, task[w].got)'
  <2>1. /\ Loads(w) /\ task'[w].socket = task[w].socket /\ task'[w].room = task[w].room
        /\ task[w].socket \in Sockets
        /\ \/ task'[w].pc = task[w].pc /\ task'[w].got = task[w].got
           \/ Fetch(w) /\ task'[w].got = Posted(task[w].room) /\ UNCHANGED <<message, seen>>
    BY <1>2, LoadStep DEF At
  <2>2. PICK s, r, ms : /\ s \in Sockets /\ s = task[w].socket
                        /\ r \in Rooms /\ r = task[w].room /\ ms = task'[w].got
    BY <1>0, <2>1 DEF Loads
  <2>3. CASE task'[w].pc = task[w].pc /\ task'[w].got = task[w].got
    <3>1. HasAll(s, r, ms) /\ Open(s) /\ At(w, "mark")
      BY <1>2, <2>1, <2>2, <2>3 DEF CaughtInv, At, Loads
    <3>2. ASSUME NEW v \in Workers, Emit(v) PROVE r \in joined[s]
      <4>1. ~At(w, "idle") /\ ~At(v, "idle") /\ v # w
        BY <3>1, <3>2 DEF Emit, At
      <4>2. ~Serial
        BY <4>1 DEF OpsInv
      <4>3. ~Asked({"Leave"})
        BY <4>2 DEF SentOnSockets
      <4> QED
        BY <2>1, <2>2, <4>3 DEF CaughtInv
    <3>3. HasAll(s, r, ms)'
      BY <2>2, <3>1, <3>2, HasAllStays
    <3> QED
      BY <2>1, <2>2, <3>3
  <2>4. CASE Fetch(w) /\ task'[w].got = Posted(task[w].room) /\ UNCHANGED <<message, seen>>
    <3>1. Posted(r)' = Posted(r) /\ ms = Posted(r)
      BY <2>2, <2>4 DEF Posted, Stored
    <3>2. HasAll(s, r, ms)'
      BY <3>1 DEF HasAll
    <3> QED
      BY <2>1, <2>2, <3>2
  <2> QED
    BY <2>1, <2>3, <2>4
<1>3. ASSUME NEW s \in Sockets, socket'[s].user = Nobody PROVE caught'[s] = {}
  <2>1. ASSUME NEW w \in Workers, Authenticated(w), task[w].socket = s PROVE FALSE
    BY <1>3, <2>1, UsersAssumption DEF Authenticated, At, TypeInv, SocketRows, Tasks, Reaches
  <2>2. socket[s].user = Nobody
    BY <1>3, <2>1, SocketUsers
  <2>3. caught[s] = {}
    BY <2>2 DEF CaughtInv
  <2> QED
    BY <1>0, <2>2, <2>3, Catches
<1>4. ASSUME ~Asked({"Leave"}), NEW w \in Workers, Loads(w)'
      PROVE  task'[w].room \in joined'[task'[w].socket]
  <2>1. CASE /\ Loads(w) /\ task'[w].socket = task[w].socket /\ task'[w].room = task[w].room
             /\ task[w].socket \in Sockets
    <3>1. PICK s \in Sockets : s = task[w].socket
      BY <2>1
    <3>2. task[w].room \in joined[s]
      BY <1>4, <2>1, <3>1 DEF CaughtInv
    <3>3. PICK r \in joined[s] : r = task[w].room
      BY <3>2
    <3>4. Open(s)'
      BY <1>4, <2>1, <3>1 DEF Loads, Open
    <3>5. ~Leave(s, r)
      BY <1>4 DEF Leave, Asked
    <3> QED
      BY <2>1, <3>1, <3>3, <3>4, <3>5, StaysJoined
  <2>2. CASE \E s \in Sockets : /\ task'[w].socket = s /\ task'[w].room \in joined[s]
                                /\ UNCHANGED sockets
    BY <2>2 DEF sockets
  <2> QED
    BY <1>4, <2>1, <2>2, LoadStep
<1> QED
  BY <1>1, <1>2, <1>3, <1>4, TasksTyped DEF CaughtInv, Asked

LEMMA CaughtImplies == CaughtInv => NothingMissed
BY DEF CaughtInv, NothingMissed, SentOnSockets, HasAll, Sending, AtRest, At

\* A client that has joined a room and then asked for its messages knows all of
\* them once the handlers have ended, whoever was sending meanwhile
\* (handleGetMessages, handleSendMessage).
THEOREM CaughtUpMissNothing == Spec => []NothingMissed
BY CaughtInitial, CaughtStays, CaughtImplies, TypeInvariant, OpsInvariant, ClientInvariant, PTL
   DEF Spec

-----------------------------------------------------------------------------
(* Pages.                                                                  *)

\* Ids and times of messages grow together.
TimesInv ==
  /\ \A m \in Stored : message[m].at <= clock
  /\ \A m \in Stored, k \in Messages : k < m => k \in Stored /\ message[k].at <= message[m].at

LEMMA TimesInitial == Init => TimesInv
BY DEF Init, TimesInv, Stored, NoMsg

LEMMA TimesStay == TypeInv /\ TimesInv /\ [Next]_vars => TimesInv'
<1> SUFFICES ASSUME TypeInv, TimesInv, [Next]_vars PROVE TimesInv'
  OBVIOUS
<1>0. /\ \A m \in Messages : m \in Nat /\ message[m].at \in Nat /\ (m \in Stored \/ m \notin Stored)
      /\ clock \in Nat /\ Stored \subseteq Messages
  BY IdsAssumption, PageAssumption DEF TypeInv, MessageRows, Stored
<1>1. \A m \in Stored : m \in Stored' /\ message'[m].at = message[m].at
  BY MessagesGrow
<1>2. ASSUME Stored' = Stored, clock' = clock \/ clock' = clock + 1 PROVE TimesInv'
  <2>1. ASSUME NEW m \in Stored PROVE message'[m].at <= clock'
    BY <1>0, <1>1, <1>2, <2>1 DEF TimesInv
  <2>2. ASSUME NEW m \in Stored, NEW k \in Messages, k < m
        PROVE  k \in Stored /\ message'[k].at <= message'[m].at
    BY <1>1, <2>2 DEF TimesInv
  <2> QED
    BY <1>2, <2>1, <2>2 DEF TimesInv
<1>3. ASSUME NEW n \in Messages, n \notin Stored, \A k \in Messages \ Stored : n <= k,
             Stored' = Stored \cup {n}, message'[n].at = clock, clock' = clock
      PROVE  TimesInv'
  <2>1. ASSUME NEW m \in Stored' PROVE message'[m].at <= clock'
    BY <1>0, <1>1, <1>3, <2>1 DEF TimesInv
  <2>2. ASSUME NEW m \in Stored', NEW k \in Messages, k < m
        PROVE  k \in Stored' /\ message'[k].at <= message'[m].at
    <3>1. CASE m \in Stored
      BY <1>1, <2>2, <3>1 DEF TimesInv
    <3>2. CASE m = n
      <4>1. k \in Stored
        BY <1>0, <1>3, <2>2, <3>2
      <4> QED
        BY <1>1, <1>3, <3>2, <4>1 DEF TimesInv
    <3> QED
      BY <1>3, <3>1, <3>2
  <2> QED
    BY <2>1, <2>2 DEF TimesInv
<1>4. ASSUME NEW n \in Messages, NEW r \in Rooms, NEW u, InsertMessage(n, r, u), clock' = clock
      PROVE  TimesInv'
  <2>1. r # NoRoom
    BY IdsAssumption DEF NoRoom
  <2>2. Stored' = Stored \cup {n} /\ message'[n].at = clock
    BY <1>4, <2>1 DEF InsertMessage, Stored, TypeInv
  <2> QED
    BY <1>3, <1>4, <2>2 DEF InsertMessage
<1>5. ASSUME NEW w \in Workers, NEW m \in Messages, Mark(w, m) PROVE Stored' = Stored /\ clock' = clock
  <2>1. message' = [message EXCEPT ![m].read = TRUE] /\ clock' = clock
    BY <1>5 DEF Mark
  <2> QED
    BY <2>1 DEF Stored, TypeInv, MessageRows
<1>6. ASSUME NEW w \in Workers, SaveMessage(w) PROVE TimesInv'
  <2>1. PICK n, r, u : n \in Messages /\ r \in Rooms /\ InsertMessage(n, r, u)
    BY <1>6 DEF SaveMessage, At, TypeInv, Tasks, Reaches, Grounded, RoomOps, Exists
  <2>2. clock' = clock
    BY <1>6 DEF SaveMessage
  <2> QED
    BY <1>4, <2>1, <2>2
<1>7. CASE message' = message
  <2>1. Stored' = Stored
    BY <1>7 DEF Stored
  <2> QED
    BY <1>2, <2>1, ClockActions DEF Tick
<1> QED
  BY <1>2, <1>4, <1>5, <1>6, <1>7, MessageActions DEF PostHttp

LEMMA TimesInvariant == Spec => []TimesInv
BY TimesInitial, TimesStay, TypeInvariant, PTL DEF Spec

Distinct(ms) == \A m, n \in ms : message[m].at = message[n].at => m = n

\* What a client has of the room whose pages it turns: the cursor is the oldest
\* message it has, and what it has not got of the room is older, except for
\* what was sent later.
PageOk(p) ==
  /\ p.got \subseteq p.base /\ p.base \subseteq Posted(p.room)
  /\ \A m \in Posted(p.room) \ p.base, n \in p.base : message[n].at <= message[m].at
  /\ p.state = "none" => p.got = {}
  /\ p.state # "more" => p.next = NoMessage
  /\ p.state = "more" => p.next \in p.got /\ \A n \in p.got : p.next <= n
  /\ Distinct(p.base) =>
       /\ p.state = "more" => \A m \in p.base \ p.got : message[m].at < message[p.next].at
       /\ p.state = "done" => p.base \subseteq p.got

\* A handler that turns this page has the next one, or is going to read it.
Turning(t, p) ==
  /\ p.state # "done" /\ (p.state = "more" => p.room = t.room)
  /\ t.pc = "mark" =>
       /\ p.room = t.room /\ t.got = Newest(Older(p.base, p.next), PageSize)
       /\ t.more = (Cardinality(Older(p.base, p.next)) > PageSize)

PageInv ==
  /\ \A s \in Sockets : PageOk(socket[s].page)
  /\ \A w \in Workers : task[w].op = "Page" => Turning(task[w], socket[task[w].socket].page)
  /\ \A v, w \in Workers :
       task[v].op = "Page" /\ task[w].op = "Page" /\ task[v].socket = task[w].socket => v = w

LEMMA PageInitial == Init => PageInv
BY DEF Init, PageInv, PageOk, NoPage, Idle, NoMessage, Distinct

LEMMA PageNumbers ==
  ASSUME TypeInv
  PROVE  \A m \in Messages : m \in Nat /\ m # NoMessage /\ message[m].at \in Nat
BY IdsAssumption, PageAssumption DEF TypeInv, MessageRows, NoMessage

\* Messages that others send leave a page as it is.
LEMMA PageOkStays ==
  ASSUME TypeInv, TimesInv, [Next]_vars, NEW p \in Pages, PageOk(p)
  PROVE  PageOk(p)' /\ Older(p.base, p.next)' = Older(p.base, p.next)
<1>0. /\ p.base \subseteq Stored /\ p.got \subseteq p.base /\ Stored \subseteq Messages
      /\ \A m \in p.base : message[m].room = p.room
      /\ p.state = "more" => p.next \in Stored
  BY DEF PageOk, Posted, Stored
<1>1. \A m \in Stored : /\ m \in Stored' /\ message'[m].at = message[m].at
                        /\ message'[m].room = message[m].room
  BY MessagesGrow
<1>2. \A m \in p.base : m \in Posted(p.room)'
  BY <1>0, <1>1 DEF Posted
<1>3. Distinct(p.base)' <=> Distinct(p.base)
  BY <1>0, <1>1 DEF Distinct
<1>4. ASSUME NEW m \in Posted(p.room)', m \notin p.base, NEW n \in p.base
      PROVE  message'[n].at <= message'[m].at
  <2>1. CASE m \in Stored
    BY <1>0, <1>1, <1>4, <2>1 DEF PageOk, Posted
  <2>2. CASE m \notin Stored
    <3>1. m \in Stored' /\ m \in Messages /\ n \in Messages /\ n \in Stored /\ n \in Stored'
      BY <1>0, <1>1, <1>4, MessagesGrow DEF Posted, Stored
    <3>2. TimesInv' /\ \A k \in Messages : k \in Nat
      BY TimesStay, PageNumbers
    <3>3. ~(m < n)
      BY <2>2, <3>1 DEF TimesInv
    <3>4. n < m
      BY <2>2, <3>1, <3>2, <3>3
    <3> QED
      BY <3>1, <3>2, <3>4 DEF TimesInv
  <2> QED
    BY <2>1, <2>2
<1>5. Older(p.base, p.next)' = Older(p.base, p.next)
  <2>1. p.next = NoMessage \/ p.next \in Stored
    BY <1>0 DEF PageOk
  <2> QED
    BY <1>0, <1>1, <2>1 DEF Older
<1>6. Distinct(p.base)' =>
        /\ p.state = "more" => \A m \in p.base \ p.got : message'[m].at < message'[p.next].at
        /\ p.state = "done" => p.base \subseteq p.got
  BY <1>0, <1>1, <1>3 DEF PageOk
<1>7. /\ p.got \subseteq p.base
      /\ p.state = "none" => p.got = {}
      /\ p.state # "more" => p.next = NoMessage
      /\ p.state = "more" => p.next \in p.got /\ \A n \in p.got : p.next <= n
  BY DEF PageOk
<1> QED
  BY <1>2, <1>4, <1>5, <1>6, <1>7 DEF PageOk

\* The messages of a room behind the cursor of a page, and those of them that
\* were there when the client asked for the first.
Behind(p, r) == Older(Posted(r), p.next)

Left(p) == Older(p.base, p.next)

\* The first page is read together with the room as it is, every other one
\* behind the cursor, where nothing is sent any more.
LEMMA FetchedOk ==
  ASSUME TypeInv, NEW p \in Pages, NEW r \in Rooms, PageOk(p), p.state # "done",
         p.state = "more" => p.room = r,
         NEW q, q = IF p.state = "none" THEN [p EXCEPT !.room = r, !.base = Posted(r)] ELSE p
  PROVE  /\ PageOk(q) /\ q.room = r /\ q.state = p.state
         /\ Behind(p, r) = Left(q)
<1>1. CASE p.state = "none"
  <2>1. /\ q.room = r /\ q.base = Posted(r) /\ q.got = {} /\ q.next = NoMessage /\ q.state = "none"
    BY <1>1 DEF PageOk, Pages
  <2> QED
    BY <1>1, <2>1 DEF PageOk, Behind, Left
<1>2. CASE p.state # "none"
  <2>1. q = p /\ p.state = "more" /\ p.room = r
    BY <1>2 DEF Pages
  <2>2. p.next \in p.base /\ p.next # NoMessage /\ p.base \subseteq Posted(r)
    BY <2>1, PageNumbers DEF PageOk, Posted, Stored
  <2>3. ASSUME NEW m \in Posted(r), message[m].at < message[p.next].at PROVE m \in p.base
    <3>1. message[m].at \in Nat /\ message[p.next].at \in Nat
      BY <2>2, PageNumbers DEF Posted, Stored
    <3> QED
      BY <2>1, <2>2, <2>3, <3>1 DEF PageOk
  <2> QED
    BY <2>1, <2>2, <2>3 DEF Older, Behind, Left
<1> QED
  BY <1>1, <1>2

\* A page that is handed over is older than all there was, and leaves only
\* older ones.
LEMMA TurnedOk ==
  ASSUME TypeInv, TimesInv, NEW p \in Pages, NEW t \in Tasks, PageOk(p), Turning(t, p),
         t.op = "Page", t.pc = "mark", NEW q, q = Turned(p, t)
  PROVE  /\ PageOk(q)
         /\ p.state = "more" => \A m \in q.got \ p.got : \A n \in p.got : m < n
<1> DEFINE rest == Older(p.base, p.next)
<1>0. /\ t.got = Newest(rest, PageSize) /\ (t.more <=> Cardinality(rest) > PageSize)
      /\ (t.more => t.got # {}) /\ t.got \subseteq Messages
  BY DEF Turning, Tasks, Records, Reaches
<1>1. /\ p.base \subseteq Stored /\ p.base \subseteq Messages /\ p.base \subseteq Nat
      /\ rest \subseteq p.base /\ IsFiniteSet(rest) /\ rest \subseteq Nat
      /\ \A m \in p.base : message[m].at \in Nat
  <2>1. p.base \subseteq Stored /\ p.base \subseteq Messages /\ rest \subseteq p.base
    BY DEF PageOk, Posted, Stored, Older
  <2> QED
    BY <2>1, PageNumbers, FS_Subset DEF TypeInv
<1>2. /\ t.got \subseteq rest
      /\ Cardinality(rest) <= PageSize => t.got = rest
      /\ \A m \in rest \ t.got, k \in t.got : m < k
  BY <1>0, <1>1, NewestOf, PageAssumption
<1>3. /\ q.got = p.got \cup t.got /\ q.room = p.room /\ q.base = p.base
      /\ q.state = (IF t.more THEN "more" ELSE "done")
      /\ q.next = (IF t.more THEN Min(t.got) ELSE NoMessage)
  BY DEF Turned, Pages
<1>4. ASSUME p.state = "more", NEW m \in t.got, NEW n \in p.got PROVE m < n
  <2>1. p.next \in p.got /\ p.next <= n /\ p.next \in p.base /\ n \in p.base /\ m \in p.base
    BY <1>1, <1>2, <1>4 DEF PageOk
  <2>2. p.next # NoMessage
    BY <1>1, <2>1, PageNumbers
  <2>3. message[m].at < message[p.next].at
    BY <1>2, <2>2 DEF Older
  <2>4. ~(p.next < m)
    BY <1>1, <2>1, <2>3 DEF TimesInv
  <2>5. m # p.next
    BY <1>1, <2>1, <2>3
  <2>6. m \in Nat /\ n \in Nat /\ p.next \in Nat
    BY <1>1, <2>1
  <2> QED
    BY <2>1, <2>4, <2>5, <2>6
<1>5. ASSUME t.more
      PROVE  Min(t.got) \in t.got /\ \A n \in t.got : Min(t.got) <= n
  BY <1>0, <1>1, <1>2, <1>5, MinOfNaturals
<1>6. ASSUME Distinct(p.base), NEW m \in p.base \ p.got PROVE m \in rest
  <2>1. CASE p.state = "none"
    BY <2>1 DEF PageOk, Older
  <2>2. CASE p.state = "more"
    BY <1>6, <2>2 DEF PageOk, Older
  <2> QED
    BY <2>1, <2>2 DEF Turning, Pages
<1>7. ASSUME Distinct(p.base), t.more, NEW m \in p.base \ q.got
      PROVE  message[m].at < message[q.next].at
  <2>1. m \in rest /\ m \notin t.got /\ q.next = Min(t.got) /\ q.next \in t.got
    BY <1>3, <1>5, <1>6, <1>7
  <2>2. m < q.next /\ q.next \in p.base
    BY <1>1, <1>2, <2>1
  <2>3. message[m].at <= message[q.next].at
    BY <1>1, <2>2 DEF TimesInv
  <2>4. message[m].at # message[q.next].at
    BY <1>1, <1>7, <2>2 DEF Distinct
  <2>5. message[m].at \in Nat /\ message[q.next].at \in Nat
    BY <1>1, <2>2
  <2> QED
    BY <2>3, <2>4, <2>5
<1>8. ASSUME t.more
      PROVE  q.next \in q.got /\ \A n \in q.got : q.next <= n
  <2>1. q.next = Min(t.got) /\ q.next \in t.got
    BY <1>3, <1>5, <1>8
  <2>2. ASSUME NEW n \in p.got PROVE q.next <= n
    <3>1. p.state = "more"
      BY <2>2 DEF PageOk, Turning, Pages
    <3>2. q.next < n /\ q.next \in Nat /\ n \in Nat
      BY <1>1, <1>2, <1>4, <2>1, <3>1 DEF PageOk
    <3> QED
      BY <3>2
  <2> QED
    BY <1>3, <1>5, <1>8, <2>1, <2>2
<1>9. ASSUME Distinct(p.base), ~t.more PROVE p.base \subseteq q.got
  <2>1. Cardinality(rest) <= PageSize
    BY <1>0, <1>1, <1>9, FS_CardinalityType, PageAssumption
  <2> QED
    BY <1>2, <1>3, <1>6, <1>9, <2>1
<1>10. q.got \subseteq q.base
  BY <1>1, <1>2, <1>3 DEF PageOk
<1>11. PageOk(q)
  <2>1. /\ q.base \subseteq Posted(q.room)
        /\ \A m \in Posted(q.room) \ q.base, n \in q.base : message[n].at <= message[m].at
    BY <1>3 DEF PageOk
  <2>2. q.state # "none" /\ (q.state # "more" => q.next = NoMessage) /\ (q.state = "more" <=> t.more)
    BY <1>3
  <2>3. Distinct(q.base) =>
          /\ q.state = "more" => \A m \in q.base \ q.got : message[m].at < message[q.next].at
          /\ q.state = "done" => q.base \subseteq q.got
    BY <1>3, <1>7, <1>9, <2>2
  <2> QED
    BY <1>8, <1>10, <2>1, <2>2, <2>3 DEF PageOk
<1> QED
  BY <1>3, <1>4, <1>11

\* Pages are turned by their handlers.
LEMMA PageSteps ==
  ASSUME TypeInv, [Next]_vars, NEW s \in Sockets
  PROVE  \/ socket'[s].page = socket[s].page
         \/ \E w \in Workers :
              /\ task[w].op = "Page" /\ task[w].socket = s
              /\ \/ /\ FetchPage(w)
                    /\ socket'[s].page =
                         IF socket[s].page.state = "none"
                         THEN [socket[s].page EXCEPT !.room = task[w].room, !.base = Posted(task[w].room)]
                         ELSE socket[s].page
                 \/ Reply(w) /\ socket'[s].page = Turned(socket[s].page, task[w])
<1> DEFINE Goal ==
       \/ socket'[s].page = socket[s].page
       \/ \E w \in Workers :
            /\ task[w].op = "Page" /\ task[w].socket = s
            /\ \/ /\ FetchPage(w)
                  /\ socket'[s].page =
                       IF socket[s].page.state = "none"
                       THEN [socket[s].page EXCEPT !.room = task[w].room, !.base = Posted(task[w].room)]
                       ELSE socket[s].page
               \/ Reply(w) /\ socket'[s].page = Turned(socket[s].page, task[w])
<1> USE DEF TypeInv, SocketRows
<1>1. ASSUME NEW w \in Workers, FetchPage(w) PROVE Goal
  <2> DEFINE p == socket[task[w].socket].page
             q == IF p.state = "none" THEN [p EXCEPT !.room = task[w].room, !.base = Posted(task[w].room)]
                  ELSE p
  <2>1. socket' = [socket EXCEPT ![task[w].socket].page = q]
    BY <1>1 DEF FetchPage
  <2>2. task[w].op = "Page"
    BY <1>1 DEF FetchPage, At, Tasks, Reaches
  <2>3. CASE task[w].socket = s
    <3>1. socket'[s].page = q
      BY <2>1, <2>3
    <3> QED
      BY <1>1, <2>2, <2>3, <3>1
  <2>4. CASE task[w].socket # s
    BY <2>1, <2>4
  <2> QED
    BY <2>3, <2>4
<1>2. ASSUME NEW w \in Workers, Reply(w) PROVE Goal
  <2>1. CASE task[w].op = "LoadHttp"
    BY <1>2, <2>1 DEF Reply, sockets
  <2>2. CASE task[w].op # "LoadHttp"
    <3>1. socket' = [socket EXCEPT ![task[w].socket].page =
                       IF task[w].op = "Page" THEN Turned(@, task[w]) ELSE @]
      BY <1>2, <2>2 DEF Reply
    <3>2. CASE task[w].socket = s /\ task[w].op = "Page"
      BY <1>2, <3>1, <3>2
    <3>3. CASE ~(task[w].socket = s /\ task[w].op = "Page")
      BY <3>1, <3>3
    <3> QED
      BY <3>2, <3>3
  <2> QED
    BY <2>1, <2>2
<1>3. ASSUME NEW w \in Workers, NEW q \in Sockets, NEW u \in Users, Connect(w, q, u)
      PROVE  socket'[s].page = socket[s].page
  BY <1>3 DEF Connect
<1>4. ASSUME NEW w \in Workers, Authenticated(w) PROVE socket'[s].page = socket[s].page
  BY <1>4 DEF Authenticated
<1>5. ASSUME NEW w \in Workers, JoinAll(w) \/ Emit(w) \/ JoinBoth(w)
      PROVE  socket'[s].page = socket[s].page
  BY <1>5 DEF JoinAll, Emit, JoinBoth
<1>6. ASSUME NEW q \in Sockets, Disconnect(q) \/ \E r \in Rooms : Leave(q, r)
      PROVE  socket'[s].page = socket[s].page
  BY <1>6 DEF Disconnect, Leave
<1>7. ASSUME UNCHANGED sockets PROVE socket'[s].page = socket[s].page
  BY <1>7 DEF sockets
<1> HIDE DEF Goal
<1>8. ASSUME socket'[s].page = socket[s].page PROVE Goal
  BY <1>8 DEF Goal
<1>9. Goal
  BY <1>1, <1>2, <1>3, <1>4, <1>5, <1>6, <1>7, <1>8, SocketActions
<1> QED
  BY <1>9 DEF Goal

LEMMA PagePcs == ASSUME NEW t \in Tasks, t.op = "Page" PROVE t.pc \in {"page", "mark"}
BY DEF Tasks, Records, Reaches, Pcs, Idle

\* What a handler that turns a page has been through.
LEMMA PageStep ==
  ASSUME TypeInv, [Next]_vars, NEW w \in Workers, task'[w].op = "Page"
  PROVE  \/ /\ task[w].op = "Page" /\ task'[w].socket = task[w].socket
            /\ task'[w].room = task[w].room
            /\ \/ /\ ~FetchPage(w) \/ task'[w] = task[w]
                  /\ ~Reply(w) \/ task'[w] = task[w]
                  /\ task'[w].pc = task[w].pc /\ task'[w].got = task[w].got
                  /\ task'[w].more = task[w].more
               \/ LET p == socket[task[w].socket].page
                      rest == Older(Posted(task[w].room), p.next)
                  IN  /\ FetchPage(w) /\ task'[w].pc = "mark"
                      /\ task'[w].got = Newest(rest, PageSize)
                      /\ task'[w].more = (Cardinality(rest) > PageSize)
         \/ \E s \in Sockets, r \in Rooms :
              /\ Page(w, s, r) /\ task'[w].socket = s /\ task'[w].room = r /\ task'[w].pc = "page"
<1> DEFINE Goal ==
         \/ /\ task[w].op = "Page" /\ task'[w].socket = task[w].socket
            /\ task'[w].room = task[w].room
            /\ \/ /\ ~FetchPage(w) \/ task'[w] = task[w]
                  /\ ~Reply(w) \/ task'[w] = task[w]
                  /\ task'[w].pc = task[w].pc /\ task'[w].got = task[w].got
                  /\ task'[w].more = task[w].more
               \/ LET p == socket[task[w].socket].page
                      rest == Older(Posted(task[w].room), p.next)
                  IN  /\ FetchPage(w) /\ task'[w].pc = "mark"
                      /\ task'[w].got = Newest(rest, PageSize)
                      /\ task'[w].more = (Cardinality(rest) > PageSize)
         \/ \E s \in Sockets, r \in Rooms :
              /\ Page(w, s, r) /\ task'[w].socket = s /\ task'[w].room = r /\ task'[w].pc = "page"
<1>0. task \in [Workers -> Tasks] /\ task[w] \in Records
  BY DEF TypeInv, Tasks
<1>1. CASE task'[w] = task[w]
  BY <1>1
<1>2. CASE Acts(w)
  <2>0. task'[w].pc \in {"page", "mark"}
    BY TasksTyped, PagePcs
  <2>1. \/ \E s \in Sockets, r \in Rooms : Page(w, s, r)
        \/ Fetch(w) \/ FetchPage(w) \/ (\E m \in Messages : Mark(w, m))
        \/ \E r \in Rooms : LoadHttp(w, r)
    BY <1>2, <2>0, PcAfter DEF Acts, Idle
  <2>2. ASSUME NEW r \in Rooms, LoadHttp(w, r) PROVE FALSE
    BY <1>0, <2>2 DEF LoadHttp, Become, Idle
  <2>3. ASSUME Fetch(w) PROVE FALSE
    <3>1. task[w].op \in {"Load", "Join"} /\ task[w].pc # "idle"
      BY <2>3 DEF Fetch, At, TypeInv, Tasks, Reaches
    <3> QED
      BY <1>2, <3>1, Starts
  <2>4. ASSUME NEW s \in Sockets, NEW r \in Rooms, Page(w, s, r) PROVE Goal
    <3>1. task'[w].socket = s /\ task'[w].room = r /\ task'[w].pc = "page"
      BY <1>0, <2>4 DEF Page, Ask, Become, Idle
    <3> QED
      BY <2>4, <3>1
  <2>5. ASSUME NEW m \in Messages, Mark(w, m) PROVE Goal
    <3>1. /\ task'[w].op = task[w].op /\ task'[w].socket = task[w].socket
          /\ task'[w].room = task[w].room /\ task'[w].pc = task[w].pc /\ task'[w].got = task[w].got
          /\ task'[w].more = task[w].more
      BY <1>0, <2>5 DEF Mark, Become, Records, At
    <3>2. ~FetchPage(w)
      BY <2>5 DEF Mark, FetchPage, At
    <3>3. ~Reply(w)
      BY <2>5 DEF Mark, Reply
    <3> QED
      BY <3>1, <3>2, <3>3
  <2>6. ASSUME FetchPage(w) PROVE Goal
    <3> DEFINE rest == Older(Posted(task[w].room), socket[task[w].socket].page.next)
               got == Newest(rest, PageSize)
               more == Cardinality(rest) > PageSize
    <3>1. \E unread : Become(w, [task[w] EXCEPT !.got = got, !.unread = unread, !.pc = "mark",
                                                !.more = more])
      BY <2>6 DEF FetchPage
    <3>2. task[w].op = "Page"
      BY <2>6 DEF FetchPage, At, TypeInv, Tasks, Reaches
    <3>3. more \in BOOLEAN
      OBVIOUS
    <3> HIDE DEF got, more
    <3>4. /\ task'[w].socket = task[w].socket /\ task'[w].room = task[w].room
          /\ task'[w].pc = "mark" /\ task'[w].got = got /\ task'[w].more = more
      BY <1>0, <3>1, <3>3 DEF Become, Records
    <3> QED
      BY <2>6, <3>2, <3>4 DEF got, more
  <2> HIDE DEF Goal
  <2>7. Goal
    BY ONLY <2>1, <2>2, <2>3, <2>4, <2>5, <2>6
  <2> QED
    BY <2>7 DEF Goal
<1> QED
  BY <1>1, <1>2, OneActs

\* One handler at most turns the pages of a socket.
LEMMA OneTurns ==
  ASSUME TypeInv, PageInv, [Next]_vars, NEW v \in Workers, NEW w \in Workers,
         task'[v].op = "Page", task'[w].op = "Page", task'[v].socket = task'[w].socket
  PROVE  v = w
<1> SUFFICES ASSUME v # w PROVE FALSE
  OBVIOUS
<1>1. ASSUME NEW x \in Workers, NEW y \in Workers, x # y, task'[x].op = "Page",
             task'[y].op = "Page", task'[x].socket = task'[y].socket, task'[x] = task[x]
      PROVE  FALSE
  <2>1. ASSUME task[y].op = "Page", task'[y].socket = task[y].socket PROVE FALSE
    BY <1>1, <2>1 DEF PageInv
  <2>2. ASSUME NEW s \in Sockets, NEW r \in Rooms, Page(y, s, r), task'[y].socket = s PROVE FALSE
    BY <1>1, <2>2 DEF Page
  <2> QED
    BY <1>1, <2>1, <2>2, PageStep
<1> QED
  BY <1>1, OneActs

\* A handler goes on with its page while others send.
LEMMA TurningStays ==
  ASSUME TypeInv, TimesInv, [Next]_vars, NEW p \in Pages, PageOk(p), NEW t, Turning(t, p)
  PROVE  Turning(t, p)'
BY PageOkStays DEF Turning

LEMMA PagesStayOk ==
  ASSUME TypeInv, TimesInv, PageInv, [Next]_vars, NEW s \in Sockets
  PROVE  PageOk(socket[s].page)'
<1>0. /\ socket[s].page \in Pages /\ socket'[s].page \in Pages /\ PageOk(socket[s].page)
  BY Typed DEF TypeInv, SocketRows, PageInv
<1>1. PICK p \in Pages, q \in Pages : p = socket[s].page /\ q = socket'[s].page /\ PageOk(p)
  BY <1>0
<1>2. ASSUME PageOk(q) PROVE PageOk(socket[s].page)'
  <2>1. PageOk(q)'
    BY <1>2, PageOkStays
  <2> QED
    BY <1>1, <2>1 DEF PageOk, Distinct
<1>3. CASE q = p
  BY <1>1, <1>2, <1>3
<1>4. ASSUME NEW w \in Workers, task[w].op = "Page", task[w].socket = s, FetchPage(w),
             q = IF p.state = "none" THEN [p EXCEPT !.room = task[w].room, !.base = Posted(task[w].room)]
                 ELSE p
      PROVE  PageOk(q)
  <2>1. PICK r \in Rooms : r = task[w].room
    BY <1>4 DEF TypeInv, Grounded, RoomOps, Exists
  <2>2. p.state # "done" /\ (p.state = "more" => p.room = r)
    BY <1>1, <1>4, <2>1 DEF PageInv, Turning
  <2>3. q = IF p.state = "none" THEN [p EXCEPT !.room = r, !.base = Posted(r)] ELSE p
    BY <1>4, <2>1
  <2> QED
    BY ONLY TypeInv, <1>1, <2>1, <2>2, <2>3, FetchedOk
<1>5. ASSUME NEW w \in Workers, task[w].op = "Page", task[w].socket = s, Reply(w),
             q = Turned(p, task[w])
      PROVE  PageOk(q)
  <2>1. PICK t \in Tasks : t = task[w]
    BY DEF TypeInv
  <2>2. Turning(t, p) /\ t.op = "Page" /\ t.pc = "mark" /\ q = Turned(p, t)
    BY <1>1, <1>5, <2>1 DEF PageInv, Reply, At
  <2> QED
    BY <1>1, <2>1, <2>2, TurnedOk
<1>6. \/ q = p
      \/ \E w \in Workers :
           /\ task[w].op = "Page" /\ task[w].socket = s
           /\ \/ /\ FetchPage(w)
                 /\ q = IF p.state = "none"
                        THEN [p EXCEPT !.room = task[w].room, !.base = Posted(task[w].room)] ELSE p
              \/ Reply(w) /\ q = Turned(p, task[w])
  BY <1>1, PageSteps
<1> QED
  BY <1>2, <1>3, <1>4, <1>5, <1>6

\* What reading a page leaves the client's page with.
LEMMA FetchedPage ==
  ASSUME TypeInv, NEW w \in Workers, FetchPage(w), task[w].socket \in Sockets
  PROVE  LET p == socket[task[w].socket].page
         IN  socket'[task[w].socket].page =
               IF p.state = "none"
               THEN [p EXCEPT !.room = task[w].room, !.base = Posted(task[w].room)] ELSE p
<1> DEFINE p == socket[task[w].socket].page
           q == IF p.state = "none" THEN [p EXCEPT !.room = task[w].room, !.base = Posted(task[w].room)]
                ELSE p
<1>1. socket' = [socket EXCEPT ![task[w].socket].page = q]
  BY DEF FetchPage
<1> HIDE DEF q
<1>2. socket'[task[w].socket].page = q
  BY <1>1 DEF TypeInv, SocketRows
<1> QED
  BY <1>2 DEF q

LEMMA TurningsStay ==
  ASSUME TypeInv, TimesInv, PageInv, [Next]_vars, NEW w \in Workers, task'[w].op = "Page"
  PROVE  Turning(task[w], socket[task[w].socket].page)'
<1>0. PICK u \in Tasks, s \in Sockets, p \in Pages, q \in Pages :
        /\ u = task'[w] /\ s = u.socket /\ p = socket[s].page /\ q = socket'[s].page
  <2>1. task'[w] \in Tasks /\ task'[w].socket \in Sockets
    BY TasksTyped DEF Tasks, Reaches
  <2> QED
    BY <2>1, Typed DEF TypeInv, SocketRows
<1>1. PageOk(p) /\ PageOk(q)'
  BY <1>0, PagesStayOk, SMTT(30) DEF PageInv, PageOk, Distinct
<1>2. p \in Pages /\ PageOk(p)
  BY <1>1
<1>3. SUFFICES Turning(u, q)'
  BY <1>0 DEF Turning
<1>4. CASE q = p
  <2>1. SUFFICES Turning(u, p)
    BY <1>1, <1>4, <2>1, TurningStays
  <2>2. CASE /\ task[w].op = "Page" /\ u.socket = task[w].socket /\ u.room = task[w].room
             /\ u.pc = task[w].pc /\ u.got = task[w].got /\ u.more = task[w].more
    BY <1>0, <2>2 DEF PageInv, Turning
  <2>3. CASE /\ FetchPage(w) /\ u.pc = "mark" /\ task[w].op = "Page"
             /\ u.socket = task[w].socket /\ u.room = task[w].room
             /\ u.got = Newest(Older(Posted(u.room), p.next), PageSize)
             /\ u.more = (Cardinality(Older(Posted(u.room), p.next)) > PageSize)
    <3>1. p.state # "done" /\ (p.state = "more" => p.room = u.room)
      BY <1>0, <2>3 DEF PageInv, Turning
    <3>2. PICK r \in Rooms : r = u.room
      BY <2>3 DEF TypeInv, Grounded, RoomOps, Exists
    <3>3. q = IF p.state = "none" THEN [p EXCEPT !.room = r, !.base = Posted(r)] ELSE p
      <4>1. task[w].socket = s /\ task[w].room = r /\ FetchPage(w)
        BY <1>0, <2>3, <3>2
      <4>2. socket[s].page = p /\ socket'[s].page = q
        BY <1>0
      <4> QED
        BY ONLY TypeInv, <4>1, <4>2, FetchedPage
    <3>4. p.state # "done" /\ (p.state = "more" => p.room = r)
      BY <3>1, <3>2
    <3>5. /\ q.room = r /\ Behind(p, r) = Left(q)
      <4>1. q.room = r
        BY <1>2, <3>4, <3>3 DEF Pages
      <4>2. Behind(p, r) = Left(q)
        BY <1>2, <3>4, <3>3, FetchedOk
      <4> QED
        BY <4>1, <4>2
    <3> QED
      BY <1>4, <2>3, <3>1, <3>2, <3>5 DEF Turning, Behind, Left
  <2>4. ASSUME NEW r \in Rooms, Page(w, s, r), u.room = r, u.pc = "page" PROVE Turning(u, p)
    BY <1>0, <2>4 DEF Page, Turning
  <2> QED
    BY <1>0, <2>2, <2>3, <2>4, PageStep
<1>5. CASE q # p
  <2>1. PICK v \in Workers : task[v].op = "Page" /\ task[v].socket = s /\ (FetchPage(v) \/ Reply(v))
    BY <1>0, <1>5, PageSteps
  <2>2. ASSUME NEW r \in Rooms, Page(w, s, r) PROVE FALSE
    BY <2>1, <2>2 DEF Page
  <2>3. task[w].op = "Page" /\ task'[w].socket = task[w].socket /\ v = w
    BY <1>0, <2>1, <2>2, PageStep DEF PageInv
  <2>4. task'[w] # task[w]
    BY <2>1, <2>3, PcAfter, PcBefore DEF At, Idle
  <2>5. /\ FetchPage(w) /\ u.pc = "mark" /\ u.room = task[w].room
        /\ u.got = Newest(Older(Posted(u.room), p.next), PageSize)
        /\ u.more = (Cardinality(Older(Posted(u.room), p.next)) > PageSize)
    BY <1>0, <2>1, <2>2, <2>3, <2>4, PageStep
  <2>6. p.state # "done" /\ (p.state = "more" => p.room = u.room)
    BY <1>0, <2>3, <2>5 DEF PageInv, Turning
  <2>7. PICK r \in Rooms : r = u.room
    BY <2>3, <2>5 DEF TypeInv, Grounded, RoomOps, Exists
  <2>8. q = IF p.state = "none" THEN [p EXCEPT !.room = r, !.base = Posted(r)] ELSE p
    <3>1. task[w].socket = s /\ task[w].room = r /\ FetchPage(w)
      BY <1>0, <2>3, <2>5, <2>7
    <3>2. socket[s].page = p /\ socket'[s].page = q
      BY <1>0
    <3> QED
      BY ONLY TypeInv, <3>1, <3>2, FetchedPage
  <2>9. p.state # "done" /\ (p.state = "more" => p.room = r)
    BY <2>6, <2>7
  <2>10. /\ PageOk(q) /\ q.room = r /\ q.state = p.state
        /\ Behind(p, r) = Left(q)
    <3>1. q.room = r /\ q.state = p.state
      BY <1>2, <2>9, <2>8 DEF Pages
    <3>2. Behind(p, r) = Left(q) /\ PageOk(q)
      BY <1>2, <2>9, <2>8, FetchedOk, ZenonT(60)
    <3> QED
      BY <3>1, <3>2
  <2>11. Turning(u, q)
    BY <2>5, <2>6, <2>7, <2>10 DEF Turning, Behind, Left
  <2> QED
    BY <2>10, <2>11, TurningStays
<1> QED
  BY <1>4, <1>5

LEMMA PagesStay == TypeInv /\ TimesInv /\ PageInv /\ [Next]_vars => PageInv'
<1> SUFFICES ASSUME TypeInv, TimesInv, PageInv, [Next]_vars PROVE PageInv'
  OBVIOUS
<1>1. \A s \in Sockets : PageOk(socket[s].page)'
  <2> SUFFICES ASSUME NEW s \in Sockets PROVE PageOk(socket[s].page)'
    OBVIOUS
  <2> QED
    BY Typed, TimesStay, PagesStayOk
<1>2. \A w \in Workers : task'[w].op = "Page" => Turning(task[w], socket[task[w].socket].page)'
  BY TurningsStay
<1>3. \A v, w \in Workers :
        task'[v].op = "Page" /\ task'[w].op = "Page" /\ task'[v].socket = task'[w].socket => v = w
  BY OneTurns
<1> QED
  BY <1>1, <1>2, <1>3 DEF PageInv

LEMMA PageInvariant == Spec => []PageInv
BY PageInitial, PagesStay, TypeInvariant, TimesInvariant, PTL DEF Spec

LEMMA PageImplies == PageInv => PagesComplete
BY DEF PageInv, PageOk, PagesComplete, Distinct

\* A client that has turned all pages has got every message there was when it
\* asked for the first, if no two are of the same millisecond
\* (getRoomMessagesPaginated: created_at < :cursorDate).
THEOREM AllPagesAll == Spec => []PagesComplete
BY PageInvariant, PageImplies, PTL

LEMMA PageProgress ==
  ASSUME TypeInv, TimesInv, PageInv, [Next]_vars, NEW s \in Sockets,
         socket[s].page.state = "more", NEW m \in socket'[s].page.got \ socket[s].page.got,
         NEW n \in socket[s].page.got
  PROVE  m < n
<1>1. PICK p \in Pages : p = socket[s].page /\ PageOk(p)
  BY DEF TypeInv, SocketRows, PageInv
<1>2. PICK w \in Workers : /\ task[w].op = "Page" /\ task[w].socket = s /\ Reply(w)
                           /\ socket'[s].page = Turned(p, task[w])
  BY <1>1, PageSteps
<1>3. PICK t, q : t \in Tasks /\ t = task[w] /\ q = Turned(p, t)
  BY DEF TypeInv
<1>4. Turning(t, p) /\ t.op = "Page" /\ t.pc = "mark"
  BY <1>1, <1>2, <1>3 DEF PageInv, Reply, At
<1> QED
  BY <1>1, <1>2, <1>3, <1>4, TurnedOk

\* A client gets no message on two pages, also when others are sent meanwhile.
THEOREM PagesOnlyOnce == Spec => PagesProgress
<1>1. TypeInv /\ TimesInv /\ PageInv /\ [Next]_vars =>
        [\A s \in Sockets :
           /\ socket[s].page.state = "more" /\ socket'[s].page.state # "none"
           => \A m \in socket'[s].page.got \ socket[s].page.got :
                \A n \in socket[s].page.got : m < n]_vars
  BY PageProgress
<1> QED
  BY <1>1, TypeInvariant, TimesInvariant, PageInvariant, PTL DEF Spec, PagesProgress

=============================================================================
