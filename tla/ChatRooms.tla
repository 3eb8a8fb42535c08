----------------------------- MODULE ChatRooms ------------------------------
(***************************************************************************)
(* ChatService: rooms and messages in PostgreSQL, and the HTTP routes of   *)
(* chat.controller.ts that use them.  Operations of the socket gateway are *)
(* in ChatGateway.                                                         *)
(***************************************************************************)
EXTENDS Naturals, FiniteSets, FiniteSetsExt

CONSTANTS
  Employees, Visitors, Suppliers,
  SupplierOf,   \* [Employees -> Suppliers]
  First,        \* the employee with the lowest id
  Nobody,
  Rooms,        \* ids in creation order: 1..n
  Messages,     \* ids in creation order: 1..n
  Sockets,
  Workers,      \* handlers that run at once
  PageSize,     \* limit of a page
  MaxTime,      \* bound: milliseconds that pass
  Workloads     \* what may be asked, see Init of Chat

Users == Employees \cup Visitors

AllOps == {"Connect", "Disconnect", "CreateRoom", "GroupHttp", "PrivateHttp",
           "PostHttp", "BotHttp", "LoadHttp", "Private", "Send", "Load",
           "Join", "Page", "Leave", "Fail"}

ASSUME UsersAssumption ==
  /\ Employees \cap Visitors = {} /\ Nobody \notin Users \cup Suppliers
  /\ SupplierOf \in [Employees -> Suppliers] /\ First \in Employees
ASSUME WorkersAssumption == IsFiniteSet(Workers)
ASSUME IdsAssumption == Rooms \subseteq Nat \ {0} /\ Messages \subseteq Nat \ {0}
ASSUME PageAssumption == PageSize \in Nat \ {0} /\ MaxTime \in Nat
ASSUME WorkloadAssumption ==
  Workloads \subseteq
    [ops : SUBSET AllOps, users : SUBSET Users, sockets : Nat, messages : Nat,
     width : 1..Cardinality(Workers)]

VARIABLES
  room,      \* chat_rooms and its members
  message,   \* chat_messages
  clock,     \* milliseconds
  socket,    \* the sockets of the clients and their pages
  clients,   \* connectedClients of the gateway
  joined,    \* the rooms of each socket in the socket.io adapter
  task,      \* handlers under way
  workload,  \* never changes
  seen,      \* history: messages each socket has received
  caught     \* history: rooms each socket has joined and then asked for

database == <<room, message, clock>>

sockets == <<socket, clients, joined, seen, caught>>

vars == <<room, message, clock, socket, clients, joined, task, workload, seen, caught>>

NoRoom == 0

NoMessage == 0

Unused == [kind |-> "unused", supplier |-> Nobody, members |-> {}, by |-> Nobody]

NoMsg == [room |-> NoRoom, sender |-> Nobody, at |-> 0, read |-> FALSE]

NoPage == [room |-> NoRoom, state |-> "none", next |-> NoMessage, got |-> {}, base |-> {}]

Idle == [op |-> "none", pc |-> "idle", socket |-> Nobody, user |-> Nobody, target |-> Nobody,
         room |-> NoRoom, got |-> {}, unread |-> {}, rooms |-> {}, more |-> FALSE]

At(w, pc) == task[w].pc = pc

Become(w, t) == task' = [task EXCEPT ![w] = t] /\ UNCHANGED workload

Goto(w, pc) == Become(w, [task[w] EXCEPT !.pc = pc])

Finish(w) == Become(w, Idle)

Accepts(w, op) ==
  /\ At(w, "idle")
  /\ Cardinality({u \in Workers : ~At(u, "idle")}) < workload.width
  /\ op \in workload.ops

-----------------------------------------------------------------------------
(* Rows.                                                                   *)

Exists == {r \in Rooms : room[r].kind # "unused"}

Stored == {m \in Messages : message[m].room # NoRoom}

Posted(r) == {m \in Stored : message[m].room = r}

IsFree(r) == r \notin Exists /\ \A q \in Rooms \ Exists : r <= q

\* Bound: a room or message beyond the last id is not created.
Insert(r, kind, supplier, members, by) ==
  /\ IsFree(r)
  /\ room' = [room EXCEPT ![r] =
       [kind |-> kind, supplier |-> supplier, members |-> members, by |-> by]]

InsertMessage(m, r, sender) ==
  /\ m \notin Stored /\ Cardinality(Stored) < workload.messages
  /\ \A k \in Messages \ Stored : m <= k
  /\ message' = [message EXCEPT ![m] =
       [room |-> r, sender |-> sender, at |-> clock, read |-> FALSE]]

\* The access checks of addMessage and the reading operations: groups are for
\* the employees of their supplier, other rooms for their members.
MayUse(u, r) ==
  /\ r \in Exists
  /\ IF room[r].kind = "group" /\ u \in Employees
     THEN SupplierOf[u] = room[r].supplier ELSE u \in room[r].members

GroupsOf(s) == {r \in Exists : room[r].kind = "group" /\ room[r].supplier = s}

PrivateKind(u, v) == IF {u, v} \subseteq Employees THEN "pair" ELSE "guest"

\* Mutant of PrivateRooms: only rooms the first user has opened.
PrivateRooms_Own(u, v) ==
  {r \in Exists : room[r].by = u /\ {u, v} \subseteq room[r].members}

\* findPrivateRoomBetweenUsers.  Two employees must be the only employees, two
\* visitors the only visitors; in the query for one of each the joins keep just
\* the two asked for, so that counting the members excludes nothing.
PrivateRooms(u, v) ==
  {r \in Exists :
     /\ room[r].kind = PrivateKind(u, v)
     /\ {u, v} \subseteq room[r].members
     /\ {u, v} \subseteq Employees => room[r].members \cap Employees = {u, v}
     /\ {u, v} \subseteq Visitors => room[r].members \cap Visitors = {u, v}}

\* getUserRooms, the direct rooms.
DirectRooms(u) == {r \in Exists : u \in room[r].members}

\* Mutant of Unread: one's own messages count.
Unread_Own(ms, u) == {m \in ms : ~message[m].read}

Unread(ms, u) == {m \in ms : ~message[m].read /\ message[m].sender # u}

\* Mutant of Older: the page before ends with the cursor.
Older_Including(ms, c) == {m \in ms : c = NoMessage \/ message[m].at <= message[c].at}

\* created_at < :cursorDate
Older(ms, c) == {m \in ms : c = NoMessage \/ message[m].at < message[c].at}

\* The newest n of a set of messages; ids grow with the time of creation.
Newest(ms, n) == {m \in ms : Cardinality({k \in ms : k > m}) < n}

Tick ==
  /\ "Page" \in workload.ops /\ clock < MaxTime
  /\ clock' = clock + 1
  /\ UNCHANGED <<room, message, task, workload, sockets>>

-----------------------------------------------------------------------------
(* HTTP.  req.user has no id: a lookup by it finds the first employee, a   *)
(* comparison with it nothing.                                             *)

\* createRoom, with the members the request names.
CreateRoom(w, r, kind, members) ==
  /\ Accepts(w, "CreateRoom") /\ members \subseteq workload.users
  /\ Insert(r, kind, Nobody, members, Nobody)
  /\ UNCHANGED <<message, clock, task, workload, sockets>>

\* createSupplierGroupRoom: looks for the group ...
GroupHttp(w, s) ==
  /\ Accepts(w, "GroupHttp")
  /\ GroupsOf(s) = {}
  /\ Become(w, [Idle EXCEPT !.op = "GroupHttp", !.pc = "groupSave", !.target = s])
  /\ UNCHANGED <<database, sockets>>

\* ... and saves it; a connection goes on with its rooms.
GroupSave(w) ==
  /\ At(w, "groupSave")
  /\ LET t == task[w]
     IN  /\ \E r \in Rooms :
              Insert(r, "group", t.target, {e \in Employees : SupplierOf[e] = t.target}, t.user)
         /\ IF t.op = "Connect" THEN Goto(w, "direct") ELSE Finish(w)
  /\ UNCHANGED <<message, clock, sockets>>

\* getOrCreatePrivateRoom for a caller without id: nothing is found.
PrivateHttp(w, v) ==
  /\ Accepts(w, "PrivateHttp") /\ v # First
  /\ Become(w, [Idle EXCEPT !.op = "PrivateHttp", !.pc = "privateSave",
                            !.user = First, !.target = v])
  /\ UNCHANGED <<database, sockets>>

\* addMessage with the sender the request names; the bot has none.  Nothing is
\* sent to the sockets.
PostHttp(w, m, r, u) ==
  /\ \/ Accepts(w, "PostHttp") /\ MayUse(u, r)
     \/ Accepts(w, "BotHttp") /\ r \in Exists /\ u = Nobody
  /\ InsertMessage(m, r, u)
  /\ UNCHANGED <<room, clock, task, workload, sockets>>

\* getRoomMessages: only a group passes the check, for the first employee.
LoadHttp(w, r) ==
  /\ Accepts(w, "LoadHttp")
  /\ r \in GroupsOf(SupplierOf[First])
  /\ LET new == {m \in Posted(r) : ~message[m].read}
     IN  new # {} /\ Become(w, [Idle EXCEPT !.op = "LoadHttp", !.pc = "mark",
                                            !.room = r, !.unread = new])
  /\ UNCHANGED <<database, sockets>>

HttpNext ==
  \/ Tick
  \/ \E w \in Workers :
       \/ \E r \in Rooms, members \in SUBSET Users, kind \in {"pair", "guest"} :
            CreateRoom(w, r, kind, members)
       \/ \E s \in Suppliers : GroupHttp(w, s)
       \/ GroupSave(w)
       \/ \E v \in Users : PrivateHttp(w, v)
       \/ \E m \in Messages, r \in Rooms, u \in Users \cup {Nobody} : PostHttp(w, m, r, u)
       \/ \E r \in Rooms : LoadHttp(w, r)
=============================================================================
