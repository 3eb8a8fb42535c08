-------------------------------- MODULE Chat --------------------------------
(***************************************************************************)
(* The chat: the socket gateway and the HTTP routes over the same rooms    *)
(* and messages.                                                           *)
(***************************************************************************)
EXTENDS ChatGateway

Init ==
  /\ workload \in Workloads
  /\ room = [r \in Rooms |-> Unused]
  /\ message = [m \in Messages |-> NoMsg]
  /\ clock = 0
  /\ socket = [s \in Sockets |-> [state |-> "new", user |-> Nobody, page |-> NoPage]]
  /\ clients = {}
  /\ joined = [s \in Sockets |-> {}]
  /\ task = [w \in Workers |-> Idle]
  /\ seen = [s \in Sockets |-> {}]
  /\ caught = [s \in Sockets |-> {}]

Next == HttpNext \/ GatewayNext

Spec == Init /\ [][Next]_vars

-----------------------------------------------------------------------------

PageOK(p) ==
  /\ p.state \in {"none", "more", "done"} /\ p.room \in Rooms \cup {NoRoom}
  /\ p.next \in Messages \cup {NoMessage} /\ p.got \cup p.base \subseteq Messages

TypeOK ==
  /\ workload \in Workloads /\ clock \in 0..MaxTime
  /\ room \in [Rooms -> [kind : {"unused", "group", "pair", "guest"},
                         supplier : Suppliers \cup {Nobody}, members : SUBSET Users,
                         by : Users \cup {Nobody}]]
  /\ message \in [Messages -> [room : Rooms \cup {NoRoom}, sender : Users \cup {Nobody},
                               at : 0..MaxTime, read : BOOLEAN]]
  /\ \A s \in Sockets :
       /\ socket[s].state \in {"new", "open", "gone"}
       /\ socket[s].user \in Users \cup {Nobody} /\ PageOK(socket[s].page)
  /\ clients \subseteq Sockets
  /\ joined \in [Sockets -> SUBSET Exists] /\ caught \in [Sockets -> SUBSET Exists]
  /\ seen \in [Sockets -> SUBSET Stored]

Asked(ops) == workload.ops \cap ops # {}

AtRest == \A w \in Workers : At(w, "idle")

Serial == workload.width = 1

\* Once every handler has ended, each socket of a user hears the private rooms
\* others have opened with that user, also when the room was opened while the
\* socket was connecting (handleConnection, handleCreatePrivateRoom).
TargetsJoined ==
  AtRest /\ ~Asked({"Leave", "Fail", "PrivateHttp", "CreateRoom"}) =>
    \A s \in Sockets, r \in Exists :
      /\ Open(s) /\ socket[s].user \in room[r].members
      /\ room[r].kind # "group" /\ room[r].by # socket[s].user
      => r \in joined[s]

\* A client that has joined a room and then asked for its messages knows all of
\* them once the handlers have ended, whoever was sending meanwhile: a message
\* is in the reply or is broadcast later (handleGetMessages, handleSendMessage).
\* Not so if the client leaves the room and joins it again before the reply.
NothingMissed ==
  AtRest /\ ~Asked({"PostHttp", "BotHttp"}) /\ (Serial \/ ~Asked({"Leave"})) =>
    \A s \in Sockets : Open(s) => \A r \in caught[s] : Posted(r) \subseteq seen[s]

\* A client that has turned all pages has got every message there was when it
\* asked for the first, if no two are of the same millisecond
\* (getRoomMessagesPaginated: created_at < :cursorDate).
PagesComplete ==
  \A s \in Sockets :
    LET p == socket[s].page
    IN  /\ p.state = "done"
        /\ \A m, n \in p.base : message[m].at = message[n].at => m = n
        => p.base \subseteq p.got

\* A client gets no message on two pages, also when others are sent meanwhile.
PagesProgress ==
  [][\A s \in Sockets :
       /\ socket[s].page.state = "more" /\ socket'[s].page.state # "none"
       => \A m \in socket'[s].page.got \ socket[s].page.got :
            \A n \in socket[s].page.got : m < n]_vars

\* Connections that do not overlap open one group for each supplier, and two
\* users who open private rooms with each other, in either direction, one after
\* the other, have one (createSupplierGroupRoom, getOrCreatePrivateRoom).
NoDuplicateRooms ==
  Serial /\ ~Asked({"PrivateHttp", "CreateRoom"}) =>
    /\ \A s \in Suppliers : Cardinality(GroupsOf(s)) <= 1
    /\ \A q, r \in Exists :
         /\ room[q].kind # "group" /\ room[r].kind # "group"
         /\ room[q].members = room[r].members
         => q = r

\* A message that is marked as read has been given to somebody who did not
\* write it, as long as nobody joins rooms by hand or reads over HTTP
\* (getRoomMessages marks what it returns).
ReadIsDelivered ==
  AtRest /\ ~Asked({"Join", "LoadHttp", "Fail"}) =>
    \A m \in Stored : message[m].read =>
      \E s \in Sockets : m \in seen[s] /\ socket[s].user # message[m].sender
=============================================================================
