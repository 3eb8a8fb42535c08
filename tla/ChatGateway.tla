---------------------------- MODULE ChatGateway -----------------------------
(***************************************************************************)
(* SimpleChatGateway: handlers of the socket events.  A handler gives up   *)
(* the thread at every await, so that others and disconnections come       *)
(* between its steps.                                                      *)
(***************************************************************************)
EXTENDS ChatRooms

Open(s) == socket[s].state = "open"

\* client.userId is set: the client is authenticated.
Known(s) == Open(s) /\ socket[s].user # Nobody

Ask(w, op, s, t) ==
  /\ Accepts(w, op)
  /\ Known(s)
  /\ Become(w, [t EXCEPT !.op = op, !.socket = s, !.user = socket[s].user])
  /\ UNCHANGED <<database, sockets>>

\* handleConnection: the token is verified and the user loaded.
Connect(w, s, u) ==
  /\ Accepts(w, "Connect")
  /\ socket[s].state = "new" /\ u \in workload.users
  /\ Cardinality({q \in Sockets : socket[q].state # "new"}) < workload.sockets
  /\ socket' = [socket EXCEPT ![s].state = "open"]
  /\ Become(w, [Idle EXCEPT !.op = "Connect", !.pc = "auth", !.socket = s, !.user = u])
  /\ UNCHANGED <<database, clients, joined, seen, caught>>

\* The client is registered, whether it is still there or not.
Authenticated(w) ==
  /\ At(w, "auth")
  /\ LET t == task[w]
     IN  /\ socket' = [socket EXCEPT ![t.socket].user = t.user]
         /\ clients' = clients \cup {t.socket}
         /\ Goto(w, IF t.user \in Employees THEN "group" ELSE "direct")
  /\ UNCHANGED <<database, joined, seen, caught>>

\* createSupplierGroupRoom for the employee's supplier.
FindGroup(w) ==
  /\ At(w, "group")
  /\ LET s == SupplierOf[task[w].user]
     IN  Become(w, [task[w] EXCEPT !.target = s,
                      !.pc = IF GroupsOf(s) = {} THEN "groupSave" ELSE "direct"])
  /\ UNCHANGED <<database, sockets>>

\* getUserRooms: the direct rooms, then a group of the supplier.
FindDirect(w) ==
  /\ At(w, "direct")
  /\ Become(w, [task[w] EXCEPT !.rooms = DirectRooms(task[w].user), !.pc = "joinAll"])
  /\ UNCHANGED <<database, sockets>>

JoinAll(w) ==
  /\ At(w, "joinAll")
  /\ LET t == task[w]
         groups == IF t.user \in Employees THEN GroupsOf(SupplierOf[t.user]) ELSE {}
     IN  \E found \in SUBSET groups :
           /\ Cardinality(found) = Min({1, Cardinality(groups)})
           /\ joined' = [joined EXCEPT ![t.socket] = @ \cup t.rooms \cup found]
  /\ Finish(w)
  /\ UNCHANGED <<database, socket, clients, seen, caught>>

\* handleDisconnect
Disconnect(s) ==
  /\ "Disconnect" \in workload.ops /\ Open(s)
  /\ socket' = [socket EXCEPT ![s].state = "gone"]
  /\ clients' = clients \ {s}
  /\ joined' = [joined EXCEPT ![s] = {}]
  /\ UNCHANGED <<database, task, workload, seen, caught>>

-----------------------------------------------------------------------------
(* Messages.                                                               *)

\* handleSendMessage: the checks, the insert, the broadcast to who has joined.
Send(w, s, r) ==
  /\ Ask(w, "Send", s, [Idle EXCEPT !.pc = "save", !.room = r])
  /\ MayUse(socket[s].user, r)
  /\ Cardinality(Stored) + Cardinality({u \in Workers : At(u, "save")}) < workload.messages

\* Mutant of SaveMessage: the message is broadcast although its insert failed.
SaveMessage_Unsaved(w) ==
  /\ At(w, "save")
  /\ \E m \in Messages \ Stored : Become(w, [task[w] EXCEPT !.pc = "emit", !.got = {m}])
  /\ UNCHANGED <<database, sockets>>

SaveMessage(w) ==
  /\ At(w, "save")
  /\ LET t == task[w]
     IN  \E m \in Messages :
           /\ InsertMessage(m, t.room, t.user)
           /\ Become(w, [t EXCEPT !.pc = "emit", !.got = {m}])
  /\ UNCHANGED <<room, clock, sockets>>

Receivers(r) == {s \in Sockets : Open(s) /\ r \in joined[s]}

Receive(ss, ms) == seen' = [s \in Sockets |-> IF s \in ss THEN seen[s] \cup ms ELSE seen[s]]

Emit(w) ==
  /\ At(w, "emit")
  /\ Receive(Receivers(task[w].room), task[w].got)
  /\ Finish(w)
  /\ UNCHANGED <<database, socket, clients, joined, caught>>

\* handleGetMessages and handleJoinRoom call getRoomMessages; for a join it is
\* the check of the access.
Load(w, s, r) ==
  /\ \/ Ask(w, "Load", s, [Idle EXCEPT !.pc = "fetch", !.room = r, !.more = r \in joined[s]])
     \/ Ask(w, "Join", s, [Idle EXCEPT !.pc = "fetch", !.room = r])
  /\ MayUse(socket[s].user, r)

\* Mutant of Fetch: the newest page only.
Fetch_Newest(w) ==
  /\ At(w, "fetch")
  /\ LET got == Newest(Posted(task[w].room), PageSize)
     IN  Become(w, [task[w] EXCEPT !.got = got, !.unread = Unread(got, task[w].user), !.pc = "mark"])
  /\ UNCHANGED <<database, sockets>>

\* The messages are read, and those of others marked as read, one by one.
Fetch(w) ==
  /\ At(w, "fetch")
  /\ LET t == task[w]
     IN  Become(w, [t EXCEPT !.got = Posted(t.room),
                             !.unread = Unread(Posted(t.room), t.user), !.pc = "mark"])
  /\ UNCHANGED <<database, sockets>>

Mark(w, m) ==
  /\ At(w, "mark")
  /\ m \in task[w].unread
  /\ message' = [message EXCEPT ![m].read = TRUE]
  /\ Become(w, [task[w] EXCEPT !.unread = @ \ {m}])
  /\ UNCHANGED <<room, clock, sockets>>

\* What a page leaves the client with: the cursor, if there is more.
Turned(p, t) ==
  [p EXCEPT !.got = @ \cup t.got, !.state = IF t.more THEN "more" ELSE "done",
            !.next = IF t.more THEN Min(t.got) ELSE NoMessage]

\* The reply.  A socket that had joined before it loaded is up to date.
Reply(w) ==
  /\ At(w, "mark") /\ task[w].unread = {}
  /\ LET t == task[w]
         s == t.socket
         reads == t.op \in {"Load", "Page"}
     IN  IF t.op = "LoadHttp" THEN UNCHANGED sockets
         ELSE /\ Receive(IF reads THEN {s} ELSE {}, t.got)
              /\ joined' = [joined EXCEPT ![s] = IF reads THEN @ ELSE @ \cup {t.room}]
              /\ caught' = [caught EXCEPT ![s] =
                   IF t.op = "Load" /\ t.more /\ t.room \in joined[s] THEN @ \cup {t.room} ELSE @]
              /\ socket' = [socket EXCEPT ![s].page = IF t.op = "Page" THEN Turned(@, t) ELSE @]
              /\ UNCHANGED clients
  /\ Finish(w)
  /\ UNCHANGED database

\* handleGetRoomMessages: the client asks for the newest page, then, once it has
\* the reply, for the page before its oldest message while there is more.
Page(w, s, r) ==
  /\ \A u \in Workers : ~(task[u].op = "Page" /\ task[u].socket = s)
  /\ socket[s].page.state = "more" => socket[s].page.room = r
  /\ socket[s].page.state # "done"
  /\ Ask(w, "Page", s, [Idle EXCEPT !.pc = "page", !.room = r])
  /\ MayUse(socket[s].user, r)

\* Mutant of FetchPage: no message more than the page is read.
FetchPage_NoExtra(w) ==
  /\ At(w, "page")
  /\ LET t == task[w]
         p == socket[t.socket].page
         got == Newest(Older(Posted(t.room), p.next), PageSize)
     IN  /\ Become(w, [t EXCEPT !.got = got, !.unread = {}, !.pc = "mark",
                                !.more = Cardinality(got) > PageSize])
         /\ socket' = [socket EXCEPT ![t.socket].page =
              IF p.state = "none" THEN [p EXCEPT !.room = t.room, !.base = Posted(t.room)] ELSE p]
  /\ UNCHANGED <<database, clients, joined, seen, caught>>

FetchPage(w) ==
  /\ At(w, "page")
  /\ LET t == task[w]
         p == socket[t.socket].page
         rest == Older(Posted(t.room), p.next)
         got == Newest(rest, PageSize)
     IN  /\ Become(w, [t EXCEPT !.got = got, !.unread = Unread(got, t.user), !.pc = "mark",
                                !.more = Cardinality(rest) > PageSize])
         /\ socket' = [socket EXCEPT ![t.socket].page =
              IF p.state = "none" THEN [p EXCEPT !.room = t.room, !.base = Posted(t.room)] ELSE p]
  /\ UNCHANGED <<database, clients, joined, seen, caught>>

\* handleLeaveRoom
Leave(s, r) ==
  /\ "Leave" \in workload.ops
  /\ Open(s) /\ r \in joined[s]
  /\ joined' = [joined EXCEPT ![s] = @ \ {r}]
  /\ caught' = [caught EXCEPT ![s] = @ \ {r}]
  /\ UNCHANGED <<database, socket, clients, task, workload, seen>>

-----------------------------------------------------------------------------
(* handleCreatePrivateRoom                                                 *)

Private(w, s, v) ==
  /\ socket[s].user # v /\ v \in workload.users
  /\ Ask(w, "Private", s, [Idle EXCEPT !.pc = "find", !.target = v])

FindPrivate(w) ==
  /\ At(w, "find")
  /\ LET t == task[w]
         found == PrivateRooms(t.user, t.target)
     IN  \/ \E r \in found : Become(w, [t EXCEPT !.room = r, !.pc = "joinBoth"])
         \/ found = {} /\ Goto(w, "privateSave")
  /\ UNCHANGED <<database, sockets>>

SavePrivate(w) ==
  /\ At(w, "privateSave")
  /\ LET t == task[w]
     IN  \E r \in Rooms :
           /\ Insert(r, PrivateKind(t.user, t.target), Nobody, {t.user, t.target}, t.user)
           /\ IF t.op = "Private" THEN Become(w, [t EXCEPT !.room = r, !.pc = "joinBoth"])
              ELSE Finish(w)
  /\ UNCHANGED <<message, clock, sockets>>

\* Mutant of Both: the loop ends with the first socket found.
Both_First(t) ==
  LET others == {s \in clients : socket[s].user = t.target}
  IN  {t.socket} \cup (IF others = {} THEN {} ELSE {CHOOSE s \in others : TRUE})

\* The socket that asked and every socket of the other user.
Both(t) == {t.socket} \cup {s \in clients : socket[s].user = t.target}

JoinBoth(w) ==
  /\ At(w, "joinBoth")
  /\ joined' = [s \in Sockets |->
       IF s \in Both(task[w]) THEN joined[s] \cup {task[w].room} ELSE joined[s]]
  /\ Finish(w)
  /\ UNCHANGED <<database, socket, clients, seen, caught>>

\* A query fails: a connection goes on without its group, or its rooms.
Fail(w) ==
  /\ "Fail" \in workload.ops
  /\ task[w].pc \notin {"idle", "auth", "emit", "joinBoth"}
  /\ IF task[w].pc \in {"group", "groupSave"} /\ task[w].op = "Connect"
     THEN Goto(w, "direct") ELSE Finish(w)
  /\ UNCHANGED <<database, sockets>>

GatewayNext ==
  \/ \E w \in Workers, s \in Sockets :
       \/ \E u \in Users : Connect(w, s, u)
       \/ \E r \in Rooms : Send(w, s, r) \/ Load(w, s, r) \/ Page(w, s, r)
       \/ \E v \in Users : Private(w, s, v)
  \/ \E w \in Workers :
       \/ Authenticated(w)
       \/ FindGroup(w)
       \/ FindDirect(w)
       \/ JoinAll(w)
       \/ SaveMessage(w)
       \/ Emit(w)
       \/ Fetch(w)
       \/ \E m \in Messages : Mark(w, m)
       \/ Reply(w)
       \/ FetchPage(w)
       \/ FindPrivate(w)
       \/ SavePrivate(w)
       \/ JoinBoth(w)
       \/ Fail(w)
  \/ \E s \in Sockets : Disconnect(s)
  \/ \E s \in Sockets, r \in Rooms : Leave(s, r)
=============================================================================
