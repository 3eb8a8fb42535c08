------------------------- MODULE LogTransportProofs -------------------------
(***************************************************************************)
(* Theorems about LogTransport for every number of sockets, attempts,      *)
(* queue places and records.                                               *)
(***************************************************************************)
EXTENDS LogTransport, TLAPS

\* scheduleReconnection sets a timer, or gives Logstash up with an empty queue.
LEMMA ScheduleCases ==
  ASSUME NEW tried \in Nat, NEW pending \in Nat, ScheduleReconnection(tried, pending)
  PROVE  \/ /\ ~GivesUp(tried) /\ timers' = pending + 1 /\ timers' > 0
            /\ UNCHANGED <<enabled, queue, sinks>>
         \/ /\ GivesUp(tried) /\ timers' = pending
            /\ enabled' = FALSE /\ queue' = <<>>
            /\ sinks' = SentNow(sinks, Queued, FALSE, "none")
<1>1. CASE /\ ~GivesUp(tried) /\ timers' = pending + 1
           /\ UNCHANGED <<enabled, queue, sinks>>
  <2>1. timers' > 0
    BY <1>1
  <2> QED BY <1>1, <2>1, Zenon
<1>2. CASE /\ GivesUp(tried) /\ timers' = pending
           /\ enabled' = FALSE /\ ProcessLogQueue(sinks, FALSE, "none")
  BY <1>2, Zenon DEF ProcessLogQueue
<1> QED BY <1>1, <1>2, Zenon DEF ScheduleReconnection

(***************************************************************************)
(* Type correctness.                                                       *)
(***************************************************************************)

\* A record only reaches sinks.
LEMMA ReachedType == \A elk, state : Reached(elk, state) \subseteq Sinks
BY DEF Reached, Sinks

\* sendLogNow keeps the record of what was written well typed.
LEMMA SentNowType ==
  ASSUME NEW before \in [Logs -> SUBSET Sinks], NEW records, NEW elk, NEW state
  PROVE  SentNow(before, records, elk, state) \in [Logs -> SUBSET Sinks]
BY ReachedType DEF SentNow

\* A connecting socket keeps records.
LEMMA BufferedType ==
  ASSUME buffer \in [Sockets -> SUBSET Logs], NEW records \in SUBSET Logs, NEW elk, NEW state
  PROVE  Buffered(records, elk, state) \in [Sockets -> SUBSET Logs]
BY DEF Buffered

\* The queued records are records.
LEMMA QueuedType == queue \in Seq(Logs) => Queued \subseteq Logs
BY DEF Queued

\* scheduleReconnection keeps the types of what it writes.
LEMMA ScheduleType ==
  ASSUME TypeOK, NEW tried \in Nat, NEW pending \in Nat, ScheduleReconnection(tried, pending)
  PROVE  /\ enabled' \in BOOLEAN /\ timers' \in Nat
         /\ queue' \in Seq(Logs) /\ Len(queue') <= MaxQueue
         /\ sinks' \in [Logs -> SUBSET Sinks]
<1>1. Len(<<>>) <= MaxQueue /\ <<>> \in Seq(Logs)
  BY BoundsAssumption
<1>2. CASE timers' = pending + 1 /\ UNCHANGED <<enabled, queue, sinks>>
  BY <1>2 DEF TypeOK
<1>3. CASE /\ timers' = pending /\ enabled' = FALSE /\ queue' = <<>>
           /\ sinks' = SentNow(sinks, Queued, FALSE, "none")
  <2>1. sinks' \in [Logs -> SUBSET Sinks]
    BY <1>3, SentNowType DEF TypeOK
  <2> QED BY <1>1, <1>3, <2>1
<1> QED BY <1>2, <1>3, ScheduleCases

\* connectToLogstash keeps the types.
LEMMA ConnectType ==
  ASSUME TypeOK, NEW pending \in Nat, ConnectToLogstash(pending),
         starting' \in BOOLEAN, UNCHANGED <<setup, destroyed, sent>>
  PROVE  TypeOK'
<1>0. attempts + 1 \in Nat
  BY DEF TypeOK
<1>1. CASE timers' = pending /\ UNCHANGED <<enabled, link, queue, sinks>>
  BY <1>1 DEF TypeOK, link
<1>2. CASE /\ \E s \in Sockets : /\ sock' = [sock EXCEPT ![s] = "opening"]
                                 /\ client' = s
           /\ connecting' = TRUE /\ attempts' = attempts + 1 /\ timers' = pending
           /\ UNCHANGED <<enabled, buffer, queue, sinks>>
  BY <1>2 DEF TypeOK, SocketStates
<1>3. CASE /\ connecting' = FALSE /\ client' = NoSocket /\ attempts' = attempts + 1
           /\ ScheduleReconnection(attempts + 1, pending)
           /\ UNCHANGED <<sock, buffer>>
  <2>1. /\ enabled' \in BOOLEAN /\ timers' \in Nat
        /\ queue' \in Seq(Logs) /\ Len(queue') <= MaxQueue
        /\ sinks' \in [Logs -> SUBSET Sinks]
    BY <1>3, ScheduleType, <1>0
  <2>2. {enabled', connecting', starting', destroyed'} \subseteq BOOLEAN
    BY <1>3, <2>1 DEF TypeOK
  <2>3. attempts' \in Nat /\ client' \in Sockets \cup {NoSocket} /\ sent' \in 0..MaxLogs
    BY <1>3 DEF TypeOK
  <2>4. sock' \in [Sockets -> SocketStates] /\ buffer' \in [Sockets -> SUBSET Logs]
    BY <1>3 DEF TypeOK
  <2> QED BY <2>1, <2>2, <2>3, <2>4 DEF TypeOK
<1> QED BY <1>1, <1>2, <1>3 DEF ConnectToLogstash

\* Every callback keeps the types, and the queue within its limit.
LEMMA StepType == TypeOK /\ [Next]_vars => TypeOK'
<1> SUFFICES ASSUME TypeOK, [Next]_vars PROVE TypeOK'
  OBVIOUS
<1>0. <<>> \in Seq(Logs) /\ Len(<<>>) <= MaxQueue
  BY BoundsAssumption
<1>1. CASE Start
  BY <1>1, ConnectType DEF Start, TypeOK
<1>2. CASE TimerExpires
  <2>1. timers - 1 \in Nat
    BY <1>2 DEF TimerExpires, TypeOK
  <2> QED BY <1>2, <2>1, ConnectType DEF TimerExpires, TypeOK
<1>3. CASE SendLog
  <2> DEFINE l == sent + 1
  <2>1. l \in Logs /\ sent' = l /\ sent' \in 0..MaxLogs
    BY <1>3, BoundsAssumption DEF SendLog, MayQueue, Logs, TypeOK
  <2>2. \/ /\ Len(queue) < MaxQueue /\ queue' = Append(queue, l)
           /\ UNCHANGED <<sinks, buffer>>
        \/ /\ \E state : /\ sinks' = SentNow(sinks, {l}, enabled, state)
                         /\ buffer' = Buffered({l}, enabled, state)
           /\ UNCHANGED queue
    BY <1>3 DEF SendLog, MayQueue
  <2>3. queue' \in Seq(Logs) /\ Len(queue') <= MaxQueue
    <3>1. queue \in Seq(Logs) /\ Len(queue) \in Nat /\ Len(queue) <= MaxQueue /\ MaxQueue \in Nat
      BY BoundsAssumption DEF TypeOK
    <3>2. CASE Len(queue) < MaxQueue /\ queue' = Append(queue, l)
      <4>1. queue' \in Seq(Logs) /\ Len(queue') = Len(queue) + 1
        BY <2>1, <3>1, <3>2
      <4> QED BY <3>1, <3>2, <4>1
    <3>3. CASE UNCHANGED queue
      BY <3>1, <3>3
    <3> QED BY <2>2, <3>2, <3>3
  <2>4. sinks' \in [Logs -> SUBSET Sinks] /\ buffer' \in [Sockets -> SUBSET Logs]
    <3>1. {l} \in SUBSET Logs
      BY <2>1
    <3> HIDE DEF l
    <3> QED BY <2>2, <3>1, SentNowType, BufferedType DEF TypeOK
  <2> QED BY <1>3, <2>1, <2>3, <2>4 DEF SendLog, MayQueue, TypeOK
<1>4. CASE OnModuleDestroy
  <2>1. timers' \in Nat
    BY <1>4 DEF OnModuleDestroy, TypeOK
  <2>2. sock' \in [Sockets -> SocketStates] /\ buffer' \in [Sockets -> SUBSET Logs]
    BY <1>4 DEF OnModuleDestroy, TypeOK, SocketStates
  <2> QED BY <1>4, <2>1, <2>2 DEF OnModuleDestroy, TypeOK
<1>5. ASSUME NEW s \in Sockets, Opened(s) PROVE TypeOK'
  <2> DEFINE kept == [l \in Logs |-> IF l \in buffer[s] THEN sinks[l] \cup {"logstash"}
                                     ELSE sinks[l]]
             state == StateOf(client, sock')
  <2>1. kept \in [Logs -> SUBSET Sinks]
    BY DEF TypeOK, Sinks
  <2>2. sinks' = SentNow(kept, Queued, enabled, state)
    BY <1>5 DEF Opened, ProcessLogQueue
  <2>3. buffer' = [Buffered(Queued, enabled, state) EXCEPT ![s] = {}]
    BY <1>5 DEF Opened, ProcessLogQueue
  <2> HIDE DEF kept, state
  <2>4. sinks' \in [Logs -> SUBSET Sinks]
    BY <2>1, <2>2, SentNowType
  <2>5. Buffered(Queued, enabled, state) \in [Sockets -> SUBSET Logs]
    BY QueuedType, BufferedType DEF TypeOK
  <2>6. buffer' \in [Sockets -> SUBSET Logs]
    BY <2>3, <2>5
  <2>7. sock' \in [Sockets -> SocketStates]
    BY <1>5 DEF Opened, ProcessLogQueue, TypeOK, SocketStates
  <2> QED BY <1>0, <1>5, <2>4, <2>6, <2>7 DEF Opened, ProcessLogQueue, TypeOK
<1>6. ASSUME NEW s \in Sockets, Failed(s) PROVE TypeOK'
  <2>1. sock' \in [Sockets -> SocketStates] /\ buffer' \in [Sockets -> SUBSET Logs]
    BY <1>6 DEF Failed, TypeOK, SocketStates
  <2>2. ScheduleReconnection(attempts, timers) /\ timers \in Nat
    BY <1>6 DEF Failed, TypeOK
  <2>3. attempts \in Nat
    BY DEF TypeOK
  <2> QED BY <1>6, <2>1, <2>2, <2>3, ScheduleType DEF Failed, TypeOK
<1>7. ASSUME NEW s \in Sockets, Ended(s) PROVE TypeOK'
  BY <1>7 DEF Ended, TypeOK, SocketStates
<1>8. ASSUME NEW s \in Sockets, Closed(s) PROVE TypeOK'
  <2>1. sock' \in [Sockets -> SocketStates]
    BY <1>8 DEF Closed, TypeOK, SocketStates
  <2>2. ScheduleReconnection(attempts, timers) /\ timers \in Nat
    BY <1>8 DEF Closed, TypeOK
  <2>3. attempts \in Nat
    BY DEF TypeOK
  <2> QED BY <1>8, <2>1, <2>2, <2>3, ScheduleType DEF Closed, TypeOK
<1>9. CASE UNCHANGED vars
  BY <1>9 DEF vars, link, TypeOK
<1> QED BY <1>1, <1>2, <1>3, <1>4, <1>5, <1>6, <1>7, <1>8, <1>9 DEF Next, SocketEvent

\* The state of the transport stays well typed, and the queue never outgrows its limit.
THEOREM LogTypeCorrect == Spec => []TypeOK
<1>1. Init => TypeOK
  <2> SUFFICES ASSUME Init PROVE TypeOK
    OBVIOUS
  <2>1. queue \in Seq(Logs) /\ Len(queue) <= MaxQueue
    BY BoundsAssumption DEF Init
  <2>2. sinks \in [Logs -> SUBSET Sinks]
    BY DEF Init
  <2>3. sent \in 0..MaxLogs /\ attempts \in Nat /\ timers \in Nat
    BY BoundsAssumption DEF Init
  <2>4. sock \in [Sockets -> SocketStates] /\ buffer \in [Sockets -> SUBSET Logs]
    BY DEF Init, SocketStates
  <2> QED BY <2>1, <2>2, <2>3, <2>4, SetupAssumption DEF Init, TypeOK
<1> QED BY <1>1, StepType, PTL DEF Spec

(***************************************************************************)
(* The queue of a transport that has given Logstash up is empty.           *)
(***************************************************************************)

\* Nothing is queued once Logstash is given up, and giving it up empties the queue.
THEOREM GivenUpIsDrained == Spec => []DisabledIsDrained
<1>1. Init => DisabledIsDrained
  BY DEF Init, DisabledIsDrained
<1>2. ASSUME TypeOK, DisabledIsDrained, [Next]_vars PROVE DisabledIsDrained'
  <2>a. ASSUME NEW tried \in Nat, NEW pending \in Nat, ScheduleReconnection(tried, pending)
        PROVE  DisabledIsDrained'
    BY <1>2, <2>a, ScheduleCases DEF DisabledIsDrained
  <2>b. ASSUME NEW pending \in Nat, ConnectToLogstash(pending) PROVE DisabledIsDrained'
    <3>1. attempts + 1 \in Nat
      BY <1>2 DEF TypeOK
    <3> QED BY <1>2, <2>a, <2>b, <3>1 DEF ConnectToLogstash, DisabledIsDrained
  <2>0. timers \in Nat /\ attempts \in Nat
    BY <1>2 DEF TypeOK
  <2>1. CASE Start
    BY <2>0, <2>1, <2>b DEF Start
  <2>2. CASE TimerExpires
    <3>1. timers - 1 \in Nat
      BY <2>0, <2>2 DEF TimerExpires
    <3> QED BY <2>2, <2>b, <3>1 DEF TimerExpires
  <2>3. CASE SendLog
    BY <1>2, <2>3 DEF SendLog, MayQueue, DisabledIsDrained
  <2>4. CASE OnModuleDestroy
    BY <1>2, <2>4 DEF OnModuleDestroy, DisabledIsDrained
  <2>5. ASSUME NEW s \in Sockets, SocketEvent(s) PROVE DisabledIsDrained'
    <3>1. CASE Opened(s)
      BY <3>1 DEF Opened, ProcessLogQueue, DisabledIsDrained
    <3>2. CASE Failed(s) \/ Closed(s)
      BY <2>0, <2>a, <3>2 DEF Failed, Closed
    <3>3. CASE Ended(s)
      BY <1>2, <3>3 DEF Ended, DisabledIsDrained
    <3> QED BY <2>5, <3>1, <3>2, <3>3 DEF SocketEvent
  <2>6. CASE UNCHANGED vars
    BY <1>2, <2>6 DEF vars, DisabledIsDrained
  <2> QED BY <1>2, <2>1, <2>2, <2>3, <2>4, <2>5, <2>6 DEF Next
<1> QED BY <1>1, <1>2, LogTypeCorrect, PTL DEF Spec

(***************************************************************************)
(* Reconnection.                                                           *)
(***************************************************************************)

\* connectToLogstash leaves a socket, or a timer, or an early return behind which
\* one of them stands.
LEMMA ConnectPends ==
  ASSUME TypeOK, ReconnectionInv, NEW pending \in Nat, ConnectToLogstash(pending),
         UNCHANGED destroyed
  PROVE  ReconnectionInv'
<1>0. attempts \in Nat /\ attempts + 1 \in Nat /\ sock \in [Sockets -> SocketStates]
  BY DEF TypeOK
<1>1. CASE Busy /\ UNCHANGED <<enabled, link, queue, sinks>>
  <2>1. connecting /\ ~destroyed => \E s \in Sockets : sock[s] = "opening"
    BY DEF ReconnectionInv
  <2>2. enabled /\ client = NoSocket /\ ~destroyed => connecting
    <3>1. CASE GivesUp(attempts)
      BY <3>1 DEF ReconnectionInv
    <3>2. CASE TakesWrites(StateOf(client, sock))
      BY <3>2 DEF TakesWrites, StateOf
    <3> QED BY <1>1, <3>1, <3>2 DEF Busy
  <2>3. ReconnectionPending'
    BY <1>1, <2>1, <2>2 DEF ReconnectionPending, link
  <2> QED BY <1>1, <2>3 DEF ReconnectionInv, link
<1>2. CASE /\ \E s \in Sockets : /\ sock' = [sock EXCEPT ![s] = "opening"]
                                 /\ client' = s
           /\ connecting' = TRUE
  BY <1>0, <1>2, SocketAssumption DEF ReconnectionInv, ReconnectionPending
<1>3. CASE /\ connecting' = FALSE /\ attempts' = attempts + 1
           /\ ScheduleReconnection(attempts + 1, pending)
  <2>1. (~GivesUp(attempts') /\ timers' > 0) \/ enabled' = FALSE
    BY <1>0, <1>3, ScheduleCases
  <2> QED BY <1>3, <2>1 DEF ReconnectionInv, ReconnectionPending
<1> QED BY <1>1, <1>2, <1>3 DEF ConnectToLogstash

\* A handler that forgets the socket sets a timer or gives Logstash up.
LEMMA ForgetPends ==
  ASSUME TypeOK, ReconnectionInv, ScheduleReconnection(attempts, timers),
         UNCHANGED <<destroyed, attempts>>,
         connecting' /\ ~destroyed => \E s \in Sockets : sock'[s] = "opening"
  PROVE  ReconnectionInv'
<1>0. attempts \in Nat /\ timers \in Nat
  BY DEF TypeOK
<1>1. (~GivesUp(attempts') /\ timers' > 0) \/ enabled' = FALSE
  BY <1>0, ScheduleCases
<1> QED BY <1>1 DEF ReconnectionInv, ReconnectionPending

\* Every callback keeps a connection attempt pending.
LEMMA ReconnectionStep == TypeOK /\ ReconnectionInv /\ [Next]_vars => ReconnectionInv'
<1> SUFFICES ASSUME TypeOK, ReconnectionInv, [Next]_vars PROVE ReconnectionInv'
  OBVIOUS
<1>0. timers \in Nat /\ sock \in [Sockets -> SocketStates]
  BY DEF TypeOK
<1>1. CASE Start
  BY <1>0, <1>1, ConnectPends DEF Start
<1>2. CASE TimerExpires
  <2>1. timers - 1 \in Nat
    BY <1>0, <1>2 DEF TimerExpires
  <2> QED BY <1>2, <2>1, ConnectPends DEF TimerExpires
<1>3. CASE SendLog
  BY <1>3 DEF SendLog, MayQueue, ReconnectionInv, ReconnectionPending
<1>4. CASE OnModuleDestroy
  BY <1>4 DEF OnModuleDestroy, ReconnectionInv, ReconnectionPending
<1>5. ASSUME NEW s \in Sockets, Opened(s) PROVE ReconnectionInv'
  <2>1. ~GivesUp(attempts') /\ ~connecting'
    BY <1>5, AttemptsAssumption DEF Opened, GivesUp
  <2>2. sock'[s] # "none"
    BY <1>0, <1>5 DEF Opened, ProcessLogQueue
  <2> QED BY <1>5, <2>1, <2>2 DEF ReconnectionInv, ReconnectionPending
<1>6. ASSUME NEW s \in Sockets, Failed(s) PROVE ReconnectionInv'
  BY <1>6, ForgetPends DEF Failed
<1>7. ASSUME NEW s \in Sockets, Closed(s) PROVE ReconnectionInv'
  <2>1. \A d \in Sockets : sock[d] = "opening" => sock'[d] = "opening"
    BY <1>0, <1>7 DEF Closed
  <2>2. connecting' /\ ~destroyed => \E d \in Sockets : sock'[d] = "opening"
    BY <1>7, <2>1 DEF Closed, ReconnectionInv
  <2> QED BY <1>7, <2>2, ForgetPends DEF Closed
<1>8. ASSUME NEW s \in Sockets, Ended(s) PROVE ReconnectionInv'
  <2>1. \A d \in Sockets : /\ sock[d] = "opening" => sock'[d] = "opening"
                           /\ sock[d] # "none" => sock'[d] # "none"
    BY <1>0, <1>8 DEF Ended
  <2> QED BY <1>8, <2>1 DEF Ended, ReconnectionInv, ReconnectionPending
<1>9. CASE UNCHANGED vars
  BY <1>9 DEF vars, link, ReconnectionInv, ReconnectionPending
<1> QED BY <1>1, <1>2, <1>3, <1>4, <1>5, <1>6, <1>7, <1>8, <1>9 DEF Next, SocketEvent

\* The transport never gives up silently: until it is destroyed or disabled, a missing
\* client has a connection attempt, a timer or a dying socket behind it.
THEOREM NeverStuck == Spec => []ReconnectionPending
<1>1. Init => ReconnectionInv
  BY AttemptsAssumption DEF Init, GivesUp, ReconnectionInv, ReconnectionPending
<1>2. ReconnectionInv => ReconnectionPending
  BY DEF ReconnectionInv
<1> QED BY <1>1, <1>2, ReconnectionStep, LogTypeCorrect, PTL DEF Spec

(***************************************************************************)
(* One connection at a time, and no record lost.                           *)
(***************************************************************************)

\* Connecting replaces no live socket.
LEMMA ConnectAlone ==
  ASSUME TypeOK, LiveInv, NEW pending \in Nat, ConnectToLogstash(pending),
         ~starting', \A s \in Sockets : sock[s] # "closing"
  PROVE  LiveInv'
<1>0. sock \in [Sockets -> SocketStates]
  BY DEF TypeOK
<1>1. CASE UNCHANGED link
  BY <1>1 DEF link, LiveInv, LiveIsClient
<1>2. ~Busy => \A s \in Sockets : sock[s] \notin {"opening", "open"}
  BY SocketAssumption DEF Busy, TakesWrites, StateOf, LiveInv, LiveIsClient
<1>3. CASE /\ ~Busy
           /\ \E s \in Sockets : /\ sock' = [sock EXCEPT ![s] = "opening"]
                                 /\ client' = s
  BY <1>0, <1>2, <1>3 DEF LiveInv, LiveIsClient
<1>4. CASE ~Busy /\ UNCHANGED sock /\ client' = NoSocket
  BY <1>2, <1>4, SocketAssumption DEF LiveInv, LiveIsClient
<1> QED BY <1>1, <1>3, <1>4 DEF ConnectToLogstash

\* Every callback leaves at most one live socket, the client.
LEMMA LiveStep == ~setup.ends /\ TypeOK /\ LiveInv /\ [Next]_vars => LiveInv'
<1> SUFFICES ASSUME ~setup.ends, TypeOK, LiveInv, [Next]_vars PROVE LiveInv'
  OBVIOUS
<1>0. timers \in Nat /\ sock \in [Sockets -> SocketStates]
  BY DEF TypeOK
<1>1. CASE Start
  <2>1. \A s \in Sockets : sock[s] # "closing"
    BY <1>1 DEF Start, LiveInv
  <2> QED BY <1>0, <1>1, <2>1, ConnectAlone DEF Start
<1>2. CASE TimerExpires
  <2>1. timers - 1 \in Nat /\ ~starting'
    BY <1>0, <1>2 DEF TimerExpires, LiveInv
  <2> QED BY <1>2, <2>1, ConnectAlone DEF TimerExpires
<1>3. CASE SendLog
  BY <1>3 DEF SendLog, MayQueue, LiveInv, LiveIsClient
<1>4. CASE OnModuleDestroy
  <2>1. \A d \in Sockets : sock'[d] = IF d = client THEN "closing" ELSE sock[d]
    BY <1>0, <1>4 DEF OnModuleDestroy
  <2>2. starting => client \notin Sockets /\ timers' = 0
    BY <1>0, <1>4 DEF OnModuleDestroy, LiveInv
  <2>3. \A d \in Sockets : sock'[d] \notin {"opening", "open", "ending"}
    BY <2>1 DEF LiveInv, LiveIsClient
  <2>4. client' \in Sockets => sock'[client'] # "none"
    BY <1>4, <2>1 DEF OnModuleDestroy
  <2>5. starting' => timers' = 0 /\ \A d \in Sockets : sock'[d] = "none"
    BY <1>4, <2>1, <2>2 DEF OnModuleDestroy, LiveInv
  <2> QED BY <2>3, <2>4, <2>5 DEF LiveInv, LiveIsClient
<1>5. ASSUME NEW s \in Sockets, Opened(s) PROVE LiveInv'
  BY <1>0, <1>5 DEF Opened, ProcessLogQueue, LiveInv, LiveIsClient
<1>6. ASSUME NEW s \in Sockets, Failed(s) PROVE LiveInv'
  <2>1. client = s /\ ~starting'
    BY <1>6 DEF Failed, LiveInv, LiveIsClient
  <2>2. \A d \in Sockets : sock'[d] = IF d = s THEN "closing" ELSE sock[d]
    BY <1>0, <1>6, <2>1 DEF Failed
  <2>3. client' = NoSocket
    BY <1>6 DEF Failed
  <2> QED BY <2>1, <2>2, <2>3, SocketAssumption DEF LiveInv, LiveIsClient
<1>7. ASSUME NEW s \in Sockets, Closed(s) PROVE LiveInv'
  <2>1. sock[s] = "closing" /\ ~starting'
    BY <1>7 DEF Closed, LiveInv
  <2>2. \A d \in Sockets : sock'[d] = IF d = s THEN "none" ELSE sock[d]
    BY <1>0, <1>7 DEF Closed
  <2>3. client' = NoSocket
    BY <1>7 DEF Closed
  <2> QED BY <2>1, <2>2, <2>3, SocketAssumption DEF LiveInv, LiveIsClient
<1>8. \A s \in Sockets : ~Ended(s)
  BY DEF Ended
<1>9. CASE UNCHANGED vars
  BY <1>9 DEF vars, link, LiveInv, LiveIsClient
<1> QED BY <1>1, <1>2, <1>3, <1>4, <1>5, <1>6, <1>7, <1>8, <1>9 DEF Next, SocketEvent

\* The configuration never changes.
LEMMA SetupStays == [Next]_vars => setup' = setup
BY DEF Next, Start, TimerExpires, SendLog, OnModuleDestroy, SocketEvent, Opened, Failed, Ended,
       Closed, vars

\* As long as Logstash does not end connections itself, the two timers that the error
\* and the close of one socket set never make two connections.
THEOREM OneAtATime == Spec => []OneConnection
<1> DEFINE Inv == ~setup.ends => LiveInv
<1>1. Init => Inv
  BY SocketAssumption DEF Init, LiveInv, LiveIsClient
<1>2. TypeOK /\ Inv /\ [Next]_vars => Inv'
  BY LiveStep, SetupStays
<1>3. Inv => OneConnection
  BY DEF LiveInv, OneConnection
<1> QED BY <1>1, <1>2, <1>3, LogTypeCorrect, PTL DEF Spec

\* sendLogNow files its records and forgets nothing.
LEMMA SentNowFiles ==
  ASSUME setup.file, NEW before \in [Logs -> SUBSET Sinks], NEW records, NEW elk,
         NEW state, NEW l \in Logs
  PROVE  /\ l \in records => "file" \in SentNow(before, records, elk, state)[l]
         /\ before[l] \subseteq SentNow(before, records, elk, state)[l]
BY DEF SentNow, Reached

\* scheduleReconnection files what it takes from the queue.
LEMMA ScheduleFiles ==
  ASSUME setup.file, TypeOK, Filed, NEW tried \in Nat, NEW pending \in Nat,
         ScheduleReconnection(tried, pending), UNCHANGED sent
  PROVE  Filed'
<1>0. 1..sent \subseteq Logs /\ sinks \in [Logs -> SUBSET Sinks]
  BY BoundsAssumption DEF TypeOK, Logs
<1>1. CASE UNCHANGED <<queue, sinks>>
  BY <1>1 DEF Filed, Queued
<1>2. CASE sinks' = SentNow(sinks, Queued, FALSE, "none")
  <2> SUFFICES ASSUME NEW l \in 1..sent PROVE "file" \in sinks'[l]
    BY DEF Filed
  <2>1. l \in Queued \/ "file" \in sinks[l]
    BY DEF Filed
  <2> QED BY <1>0, <1>2, <2>1, SentNowFiles
<1> QED BY <1>1, <1>2, ScheduleCases

\* Every callback files what it takes from the queue.
LEMMA FiledStep == setup.file /\ TypeOK /\ Filed /\ [Next]_vars => Filed'
<1> SUFFICES ASSUME setup.file, TypeOK, Filed, [Next]_vars PROVE Filed'
  OBVIOUS
<1>0. /\ 1..sent \subseteq Logs /\ sinks \in [Logs -> SUBSET Sinks]
      /\ timers \in Nat /\ attempts \in Nat /\ attempts + 1 \in Nat
  BY BoundsAssumption DEF TypeOK, Logs
<1>a. UNCHANGED <<queue, sinks, sent>> => Filed'
  BY DEF Filed, Queued
<1>b. ASSUME NEW pending \in Nat, ConnectToLogstash(pending), UNCHANGED sent PROVE Filed'
  BY <1>0, <1>a, <1>b, ScheduleFiles DEF ConnectToLogstash
<1>1. CASE Start
  BY <1>0, <1>1, <1>b DEF Start
<1>2. CASE TimerExpires
  <2>1. timers - 1 \in Nat
    BY <1>0, <1>2 DEF TimerExpires
  <2> QED BY <1>2, <1>b, <2>1 DEF TimerExpires
<1>3. CASE SendLog
  <2> SUFFICES ASSUME NEW l \in 1..sent' PROVE l \in Queued' \/ "file" \in sinks'[l]
    BY DEF Filed
  <2>1. sent' = sent + 1 /\ sent \in Nat /\ sent + 1 \in Logs /\ queue \in Seq(Logs)
    BY <1>3, BoundsAssumption DEF SendLog, MayQueue, Logs, TypeOK
  <2>2. l \in 1..sent \/ l = sent + 1
    BY <2>1
  <2>3. CASE queue' = Append(queue, sent + 1) /\ UNCHANGED sinks
    <3>1. Len(queue) \in Nat /\ queue \in [1..Len(queue) -> Logs]
      BY <2>1
    <3>2. /\ DOMAIN queue' = 1..(Len(queue) + 1)
          /\ queue'[Len(queue) + 1] = sent + 1
          /\ \A i \in 1..Len(queue) : queue'[i] = queue[i]
      BY <2>1, <2>3
    <3>3. sent + 1 \in Queued'
      BY <3>1, <3>2 DEF Queued
    <3>4. \A k \in Queued : k \in Queued'
      BY <3>1, <3>2 DEF Queued
    <3> QED BY <2>2, <2>3, <3>3, <3>4 DEF Filed
  <2>4. CASE \E state : sinks' = SentNow(sinks, {sent + 1}, enabled, state) /\ UNCHANGED queue
    <3>1. "file" \in sinks'[sent + 1] /\ \A k \in Logs : sinks[k] \subseteq sinks'[k]
      BY <1>0, <2>1, <2>4, SentNowFiles
    <3> QED BY <1>0, <2>2, <2>4, <3>1 DEF Filed, Queued
  <2> QED BY <1>3, <2>3, <2>4 DEF SendLog, MayQueue
<1>4. CASE OnModuleDestroy
  BY <1>4, <1>a DEF OnModuleDestroy
<1>5. ASSUME NEW s \in Sockets, Opened(s) PROVE Filed'
  <2> DEFINE kept == [l \in Logs |-> IF l \in buffer[s] THEN sinks[l] \cup {"logstash"}
                                     ELSE sinks[l]]
  <2>1. kept \in [Logs -> SUBSET Sinks] /\ \A l \in Logs : sinks[l] \subseteq kept[l]
    BY <1>0 DEF Sinks
  <2>2. PICK state : sinks' = SentNow(kept, Queued, enabled, state)
    BY <1>5 DEF Opened, ProcessLogQueue
  <2>3. sent' = sent
    BY <1>5 DEF Opened, ProcessLogQueue
  <2> HIDE DEF kept
  <2> SUFFICES ASSUME NEW l \in 1..sent PROVE "file" \in sinks'[l]
    BY <2>3 DEF Filed
  <2>4. l \in Queued \/ "file" \in sinks[l]
    BY DEF Filed
  <2> QED BY <1>0, <2>1, <2>2, <2>4, SentNowFiles
<1>6. ASSUME NEW s \in Sockets, Failed(s) \/ Closed(s) PROVE Filed'
  BY <1>0, <1>6, ScheduleFiles DEF Failed, Closed
<1>7. ASSUME NEW s \in Sockets, Ended(s) PROVE Filed'
  BY <1>7, <1>a DEF Ended
<1>8. CASE UNCHANGED vars
  BY <1>8, <1>a DEF vars
<1> QED BY <1>1, <1>2, <1>3, <1>4, <1>5, <1>6, <1>7, <1>8 DEF Next, SocketEvent

\* With a log file no record is lost, whatever happens to the connections.
THEOREM NothingLost == Spec => []NoRecordLostWithFile
<1> DEFINE Inv == setup.file => Filed
<1>1. Init => Inv
  BY DEF Init, Filed
<1>2. TypeOK /\ Inv /\ [Next]_vars => Inv'
  BY FiledStep, SetupStays
<1>3. Inv => NoRecordLostWithFile
  BY DEF Filed, NoRecordLostWithFile, NoRecordLost
<1> QED BY <1>1, <1>2, <1>3, LogTypeCorrect, PTL DEF Spec
=============================================================================
