---------------------------- MODULE LogTransport ----------------------------
(***************************************************************************)
(* log-transport.service.ts: every log record of the application goes to   *)
(* Logstash over a TCP socket, to a file, or to the console.  While there  *)
(* is no socket, records wait in a bounded queue; after too many failed    *)
(* connections the service gives Logstash up.                              *)
(*                                                                         *)
(* The service is single-threaded: each action is one callback - a call of *)
(* sendLog(), a timer, an event of a socket - and the calls it makes.  No  *)
(* clock: a timer that is set may expire at any later time.                *)
(***************************************************************************)
EXTENDS Naturals, Sequences

CONSTANTS
  Sockets,      \* net.Socket objects; a closed one is reused
  NoSocket,     \* logstashClient is null
  MaxAttempts,  \* maxConnectionAttempts
  MaxQueue,     \* maxQueueSize
  Setups,       \* configurations the service may be started with
  MaxLogs,      \* bound on the records sent
  MaxTimers     \* bound: an open connection breaks only with that few timers set

ASSUME SocketAssumption == NoSocket \notin Sockets
ASSUME AttemptsAssumption == MaxAttempts \in Nat \ {0}
ASSUME BoundsAssumption == MaxQueue \in Nat /\ MaxLogs \in Nat /\ MaxTimers \in Nat
ASSUME SetupAssumption ==
  Setups \subseteq [elk     : BOOLEAN,   \* ELK_ENABLED
                    file    : BOOLEAN,   \* LOG_TO_FILE
                    console : BOOLEAN,   \* LOG_FALLBACK_CONSOLE
                    dev     : BOOLEAN,   \* NODE_ENV = development
                    port    : BOOLEAN,   \* is the port one that connect() accepts?
                    ends    : BOOLEAN]   \* does Logstash end connections itself?

VARIABLES
  setup,       \* what the constructor has read; never changes
  enabled,     \* elkConfig.enabled
  client,      \* logstashClient
  connecting,  \* isConnecting
  attempts,    \* connectionAttempts
  starting,    \* the setImmediate of onModuleInit is pending
  timers,      \* pending reconnection timers, the leaked ones included
  destroyed,   \* onModuleDestroy has run
  sock,        \* state of each socket
  buffer,      \* records written to a socket that is still connecting
  queue,       \* logQueue
  sinks,       \* where each record has been written
  sent         \* number of calls of sendLog

link == <<client, connecting, attempts, sock, buffer>>
vars == <<setup, enabled, link, starting, timers, destroyed, queue, sinks, sent>>

Logs == 1..MaxLogs

Sinks == {"logstash", "file", "console"}

\* "closing": destroyed, its close event is still to come; "ending": the peer
\* has ended the connection, which can no longer be written to.
SocketStates == {"none", "opening", "open", "ending", "closing"}

TypeOK ==
  /\ setup \in Setups
  /\ {enabled, connecting, starting, destroyed} \subseteq BOOLEAN
  /\ client \in Sockets \cup {NoSocket}
  /\ attempts \in Nat /\ timers \in Nat /\ sent \in 0..MaxLogs
  /\ sock \in [Sockets -> SocketStates]
  /\ buffer \in [Sockets -> SUBSET Logs]
  /\ queue \in Seq(Logs) /\ Len(queue) <= MaxQueue
  /\ sinks \in [Logs -> SUBSET Sinks]

Init ==
  /\ setup \in Setups /\ enabled = setup.elk /\ starting = setup.elk
  /\ client = NoSocket /\ connecting = FALSE /\ attempts = 0 /\ timers = 0
  /\ destroyed = FALSE
  /\ sock = [s \in Sockets |-> "none"]
  /\ buffer = [s \in Sockets |-> {}]
  /\ queue = <<>> /\ sinks = [l \in Logs |-> {}] /\ sent = 0

Queued == {queue[i] : i \in DOMAIN queue}

-----------------------------------------------------------------------------
(* sendLogNow.                                                             *)

\* A socket takes writes from connect() on: until it is open it keeps them.
TakesWrites(state) == state \in {"opening", "open"}

\* Where a record gets to, given the state of the current client.
Reached(elk, state) ==
  LET logSent == (elk /\ TakesWrites(state)) \/ setup.file
  IN  (IF elk /\ state = "open" THEN {"logstash"} ELSE {})
      \cup (IF setup.file THEN {"file"} ELSE {})
      \cup (IF (setup.console /\ (~logSent \/ ~elk)) \/ setup.dev
            THEN {"console"} ELSE {})

StateOf(c, state) == IF c = NoSocket THEN "none" ELSE state[c]

\* Mutant of SentNow: a record is forgotten when there is no connection.
SentNow_Connected(before, records, elk, state) ==
  [l \in Logs |-> IF l \in records /\ state = "open"
                  THEN before[l] \cup Reached(elk, state) ELSE before[l]]

\* sendLogNow of each of these records, on top of what was already written.
SentNow(before, records, elk, state) ==
  [l \in Logs |-> IF l \in records THEN before[l] \cup Reached(elk, state) ELSE before[l]]

Buffered(records, elk, state) ==
  [s \in Sockets |->
     IF s = client /\ elk /\ state = "opening" THEN buffer[s] \cup records ELSE buffer[s]]

\* Mutant of ProcessLogQueue: the queue waits for the next connection.
ProcessLogQueue_Waits(before, elk, state) == queue' = queue /\ sinks' = before

ProcessLogQueue(before, elk, state) ==
  queue' = <<>> /\ sinks' = SentNow(before, Queued, elk, state)

-----------------------------------------------------------------------------
(* Connecting.                                                             *)

GivesUp(tried) == tried >= MaxAttempts

\* Mutant of ScheduleReconnection: off by one, a last timer is set that connects to
\* nothing, and Logstash is never given up.
ScheduleReconnection_OneMore(tried, pending) ==
  \/ /\ tried <= MaxAttempts /\ timers' = pending + 1
     /\ UNCHANGED <<enabled, queue, sinks>>
  \/ /\ tried > MaxAttempts /\ timers' = pending
     /\ enabled' = FALSE /\ ProcessLogQueue(sinks, FALSE, "none")

\* scheduleReconnection(), with pending timers: after the last attempt the queue
\* goes to the file or the console.
ScheduleReconnection(tried, pending) ==
  \/ /\ ~GivesUp(tried) /\ timers' = pending + 1
     /\ UNCHANGED <<enabled, queue, sinks>>
  \/ /\ GivesUp(tried) /\ timers' = pending
     /\ enabled' = FALSE /\ ProcessLogQueue(sinks, FALSE, "none")

\* Mutant of Busy: nothing prevents two connections at a time.
Busy_Never == GivesUp(attempts)

Busy == connecting \/ GivesUp(attempts) \/ TakesWrites(StateOf(client, sock))

\* connectToLogstash().
ConnectToLogstash(pending) ==
  \/ /\ Busy
     /\ timers' = pending
     /\ UNCHANGED <<enabled, link, queue, sinks>>
  \/ /\ ~Busy /\ setup.port
     /\ \E s \in Sockets :
          /\ sock[s] = "none"
          /\ sock' = [sock EXCEPT ![s] = "opening"]
          /\ client' = s
     /\ connecting' = TRUE /\ attempts' = attempts + 1 /\ timers' = pending
     /\ UNCHANGED <<enabled, buffer, queue, sinks>>
  \/ /\ ~Busy /\ ~setup.port
     /\ connecting' = FALSE /\ client' = NoSocket
     /\ attempts' = attempts + 1
     /\ ScheduleReconnection(attempts + 1, pending)
     /\ UNCHANGED <<sock, buffer>>

\* onModuleInit.
Start ==
  /\ starting /\ starting' = FALSE
  /\ ConnectToLogstash(timers)
  /\ UNCHANGED <<setup, destroyed, sent>>

\* The event loop emits the close event of a destroyed socket before it runs timers.
TimerExpires ==
  /\ timers > 0
  /\ \A s \in Sockets : sock[s] # "closing"
  /\ ConnectToLogstash(timers - 1)
  /\ UNCHANGED <<setup, starting, destroyed, sent>>

\* The connect callback; the socket sends what it was given while connecting.
Opened(s) ==
  /\ sock[s] = "opening"
  /\ sock' = [sock EXCEPT ![s] = "open"]
  /\ attempts' = 0 /\ connecting' = FALSE
  /\ LET kept  == [l \in Logs |-> IF l \in buffer[s] THEN sinks[l] \cup {"logstash"}
                                  ELSE sinks[l]]
         state == StateOf(client, sock')
     IN  /\ ProcessLogQueue(kept, enabled, state)
         /\ buffer' = [Buffered(Queued, enabled, state) EXCEPT ![s] = {}]
  /\ UNCHANGED <<setup, enabled, client, starting, timers, destroyed, sent>>

\* May the connection break without the bound on timers being exceeded?
MayBreak(s) == sock[s] = "open" => timers < MaxTimers

\* The error event: handleConnectionError() destroys the current client, which may
\* be a later socket than the one that failed.
Failed(s) ==
  /\ sock[s] \in {"opening", "open", "ending"} /\ MayBreak(s)
  /\ LET dead == {s, client} \cap {d \in Sockets : sock[d] # "none"}
     IN  /\ sock' = [d \in Sockets |-> IF d \in dead THEN "closing" ELSE sock[d]]
         /\ buffer' = [d \in Sockets |-> IF d \in dead THEN {} ELSE buffer[d]]
  /\ client' = NoSocket /\ connecting' = FALSE
  /\ ScheduleReconnection(attempts, timers)
  /\ UNCHANGED <<setup, attempts, starting, destroyed, sent>>

\* Logstash ends the connection.
Ended(s) ==
  /\ setup.ends /\ sock[s] = "open" /\ MayBreak(s)
  /\ sock' = [sock EXCEPT ![s] = "ending"]
  /\ UNCHANGED <<setup, enabled, client, connecting, attempts, buffer, starting, timers,
                 destroyed, queue, sinks, sent>>

\* The close event: whatever the current client is, it is forgotten.
Closed(s) ==
  /\ sock[s] \in {"ending", "closing"}
  /\ sock' = [sock EXCEPT ![s] = "none"]
  /\ client' = NoSocket
  /\ ScheduleReconnection(attempts, timers)
  /\ UNCHANGED <<setup, connecting, attempts, buffer, starting, destroyed, sent>>

-----------------------------------------------------------------------------
\* Mutant of MayQueue: off by one at the limit.
MayQueue_OneMore == enabled /\ client = NoSocket /\ Len(queue) <= MaxQueue

MayQueue == enabled /\ client = NoSocket /\ Len(queue) < MaxQueue

\* sendLog().
SendLog ==
  /\ sent < MaxLogs
  /\ sent' = sent + 1
  /\ LET l     == sent + 1
         state == StateOf(client, sock)
     IN  \/ /\ MayQueue /\ queue' = Append(queue, l)
            /\ UNCHANGED <<sinks, buffer>>
         \/ /\ ~MayQueue /\ sinks' = SentNow(sinks, {l}, enabled, state)
            /\ buffer' = Buffered({l}, enabled, state)
            /\ UNCHANGED queue
  /\ UNCHANGED <<setup, enabled, client, connecting, attempts, sock, starting, timers, destroyed>>

\* onModuleDestroy: only the timer set last is cleared - if it is still pending -
\* and the socket is destroyed but not forgotten.
OnModuleDestroy ==
  /\ ~destroyed /\ destroyed' = TRUE
  /\ \E cleared \in {0, 1} : cleared <= timers /\ timers' = timers - cleared
  /\ LET dead == {client} \cap Sockets
     IN  /\ sock' = [d \in Sockets |-> IF d \in dead THEN "closing" ELSE sock[d]]
         /\ buffer' = [d \in Sockets |-> IF d \in dead THEN {} ELSE buffer[d]]
  /\ UNCHANGED <<setup, enabled, client, connecting, attempts, starting, queue, sinks, sent>>

SocketEvent(s) == Opened(s) \/ Failed(s) \/ Ended(s) \/ Closed(s)

Next == Start \/ TimerExpires \/ SendLog \/ OnModuleDestroy \/ \E s \in Sockets : SocketEvent(s)

Spec == Init /\ [][Next]_vars

\* A timer expires, an attempt to connect succeeds or fails, a socket that is
\* destroyed or ended closes; an open connection need not break.
FairSpec ==
  /\ Spec
  /\ WF_vars(Start) /\ WF_vars(TimerExpires)
  /\ \A s \in Sockets : /\ WF_vars(sock[s] = "opening" /\ (Opened(s) \/ Failed(s)))
                        /\ WF_vars(Closed(s))
-----------------------------------------------------------------------------
(* Properties.                                                             *)

\* No record waits for a Logstash that was given up: disabling flushes the queue
\* to the file or the console and nothing is queued afterwards.
DisabledIsDrained == ~enabled => queue = <<>>

\* The transport never gives up silently: while Logstash is enabled and there is
\* no client, a connection attempt is still to come - the first one, a timer, or a
\* socket whose end will set one - although early returns of connectToLogstash
\* consume timers without connecting.
ReconnectionPending ==
  enabled /\ client = NoSocket /\ ~destroyed =>
    starting \/ timers > 0 \/ \E s \in Sockets : sock[s] # "none"

\* Why: isConnecting means that a socket is connecting, and once the last attempt is
\* used up - when timers do nothing any more - that socket is still undecided.
ReconnectionInv ==
  /\ ReconnectionPending
  /\ connecting /\ ~destroyed => \E s \in Sockets : sock[s] = "opening"
  /\ enabled /\ GivesUp(attempts) /\ ~destroyed => connecting

\* At most one socket lives, and it is the client.
LiveIsClient == \A s \in Sockets : sock[s] \in {"opening", "open"} => client = s

\* The error and the close of one socket both set a timer, but the two timers never
\* open two connections - unless Logstash ends one, whose close event comes late.
OneConnection == ~setup.ends => LiveIsClient

\* Why: the event loop closes a socket before a timer replaces it.
LiveInv ==
  /\ LiveIsClient
  /\ client \in Sockets => sock[client] # "none"
  /\ \A s \in Sockets : sock[s] # "ending"
  /\ \A s, d \in Sockets : sock[s] = "closing" => sock[d] \notin {"opening", "open"}
  /\ starting => timers = 0 /\ \A s \in Sockets : sock[s] = "none"

\* A record handed to sendLog is waiting, held by a connecting socket, or has been
\* written somewhere, whatever failed meanwhile.
NoRecordLost ==
  \A l \in 1..sent : \/ l \in Queued \/ sinks[l] # {}
                     \/ \E s \in Sockets : l \in buffer[s]

\* A log file makes up for what NoRecordLost lacks: no failing connection, no full
\* queue and no way of giving up costs a record.
NoRecordLostWithFile == setup.file => NoRecordLost

\* Why: a record that has left the queue is in the file.
Filed == \A l \in 1..sent : l \in Queued \/ "file" \in sinks[l]

\* The queue is emptied again and again: to Logstash, or - once Logstash is given
\* up - to the other sinks.
QueueDrains == queue # <<>> /\ ~setup.ends ~> queue = <<>> \/ destroyed
=============================================================================
