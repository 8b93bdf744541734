------------------------------- MODULE Tunnel -------------------------------
(***************************************************************************)
(* app-connect: the tunnel to the proxy of the phone app (tunnel.py,       *)
(* events.py, backoff.py, and from main.py the supervisor that rebuilds    *)
(* the stack after a change of the configuration).  All of it is one       *)
(* asyncio loop; an action reaches from one await to the next.             *)
(*                                                                         *)
(* A connection runs four loops under asyncio.gather, which does not       *)
(* cancel the others when one of them raises: the event loop of a lost     *)
(* connection keeps waiting at the queue that all connections share.       *)
(***************************************************************************)
EXTENDS Naturals, FiniteSets, FiniteSetsExt, Sequences, SequencesExt

CONSTANTS
  QueueMax, MaxConcurrentRpc,              \* limits of the code
  Rpcs,                                    \* requests the app may make
  MaxAlerts, MaxSessions, MaxChanges, MaxChunks, MaxBackoff \* bounds; the last caps the back-off

TunnelAssumption ==
  /\ {QueueMax, MaxConcurrentRpc, MaxBackoff} \subseteq Nat \ {0}
  /\ {MaxAlerts, MaxSessions, MaxChanges, MaxChunks} \subseteq Nat

VARIABLES
  topic, pos,          \* alerts-enriched (severities), position of EventSource
  threshold,           \* RuntimeConfig.event_severity_min
  queue,               \* EventSource.queue: positions in the topic
  connection,          \* "down", "hello" or "up"
  session, since,      \* its number; position when it drained the queue
  loops,               \* session -> what its event loop holds, 0: nothing
  sent,                \* <<alert, session>> on the wire (history)
  overflowed, swallowed, \* alerts dropped by _offer; taken by the loop of a
                       \* lost connection (history)
  rpc,                 \* request -> [at, kind, frames]
  backoff, acked, refused, \* base delay; hello_ack seen; connections without
                       \* one since the last (history)
  changes              \* of the configuration

eventVars == <<topic, pos, queue, loops, sent, overflowed, swallowed>>
linkVars == <<connection, session, since, backoff, acked, refused>>
tunnelVars == <<eventVars, linkVars, threshold, rpc, changes>>

NoRpc == [at |-> "none", kind |-> "none", frames |-> <<>>]

TunnelInit ==
  /\ topic = <<>> /\ pos = 0 /\ queue = <<>> /\ sent = <<>>
  /\ overflowed = {} /\ swallowed = {} /\ loops = <<>>
  /\ threshold \in {"low", "high"} /\ connection = "down" /\ session = 0 /\ since = 0
  /\ rpc = [r \in Rpcs |-> NoRpc]
  /\ backoff = 1 /\ acked = FALSE /\ refused = 0 /\ changes = 0

Passes(i) == threshold = "low" \/ topic[i] = "high"

-----------------------------------------------------------------------------
(* Alerts.                                                                 *)

Alert ==
  /\ Len(topic) < MaxAlerts /\ \E s \in {"low", "high"} : topic' = Append(topic, s)
  /\ UNCHANGED <<pos, queue, loops, sent, overflowed, swallowed, linkVars, threshold, rpc, changes>>

\* Bug: a full queue refuses the new alert.
OfferedDropNewest(i) == IF Len(queue) < QueueMax THEN Append(queue, i) ELSE queue

\* Bug: the queue has no bound.
OfferedUnbounded(i) == Append(queue, i)

\* _offer: a full queue drops its oldest alert.
Offered(i) == Append(IF Len(queue) < QueueMax THEN queue ELSE Tail(queue), i)

\* EventSource.run: the next message, with the coarse filter.
Consume ==
  /\ pos < Len(topic) /\ pos' = pos + 1
  /\ queue' = IF Passes(pos') THEN Offered(pos') ELSE queue
  /\ overflowed' = overflowed \cup ((ToSet(queue) \cup (IF Passes(pos') THEN {pos'} ELSE {}))
                                      \ ToSet(queue'))
  /\ UNCHANGED <<topic, loops, sent, swallowed, linkVars, threshold, rpc, changes>>

\* Bug: the alert stays queued until it is sent.
RestPeeked == queue
Rest == Tail(queue)

\* _event_loop gets an alert and asks the fine filter.
TakeAlert(s) ==
  /\ s \in DOMAIN loops /\ loops[s] = 0 /\ queue # <<>>
  /\ queue' = Rest
  /\ loops' = [loops EXCEPT ![s] = IF Passes(Head(queue)) THEN Head(queue) ELSE 0]
  /\ UNCHANGED <<topic, pos, sent, overflowed, swallowed, linkVars, threshold, rpc, changes>>

LockFree == \A r \in Rpcs : rpc[r].at # "sending"
Live(s) == s = session /\ connection = "up"

SendAlert(s) ==
  /\ s \in DOMAIN loops /\ loops[s] # 0 /\ Live(s) /\ LockFree
  /\ sent' = Append(sent, <<loops[s], s>>)
  /\ loops' = [loops EXCEPT ![s] = 0]
  /\ UNCHANGED <<topic, pos, queue, overflowed, swallowed, linkVars, threshold, rpc, changes>>

\* Bug: the loop of a lost connection survives the failing send.
AfterFailedSendSurvives(s) == [loops EXCEPT ![s] = 0]

\* ws.send on a closed connection raises, which ends this loop.
AfterFailedSend(s) == [t \in DOMAIN loops \ {s} |-> loops[t]]

SendFails(s) ==
  /\ s \in DOMAIN loops /\ loops[s] # 0 /\ ~Live(s)
  /\ loops' = AfterFailedSend(s)
  /\ swallowed' = swallowed \cup {loops[s]}
  /\ UNCHANGED <<topic, pos, queue, sent, overflowed, linkVars, threshold, rpc, changes>>

-----------------------------------------------------------------------------
(* The connection.                                                         *)

\* Bug: alerts queued before the connection stay in the queue.
DrainedKept == queue

\* _session begins by emptying the queue.
Drained == <<>>

Connect ==
  /\ connection = "down" /\ session < MaxSessions
  /\ connection' = "hello" /\ session' = session + 1 /\ acked' = FALSE
  /\ queue' = Drained /\ since' = pos
  /\ UNCHANGED <<topic, pos, loops, sent, overflowed, swallowed, backoff, refused,
                 threshold, rpc, changes>>

HelloAck ==
  /\ connection = "hello" /\ connection' = "up" /\ acked' = TRUE /\ refused' = 0
  /\ loops' = [s \in DOMAIN loops \cup {session} |-> IF s = session THEN 0 ELSE loops[s]]
  /\ UNCHANGED <<topic, pos, queue, sent, overflowed, swallowed, session, since, backoff,
                 threshold, rpc, changes>>

Doubled(b) == Min({2 * b, MaxBackoff})

\* Bug: a connection that was accepted resets the delay.
NextBackoffAccepted == Doubled(1)

\* Reset only after hello_ack; then the sleep, then next_backoff.
NextBackoff == Doubled(IF acked THEN 1 ELSE backoff)

\* _cancel_rpc_tasks
RpcsCancelled ==
  [r \in Rpcs |-> IF rpc[r].at \in {"none", "done"} THEN rpc[r]
                  ELSE [rpc[r] EXCEPT !.at = "cancelled"]]

\* Refused, closed, or silent for longer than the heartbeat; a connection that
\* is never established counts as one that ends in "hello".
Lose ==
  /\ connection # "down" /\ connection' = "down"
  /\ backoff' = NextBackoff
  /\ refused' = IF acked \/ refused > MaxBackoff THEN refused ELSE refused + 1
  /\ rpc' = RpcsCancelled
  /\ UNCHANGED <<eventVars, session, since, acked, threshold, changes>>

\* A config frame, or severity_min changed in the database.
ChangeThreshold ==
  /\ changes < MaxChanges /\ changes' = changes + 1
  /\ threshold' \in {"low", "high"} \ {threshold}
  /\ UNCHANGED <<eventVars, linkVars, rpc>>

\* _config_watch returns: everything is cancelled and built anew, with a new
\* queue, where the old loops stay, and a consumer that starts at the end.
Rebuild ==
  /\ changes < MaxChanges /\ changes' = changes + 1
  /\ connection' = "down" /\ rpc' = RpcsCancelled
  /\ pos' = Len(topic) /\ queue' = <<>> /\ loops' = <<>>
  /\ backoff' = 1 /\ acked' = FALSE /\ refused' = 0
  /\ UNCHANGED <<topic, sent, overflowed, swallowed, session, since, threshold>>

-----------------------------------------------------------------------------
(* Requests.  "waiting" for the semaphore, "running" against the local     *)
(* api, "sending" its last frame with the send lock held.                  *)

SetRpc(r, at, frames) ==
  /\ rpc' = [rpc EXCEPT ![r].at = at, ![r].frames = @ \o frames]
  /\ UNCHANGED <<eventVars, linkVars, threshold, changes>>

\* The allowlist, or a body that is no base64, rejects it.
Reject(r) ==
  /\ connection = "up" /\ rpc[r].at = "none" /\ LockFree /\ SetRpc(r, "done", <<"rejected">>)

Spawn(r) ==
  /\ connection = "up" /\ rpc[r].at = "none"
  /\ \E kind \in {"unary", "stream"} : rpc' = [rpc EXCEPT ![r].at = "waiting", ![r].kind = kind]
  /\ UNCHANGED <<eventVars, linkVars, threshold, changes>>

\* Bug: the semaphore is given back by successful requests only.
HoldersFailedToo ==
  {r \in Rpcs : \/ rpc[r].at \in {"running", "sending"}
                \/ rpc[r].frames # <<>> /\ Last(rpc[r].frames) = "error"}
Holders == {r \in Rpcs : rpc[r].at \in {"running", "sending"}}

Acquire(r) ==
  /\ rpc[r].at = "waiting" /\ Cardinality(Holders) < MaxConcurrentRpc
  /\ SetRpc(r, "running", <<>>)

\* Bug: an error status is reported, and the body streamed all the same.
AfterErrorStatusGoesOn == "running"
AfterErrorStatus == "done"

Chunk(r) ==
  /\ rpc[r].at = "running" /\ rpc[r].kind = "stream" /\ LockFree
  /\ Len(rpc[r].frames) < MaxChunks /\ SetRpc(r, "running", <<"chunk">>)

ErrorStatus(r) ==
  /\ rpc[r].at = "running" /\ rpc[r].kind = "stream" /\ rpc[r].frames = <<>> /\ LockFree
  /\ SetRpc(r, AfterErrorStatus, <<"error">>)

\* The last frame is written; the sender waits for the transport to drain.
Answer(r) ==
  /\ rpc[r].at = "running" /\ LockFree
  /\ SetRpc(r, "sending", IF rpc[r].kind = "unary" THEN <<"result">> ELSE <<"final">>)

Answered(r) == rpc[r].at = "sending" /\ SetRpc(r, "done", <<>>)

\* An exception of the api, or wait_for expires; the latter also while the
\* last frame, written already, is being drained.
FailRpc(r) ==
  /\ (rpc[r].at = "running" /\ LockFree) \/ rpc[r].at = "sending"
  /\ SetRpc(r, "done", <<"error">>)

TunnelNext ==
  \/ Alert \/ Consume
  \/ \E s \in 1..MaxSessions : TakeAlert(s) \/ SendAlert(s) \/ SendFails(s)
  \/ Connect \/ HelloAck \/ Lose \/ ChangeThreshold \/ Rebuild
  \/ \E r \in Rpcs : \/ Reject(r) \/ Spawn(r) \/ Acquire(r) \/ Chunk(r)
                     \/ ErrorStatus(r) \/ Answer(r) \/ Answered(r) \/ FailRpc(r)

TunnelSpec == TunnelInit /\ [][TunnelNext]_tunnelVars

\* The loop runs every task that can, and every request has its time-out.
TunnelFairness ==
  \A r \in Rpcs : WF_rpc(Acquire(r)) /\ WF_rpc(Answered(r)) /\ WF_rpc(FailRpc(r))

TunnelFairSpec == TunnelSpec /\ TunnelFairness

-----------------------------------------------------------------------------
\* Types of the variables, and the bound of the queue.
TunnelTypeOK ==
  /\ topic \in Seq({"low", "high"}) /\ pos \in 0..Len(topic) /\ since \in 0..pos
  /\ threshold \in {"low", "high"} /\ connection \in {"down", "hello", "up"}
  /\ queue \in Seq(1..pos) /\ Len(queue) <= QueueMax /\ sent \in Seq((1..pos) \X (1..session))
  /\ DOMAIN loops \subseteq 1..session /\ \A s \in DOMAIN loops : loops[s] \in 0..pos
  /\ overflowed \cup swallowed \subseteq 1..pos /\ session \in 0..MaxSessions
  /\ \A r \in Rpcs : rpc[r].at \in {"none", "waiting", "running", "sending", "done", "cancelled"}
  /\ backoff \in 1..MaxBackoff /\ acked \in BOOLEAN /\ refused \in Nat /\ changes \in 0..MaxChanges

\* What a connection carries came after it had been opened: a backlog of an
\* outage never reaches the phones (events.py:3-8), though queue and loops
\* outlive connections.
NoBacklog == [][\A k \in DOMAIN sent' \ DOMAIN sent : sent'[k][1] > since]_tunnelVars

\* Alerts leave in the order of the topic and none leaves twice, over
\* connections, drained queues and loops that several connections left behind.
AlertsInOrder == \A j, k \in DOMAIN sent : j < k => sent[j][1] < sent[k][1]

\* An overflow takes the oldest: whatever is still queued is younger
\* (events.py:11-14).
OverflowTakesOldest == \A o \in overflowed, q \in ToSet(queue) : o < q

\* A connection that was lost costs at most one alert, the one its event loop
\* took.
OneAlertPerLostConnection == Cardinality(swallowed) <= session

\* events.py:7-8: after a reconnect it goes on from now.  An alert consumed
\* since the connection was opened does not go down with an earlier one.
UpMeansDelivered ==
  [][connection = "up" => \A a \in swallowed' \ swallowed : a <= since]_tunnelVars

\* A request gets one answer: rejected, result, an error, or chunks and one
\* final frame or error.  An error follows a complete answer only where the
\* time-out cut the drain of its last frame.
OneAnswer ==
  \A r \in Rpcs :
    LET f == rpc[r].frames
        last == {"rejected", "result", "final", "error"}
    IN  \A k \in 1..(Len(f) - 1) :
          f[k] \in last => f[k] \in {"result", "final"} /\ SubSeq(f, k + 1, Len(f)) = <<"error">>

\* The delay doubles with each connection that brings no hello_ack, so that a
\* proxy refusing every hello is not asked every second (tunnel.py:221-224).
RefusedBacksOff ==
  connection = "down" => backoff >= Min({2 ^ refused, MaxBackoff})

\* A request ends: answered, or cancelled with its connection.
RequestsEnd ==
  \A r \in Rpcs : []<>(rpc[r].at \in {"none", "done", "cancelled"})

=============================================================================
