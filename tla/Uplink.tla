-------------------------------- MODULE Uplink --------------------------------
(***************************************************************************)
(* A remote tap sends its frames to the master over one mTLS WebSocket,    *)
(* at least once: tap-uplink/src/main.py (the producer threads and the     *)
(* Uplink class) against master-uplink/src/main.py (handle_tap).           *)
(*                                                                         *)
(* On the tap two asyncio tasks, _send_loop and _receive_loop, share the   *)
(* in-flight book and the DiskQueue; they interleave at every await, that  *)
(* is between any two ws.send calls.  On the master every connection has   *)
(* a handler that reads frames in order, and a task that flushes acks;     *)
(* Kafka delivery callbacks come back later, in any order.                 *)
(*                                                                         *)
(* Time is cut down to the three timeouts the code compares with:          *)
(* ACK_TIMEOUT_S, REDELIVER_AFTER_S and PCAP_MAX_WAIT_S.                   *)
(***************************************************************************)
EXTENDS Naturals, Sequences, FiniteSets, Functions

CONSTANTS
  Kinds,       \* the frame types this instance pushes
  FrameLength, \* FrameLength[k]: bytes of a frame of kind k
  MaxBytes, TrimBatch,   \* see DiskQueue
  MaxId,       \* bound: frames ever pushed
  MaxRecords,  \* bound: those of them that are no pcap_uploads
  BatchSize,   \* SEND_BATCH_SIZE
  MaxInflight, \* MAX_INFLIGHT
  MaxConns,    \* bound: connections ever opened; the last one does not break
  MaxWire,     \* bound: messages under way in one direction of a connection
  MaxFaults,   \* bound: failing Kafka, DB and MinIO calls and crashes
  MasterAcks   \* FALSE for a master from before app-level acks

FrameKinds == {"alert", "metric", "host_profile", "pcap_upload", "malformed"}

ASSUME UplinkAssumption ==
  /\ Kinds \subseteq FrameKinds
  /\ FrameLength \in [FrameKinds -> Nat]
  /\ MaxId \in Nat /\ MaxRecords \in Nat /\ MaxBytes \in Nat /\ TrimBatch \in Nat \ {0}
  /\ BatchSize \in Nat \ {0}
  /\ MaxInflight \in Nat \ {0}
  /\ MaxConns \in Nat \ {0} /\ MaxFaults \in Nat
  /\ MaxWire \in Nat \ {0}
  /\ MasterAcks \in BOOLEAN

Conns == 1..MaxConns
Ids == 1..MaxId

(* A queued frame: its type and, for a pcap_upload, the alert it belongs to. *)
Frame == [type : FrameKinds, alert : 0..MaxId]
FrameBytes == [f \in Frame |-> FrameLength[f.type]]

VARIABLES
  rows, lastId, bytes,   \* the tap's DiskQueue
  pending,       \* _pending_alerts: alerts whose capture window is still open
  link,          \* the connection the tap is on, 0 for none
  conns,         \* connections opened so far
  pc,            \* _send_loop: "top" of the loop or sending a "batch"
  cursor,        \* _send_loop: last id sent on this connection
  zombie,        \* a _send_loop of an earlier connection still runs
  batch,         \* _send_loop: popped frames not yet sent (id -> frame)
  idsSent,       \* _send_loop: ids_sent of the running batch
  inflight,      \* _inflight: ids believed unconfirmed
  overdue,       \* those sent REDELIVER_AFTER_S ago or longer, and as long
                 \* after _last_redeliver
  ackCapable,    \* _ack_capable: "unknown" (None), "yes", "no"
  ackDeadline    \* _ack_deadline: "none", "armed", "passed"

VARIABLES
  up, down,      \* per connection: frames to the master, frames to the tap
  handler,       \* per connection: "none", "open", "closed"
  acked,         \* acked_seqs of the handler
  retry,         \* pcap_retry of the handler: alerts waited for
  outstanding,   \* produced to Kafka, delivery report still to come
  metricHw,      \* _metric_seq_hw[tap_id], 0 when absent
  faults         \* injected faults so far

VARIABLES        \* what the master's stores hold
  alertsRaw,     \* ids of alerts in the alerts-raw topic
  metricCount,   \* metricCount[i]: times metric i was produced
  profiles,      \* host_profile frames ever upserted
  hostProfile,   \* the frame tap_host_profiles now holds for the host, or 0
  alertRows,     \* alerts persisted in the alerts table
  pcaps          \* alerts whose PCAP is stored and flagged

VARIABLES        \* history, read only by properties
  pushed,        \* every frame ever pushed: id -> frame
  trimmed,       \* ids dropped by the size cap
  released,      \* ids deleted without a confirmation (Alt-Master mode)
  skipped,       \* metric ids confirmed because of the high-water mark
  abandoned,     \* pcap_upload ids confirmed without a stored PCAP
  restarts       \* restarts of the master

queue == <<rows, lastId, bytes>>
sender == <<pc, cursor, batch, idsSent>>
ackState == <<inflight, overdue, ackCapable, ackDeadline>>
tap == <<pending, link, conns, zombie, sender, ackState>>
master == <<handler, acked, retry, outstanding, metricHw>>
stores == <<alertsRaw, metricCount, profiles, hostProfile, alertRows, pcaps>>
history == <<pushed, trimmed, released, skipped, abandoned, restarts>>
vars == <<queue, tap, up, down, master, faults, stores, history>>

DQ == INSTANCE DiskQueue WITH Payload <- Frame, Length <- FrameBytes

(* A message on the wire: the frame with its seq, or a control frame. *)
Msg(t, s, a) == [type |-> t, seq |-> s, alert |-> a]
AckMsg(S) == [type |-> "ack", seqs |-> S]
HelloAck == [type |-> "hello_ack", seqs |-> {}]

(* The id that comes first, if there is any. *)
First(b) == {i \in DOMAIN b : \A j \in DOMAIN b : i <= j}
Empty == [i \in {} |-> {}]
-----------------------------------------------------------------------------
Init ==
  /\ DQ!QueueInit
  /\ pending = {} /\ link = 0 /\ conns = 0
  /\ pc = "top" /\ zombie = FALSE /\ cursor = 0 /\ batch = Empty /\ idsSent = {}
  /\ inflight = {} /\ overdue = {}
  /\ ackCapable = "unknown" /\ ackDeadline = "none"
  /\ up = [c \in Conns |-> <<>>] /\ down = [c \in Conns |-> <<>>]
  /\ handler = [c \in Conns |-> "none"]
  /\ acked = [c \in Conns |-> {}] /\ retry = [c \in Conns |-> {}]
  /\ outstanding = {} /\ metricHw = 0 /\ faults = 0
  /\ alertsRaw = {} /\ metricCount = [i \in Ids |-> 0]
  /\ profiles = {} /\ hostProfile = 0 /\ alertRows = {} /\ pcaps = {}
  /\ pushed = Empty /\ trimmed = {} /\ released = {} /\ skipped = {}
  /\ abandoned = {} /\ restarts = 0
-----------------------------------------------------------------------------
(* The tap's producer threads. *)

(* DiskQueue.push of a frame, with the history of what it cost. *)
PushFrame(f) ==
  /\ DQ!Push(f)
  /\ pushed' = [i \in DOMAIN pushed \union {lastId'} |->
                  IF i = lastId' THEN f ELSE pushed[i]]
  /\ trimmed' = trimmed \union ((DOMAIN rows \union {lastId'}) \ DOMAIN rows')
  /\ UNCHANGED <<released, skipped, abandoned, restarts>>

Recorded == {i \in DOMAIN pushed : pushed[i].type # "pcap_upload"}

(* _kafka_consumer_thread: wrap the record, push it, and for an alert open *)
(* the capture window.                                                     *)
Consume(k) ==
  /\ k \in Kinds \ {"pcap_upload"} /\ Cardinality(Recorded) < MaxRecords
  /\ PushFrame([type |-> k, alert |-> 0])
  /\ pending' = IF k = "alert" /\ "pcap_upload" \in Kinds
                THEN pending \union {lastId'} ELSE pending
  /\ UNCHANGED <<link, conns, zombie, sender, ackState, up, down, master, faults, stores>>

(* _flush_pending_pcaps_thread: the window of alert a has closed.  Without *)
(* packets in the buffer there is nothing to upload.                       *)
FlushPcap(a) ==
  /\ "pcap_upload" \in Kinds
  /\ a \in pending
  /\ pending' = pending \ {a}
  /\ \/ PushFrame([type |-> "pcap_upload", alert |-> a])
     \/ UNCHANGED <<queue, history>>
  /\ UNCHANGED <<link, conns, zombie, sender, ackState, up, down, master, faults, stores>>
-----------------------------------------------------------------------------
(* The tap's connection: Uplink.run. *)

(* A connection breaks; bounded so that the tap can always come back. *)
MayBreak == conns < MaxConns

Resting == pc' = "top" /\ batch' = Empty /\ idsSent' = {}

(* A new WebSocket: the ack state is reset, the cursor starts at 0, and    *)
(* hello is the first frame.                                               *)
Connect ==
  /\ link = 0 /\ conns < MaxConns
  /\ conns' = conns + 1 /\ link' = conns + 1
  /\ inflight' = {} /\ overdue' = {}
  /\ ackCapable' = "unknown" /\ ackDeadline' = "none"
  /\ Resting /\ cursor' = 0
  /\ up' = [up EXCEPT ![conns + 1] = <<Msg("hello", 0, 0)>>]
  /\ handler' = [handler EXCEPT ![conns + 1] = "open"]
  /\ UNCHANGED <<queue, pending, zombie, down, acked, retry, outstanding, metricHw,
                 faults, stores, history>>

(* Deleting sent frames without a confirmation. *)
Release(ids) ==
  /\ DQ!Ack(ids)
  /\ released' = released \union (ids \intersect DOMAIN rows)

(* Bug: None is taken for False, but without the deletion. *)
BookSentCapableOnly ==
  IF ackCapable = "no"
  THEN Release(idsSent) /\ UNCHANGED <<inflight, overdue>>
  ELSE /\ inflight' = IF ackCapable = "yes" THEN inflight \union idsSent ELSE inflight
       /\ UNCHANGED <<overdue, queue, released>>

(* Book the frames of a finished or broken batch: deleted at once in       *)
(* Alt-Master mode, in flight otherwise.                                   *)
BookSent ==
  IF ackCapable = "no"
  THEN /\ Release(idsSent)
       /\ UNCHANGED <<inflight, overdue>>
  ELSE /\ inflight' = inflight \union idsSent
       /\ overdue' = overdue \ idsSent
       /\ UNCHANGED <<queue, released>>

(* The tap loses the connection (a failed send, a missing heartbeat, a     *)
(* close): what was written may still reach the master, what the master    *)
(* wrote does not reach the tap.  If it is the receiver that fails while    *)
(* the sender has nothing to send, asyncio.gather leaves the sender running.*)
Disconnect ==
  /\ link # 0 /\ MayBreak
  /\ zombie' \in IF pc = "top" THEN {zombie, TRUE} ELSE {zombie}
  /\ link' = 0
  /\ down' = [down EXCEPT ![link] = <<>>]
  /\ BookSent
  /\ Resting /\ cursor' = 0
  /\ UNCHANGED <<pending, conns, ackCapable,
                 ackDeadline, up, master, faults, stores, pushed, trimmed,
                 skipped, abandoned, restarts>>

(* The tap process is restarted: only the table survives. *)
TapRestart ==
  /\ MayBreak /\ zombie' = FALSE
  /\ faults < MaxFaults /\ faults' = faults + 1
  /\ DQ!Restart
  /\ pending' = {} /\ link' = 0
  /\ down' = IF link = 0 THEN down ELSE [down EXCEPT ![link] = <<>>]
  /\ Resting /\ cursor' = 0
  /\ inflight' = {} /\ overdue' = {}
  /\ ackCapable' = "unknown" /\ ackDeadline' = "none"
  /\ UNCHANGED <<conns, up, master, stores, history>>
-----------------------------------------------------------------------------
(* The tap's sender: _send_loop.  From the top of the loop to the first    *)
(* ws.send there is no await, so the checks and the pop are one step.      *)

FallbackDue == ackCapable = "unknown" /\ ackDeadline = "passed"
RedeliverDue == ackCapable = "yes" /\ overdue # {}

(* What pop_batch_after(from) returns on table r. *)
Popped(r, from) ==
  Restrict(r, DQ!Oldest({i \in DOMAIN r : i > from}, BatchSize))

StartBatch(b) ==
  /\ batch' = b
  /\ idsSent' = {}
  /\ pc' = IF b = Empty THEN "top" ELSE "batch"

AtTop == link # 0 /\ pc = "top"

Pop ==
  /\ AtTop /\ ~FallbackDue /\ ~RedeliverDue
  /\ StartBatch(Popped(rows, cursor))
  /\ UNCHANGED <<queue, pending, link, conns, zombie, cursor, ackState, up, down,
                 master, faults, stores, history>>

(* Bug: the cursor is not reset. *)
RedeliverFromCursor ==
  /\ AtTop /\ RedeliverDue
  /\ overdue' = {}
  /\ StartBatch(Popped(rows, cursor))
  /\ UNCHANGED <<queue, pending, link, conns, zombie, cursor, inflight, ackCapable,
                 ackDeadline, up, down, master, faults, stores, history>>

(* _should_redeliver: start over from the head of the queue. *)
Redeliver ==
  /\ AtTop /\ RedeliverDue
  /\ overdue' = {}
  /\ cursor' = 0
  /\ StartBatch(Popped(rows, 0))
  /\ UNCHANGED <<queue, pending, link, conns, zombie, inflight, ackCapable,
                 ackDeadline, up, down, master, faults, stores, history>>

(* _check_ack_fallback: no ack within ACK_TIMEOUT_S, the master is taken   *)
(* for an old one and everything in flight is deleted.                     *)
TakeForOldMaster ==
  /\ FallbackDue
  /\ ackCapable' = "no"
  /\ inflight' = {} /\ overdue' = {}
  /\ Release(inflight)

Fallback ==
  /\ AtTop /\ TakeForOldMaster
  /\ StartBatch(Popped(rows', cursor))
  /\ UNCHANGED <<pending, link, conns, zombie, cursor, ackDeadline, up,
                 down, master, faults, stores, pushed, trimmed, skipped,
                 abandoned, restarts>>

(* Bug: the window is compared with > instead of >=. *)
WindowFullLate(i) ==
  ackCapable # "no" /\ i \notin inflight /\ Cardinality(inflight) > MaxInflight

WindowFull(i) ==
  ackCapable # "no" /\ i \notin inflight /\ Cardinality(inflight) >= MaxInflight

(* Bug: frames are numbered by the sender instead of the table. *)
SendFrameRenumbered ==
  \E i \in First(batch) :
    /\ pc = "batch" /\ ~WindowFull(i) /\ Len(up[link]) < MaxWire
    /\ up' = [up EXCEPT ![link] =
                Append(@, Msg(batch[i].type, cursor + 1, batch[i].alert))]
    /\ batch' = Restrict(batch, DOMAIN batch \ {i})
    /\ idsSent' = idsSent \union {i}
    /\ cursor' = i
    /\ UNCHANGED <<queue, pending, link, conns, zombie, pc, ackState, down, master,
                   faults, stores, history>>

(* One await ws.send: the frame leaves with its seq. *)
SendFrame ==
  \E i \in First(batch) :
    /\ pc = "batch"
    /\ ~WindowFull(i)
    /\ Len(up[link]) < MaxWire
    /\ up' = IF handler[link] = "open"
             THEN [up EXCEPT ![link] = Append(@, Msg(batch[i].type, i, batch[i].alert))]
             ELSE up
    /\ batch' = Restrict(batch, DOMAIN batch \ {i})
    /\ idsSent' = idsSent \union {i}
    /\ cursor' = i
    /\ UNCHANGED <<queue, pending, link, conns, zombie, pc, ackState, down, master,
                   faults, stores, history>>

(* The batch is through, or the window is full: book what was sent. *)
EndBatch ==
  /\ pc = "batch"
  /\ \A i \in First(batch) : WindowFull(i)
  /\ BookSent
  /\ ackDeadline' = IF ackCapable # "no" /\ idsSent # {} /\ ackDeadline = "none"
                    THEN "armed" ELSE ackDeadline
  /\ Resting
  /\ UNCHANGED <<pending, link, conns, zombie, cursor, ackCapable, up,
                 down, master, faults, stores, pushed, trimmed, skipped,
                 abandoned, restarts>>

(* A sender left over from an earlier connection shares the ack state, with *)
(* or without a new connection: it may take the fallback, or use up the    *)
(* redelivery the running sender needed; then it starts over itself and    *)
(* dies on its closed socket, unless there is nothing it may send.         *)
ZombieWakes ==
  /\ zombie
  /\ \/ /\ TakeForOldMaster
        /\ UNCHANGED zombie
     \/ /\ RedeliverDue
        /\ overdue' = {}
        /\ zombie' = \A i \in First(rows) : WindowFull(i)
        /\ UNCHANGED <<queue, inflight, ackCapable, released>>
  /\ UNCHANGED <<pending, link, conns, sender, ackDeadline, up, down, master,
                 faults, stores, pushed, trimmed, skipped,
                 abandoned, restarts>>

ZombieDies ==
  /\ zombie /\ rows # Empty
  /\ zombie' = FALSE
  /\ UNCHANGED <<queue, pending, link, conns, sender, ackState, up, down, master,
                 faults, stores, history>>
-----------------------------------------------------------------------------
(* The tap's receiver: _receive_loop and _handle_ack. *)

Received(c) == down' = [down EXCEPT ![c] = Tail(@)]
Arrives(t) == link # 0 /\ down[link] # <<>> /\ Head(down[link]).type = t

ReceiveHelloAck ==
  /\ Arrives("hello_ack") /\ Received(link)
  /\ ackCapable' = IF ackCapable = "unknown" THEN "yes" ELSE ackCapable
  /\ ackDeadline' = IF ackCapable = "unknown" THEN "none" ELSE ackDeadline
  /\ UNCHANGED <<queue, pending, link, conns, zombie, sender, inflight, overdue,
                 up, master, faults, stores, history>>

ReceiveAck ==
  LET ids == Head(down[link]).seqs
  IN  /\ Arrives("ack") /\ Received(link)
      /\ ackCapable' = "yes"
      /\ inflight' = inflight \ ids
      /\ overdue' = overdue \ ids
      /\ DQ!Ack(ids)
      /\ UNCHANGED <<pending, link, conns, zombie, sender, ackDeadline,
                     up, master, faults, stores, history>>
-----------------------------------------------------------------------------
(* The tap's clock. *)

(* Both timeouts are only looked at by a sender. *)
SenderRuns == link # 0 \/ zombie

(* ACK_TIMEOUT_S after the first send. *)
AckTimeout ==
  /\ SenderRuns /\ ackDeadline = "armed"
  /\ ackDeadline' = "passed"
  /\ UNCHANGED <<queue, pending, link, conns, zombie, sender, inflight, overdue,
                 ackCapable, up, down, master, faults, stores, history>>

(* REDELIVER_AFTER_S without a confirmation. *)
RedeliverAfter ==
  /\ SenderRuns /\ ackCapable = "yes"
  /\ inflight # {}
  /\ overdue' = inflight
  /\ UNCHANGED <<queue, pending, link, conns, zombie, sender, inflight, ackCapable,
                 ackDeadline, up, down, master, faults, stores, history>>
-----------------------------------------------------------------------------
(* The master's handler of connection c: handle_tap. *)

Sees(c, t) == handler[c] = "open" /\ up[c] # <<>> /\ Head(up[c]).type = t
Seq1(c) == Head(up[c]).seq
Taken(c) == up' = [up EXCEPT ![c] = Tail(@)]
Confirm(c, i) == acked' = [acked EXCEPT ![c] = @ \union {i}]
Fault == faults < MaxFaults /\ faults' = faults + 1
ToTap(c, m) == down' = IF link = c THEN [down EXCEPT ![c] = Append(@, m)] ELSE down
Record(c, i, t) == [conn |-> c, seq |-> i, type |-> t]

(* Bug: hello is confirmed like a queued frame, although it has no seq. *)
OnHelloAcked(c) ==
  /\ Sees(c, "hello") /\ Taken(c)
  /\ Confirm(c, Seq1(c))
  /\ UNCHANGED <<queue, tap, down, handler, retry, outstanding, metricHw, faults,
                 stores, history>>

(* hello: an acking master answers hello_ack, once report_version is done. *)
OnHello(c) ==
  /\ Sees(c, "hello") /\ Taken(c)
  /\ IF MasterAcks THEN ToTap(c, HelloAck) ELSE UNCHANGED down
  /\ UNCHANGED <<queue, tap, master, faults, stores, history>>

(* Bug: an alert is confirmed when it is handed to the producer. *)
OnAlertEager(c) ==
  /\ Sees(c, "alert") /\ Taken(c)
  /\ outstanding' = outstanding \union {Record(c, Seq1(c), "alert")}
  /\ Confirm(c, Seq1(c))
  /\ UNCHANGED <<queue, tap, down, handler, retry, metricHw, faults, stores, history>>

(* alert: produced with a delivery callback; if produce raises, the frame  *)
(* is left unconfirmed.                                                    *)
OnAlert(c) ==
  /\ Sees(c, "alert") /\ Taken(c)
  /\ \/ /\ outstanding' = outstanding \union {Record(c, Seq1(c), "alert")}
        /\ UNCHANGED faults
     \/ Fault /\ UNCHANGED outstanding
  /\ UNCHANGED <<queue, tap, down, handler, acked, retry, metricHw, stores, history>>

(* Bug: no high-water mark. *)
OnMetricAlways(c) ==
  /\ Sees(c, "metric") /\ Taken(c)
  /\ outstanding' = outstanding \union {Record(c, Seq1(c), "metric")}
  /\ metricCount' = [metricCount EXCEPT ![Seq1(c)] = @ + 1]
  /\ UNCHANGED <<queue, tap, down, handler, acked, retry, metricHw, faults,
                 alertsRaw, profiles, hostProfile, alertRows, pcaps, history>>

(* metric: seq at or below the high-water mark is confirmed, not produced. *)
OnMetric(c) ==
  LET i == Seq1(c)
  IN  /\ Sees(c, "metric") /\ Taken(c)
      /\ \/ /\ i <= metricHw
            /\ Confirm(c, i)
            /\ skipped' = skipped \union {i}
            /\ UNCHANGED <<outstanding, metricHw, metricCount, faults>>
         \/ /\ i > metricHw
            /\ outstanding' = outstanding \union {Record(c, i, "metric")}
            /\ metricCount' = [metricCount EXCEPT ![i] = @ + 1]
            /\ metricHw' = i
            /\ UNCHANGED <<acked, skipped, faults>>
         \/ /\ i > metricHw /\ Fault
            /\ UNCHANGED <<acked, outstanding, metricHw, metricCount, skipped>>
      /\ UNCHANGED <<queue, tap, down, handler, retry, alertsRaw, profiles,
                     hostProfile, alertRows, pcaps, pushed, trimmed, released, abandoned,
                     restarts>>

(* Bug: the confirmation stands outside the try. *)
OnHostProfileAcked(c) ==
  /\ Sees(c, "host_profile") /\ Taken(c)
  /\ Confirm(c, Seq1(c))
  /\ \/ profiles' = profiles \union {Seq1(c)} /\ hostProfile' = Seq1(c)
     \/ UNCHANGED <<profiles, hostProfile>>
  /\ UNCHANGED <<queue, tap, down, handler, retry, outstanding, metricHw, faults,
                 alertsRaw, metricCount, alertRows, pcaps, history>>

(* host_profile: upserted, then confirmed; a DB error leaves it unconfirmed. *)
OnHostProfile(c) ==
  /\ Sees(c, "host_profile") /\ Taken(c)
  /\ \/ /\ profiles' = profiles \union {Seq1(c)}
        /\ hostProfile' = Seq1(c)
        /\ Confirm(c, Seq1(c))
        /\ UNCHANGED faults
     \/ Fault /\ UNCHANGED <<profiles, hostProfile, acked>>
  /\ UNCHANGED <<queue, tap, down, handler, retry, outstanding, metricHw,
                 alertsRaw, metricCount, alertRows, pcaps, history>>

(* A frame with an unusable payload is confirmed so that it never returns. *)
OnMalformed(c) ==
  /\ Sees(c, "malformed") /\ Taken(c)
  /\ Confirm(c, Seq1(c))
  /\ UNCHANGED <<queue, tap, down, handler, retry, outstanding, metricHw,
                 faults, stores, history>>

(* pcap_upload whose alert row exists: MinIO and the flag, or a MinIO      *)
(* error; confirmed in both cases.                                         *)
OnPcapOwned(c) ==
  LET a == Head(up[c]).alert
  IN  /\ Sees(c, "pcap_upload") /\ a \in alertRows /\ Taken(c)
      /\ \/ /\ pcaps' = pcaps \union {a}
            /\ UNCHANGED <<faults, abandoned>>
         \/ /\ Fault
            /\ abandoned' = abandoned \union {Seq1(c)}
            /\ UNCHANGED pcaps
      /\ Confirm(c, Seq1(c))
      /\ retry' = [retry EXCEPT ![c] = @ \ {a}]
      /\ UNCHANGED <<queue, tap, down, handler, outstanding, metricHw,
                     alertsRaw, metricCount, profiles, hostProfile, alertRows,
                     pushed, trimmed, released, skipped, restarts>>

(* Bug: an upload that overtook its alert is refused for good. *)
OnPcapEarlyAcked(c) ==
  LET a == Head(up[c]).alert
  IN  /\ Sees(c, "pcap_upload") /\ a \notin alertRows /\ Taken(c)
      /\ Confirm(c, Seq1(c))
      /\ UNCHANGED <<queue, tap, down, handler, retry, outstanding, metricHw, faults,
                     stores, history>>

(* The row is not there yet, or the lookup failed: the frame is left       *)
(* unconfirmed and comes again.                                            *)
OnPcapEarly(c) ==
  LET a == Head(up[c]).alert
  IN  /\ Sees(c, "pcap_upload") /\ Taken(c)
      /\ IF a \in alertRows THEN Fault ELSE UNCHANGED faults
      /\ retry' = [retry EXCEPT ![c] = @ \union {a}]
      /\ UNCHANGED <<queue, tap, down, handler, acked, outstanding, metricHw,
                     stores, history>>

(* It has been waited for since PCAP_MAX_WAIT_S on this connection. *)
OnPcapTooLate(c) ==
  LET a == Head(up[c]).alert
  IN  /\ Sees(c, "pcap_upload") /\ a \in retry[c] /\ Taken(c)
      /\ IF a \in alertRows THEN Fault ELSE UNCHANGED faults
      /\ Confirm(c, Seq1(c))
      /\ abandoned' = abandoned \union {Seq1(c)}
      /\ retry' = [retry EXCEPT ![c] = @ \ {a}]
      /\ UNCHANGED <<queue, tap, down, handler, outstanding, metricHw, stores,
                     pushed, trimmed, released, skipped, restarts>>

(* ack_flush_loop: the collected seqs go out in one ack frame. *)
FlushAcks(c) ==
  /\ MasterAcks /\ handler[c] = "open" /\ acked[c] # {}
  /\ Len(down[c]) < MaxWire
  /\ ToTap(c, AckMsg(acked[c]))
  /\ acked' = [acked EXCEPT ![c] = {}]
  /\ UNCHANGED <<queue, tap, up, handler, retry, outstanding, metricHw, faults,
                 stores, history>>

ForgetConn(C) ==
  /\ handler' = [c \in Conns |-> IF c \in C THEN "closed" ELSE handler[c]]
  /\ acked' = [c \in Conns |-> IF c \in C THEN {} ELSE acked[c]]
  /\ retry' = [c \in Conns |-> IF c \in C THEN {} ELSE retry[c]]
  /\ up' = [c \in Conns |-> IF c \in C THEN <<>> ELSE up[c]]

(* The handler of a connection the tap has left ends: at the close, at a   *)
(* read error or after HEARTBEAT_TIMEOUT_S; unread frames are gone.        *)
HandlerEnds(c) ==
  /\ handler[c] = "open" /\ link # c
  /\ ForgetConn({c})
  /\ UNCHANGED <<queue, tap, down, outstanding, metricHw, faults, stores, history>>

(* An exception _mark_pcap_available lets through ends a live handler. *)
MarkRaises(c) ==
  /\ Sees(c, "pcap_upload") /\ Head(up[c]).alert \in alertRows
  /\ Fault /\ MayBreak
  /\ ForgetConn({c})
  /\ UNCHANGED <<queue, tap, down, outstanding, metricHw, stores, history>>

(* The delivery report of a produced record; the callback belongs to the   *)
(* connection that produced it.                                            *)
KafkaReport(r) ==
  /\ outstanding' = outstanding \ {r}
  /\ alertsRaw' = IF r.type = "alert" THEN alertsRaw \union {r.seq} ELSE alertsRaw
  /\ IF handler[r.conn] = "open" THEN Confirm(r.conn, r.seq) ELSE UNCHANGED acked
  /\ UNCHANGED <<queue, tap, up, down, handler, retry, metricHw, faults,
                 metricCount, profiles, hostProfile, alertRows, pcaps, history>>

(* Bug: the callback does not look at err. *)
KafkaErrorAcked(r) ==
  /\ Fault
  /\ outstanding' = outstanding \ {r}
  /\ IF handler[r.conn] = "open" THEN Confirm(r.conn, r.seq) ELSE UNCHANGED acked
  /\ UNCHANGED <<queue, tap, up, down, handler, retry, metricHw, stores, history>>

KafkaError(r) ==
  /\ Fault
  /\ outstanding' = outstanding \ {r}
  /\ UNCHANGED <<queue, tap, up, down, handler, acked, retry, metricHw, stores, history>>

(* master-uplink restarts; what the producer still held may have made it.  *)
MasterRestart ==
  /\ Fault /\ MayBreak
  /\ ForgetConn({c \in Conns : handler[c] = "open"})
  /\ \E S \in SUBSET outstanding :
       alertsRaw' = alertsRaw \union {r.seq : r \in {s \in S : s.type = "alert"}}
  /\ outstanding' = {} /\ metricHw' = 0 /\ restarts' = restarts + 1
  /\ UNCHANGED <<queue, tap, down, metricCount, profiles, hostProfile, alertRows, pcaps,
                 pushed, trimmed, released, skipped, abandoned>>

(* alert-manager persists an alert of the topic, sooner or later or never. *)
PersistAlert(i) ==
  /\ "pcap_upload" \in Kinds     \* nothing else looks at alertRows
  /\ i \in alertsRaw \ alertRows
  /\ alertRows' = alertRows \union {i}
  /\ UNCHANGED <<queue, tap, up, down, master, faults, alertsRaw, metricCount,
                 profiles, hostProfile, pcaps, history>>
-----------------------------------------------------------------------------
Producers == \/ \E k \in Kinds : Consume(k)
             \/ \E a \in pending : FlushPcap(a)

Sender == Pop \/ Redeliver \/ Fallback \/ SendFrame \/ EndBatch
Zombie == ZombieWakes \/ ZombieDies
Receiver == ReceiveHelloAck \/ ReceiveAck
Connection == Connect \/ Disconnect \/ TapRestart
Clock == AckTimeout \/ RedeliverAfter

Serve(c) == \/ OnHello(c) \/ OnAlert(c) \/ OnMetric(c) \/ OnHostProfile(c)
            \/ OnMalformed(c) \/ OnPcapOwned(c) \/ OnPcapEarly(c)
            \/ OnPcapTooLate(c)

Master == \/ \E c \in Conns : \/ Serve(c) \/ FlushAcks(c) \/ HandlerEnds(c)
                              \/ MarkRaises(c)
          \/ \E r \in outstanding : KafkaReport(r) \/ KafkaError(r)
          \/ MasterRestart
          \/ \E i \in alertsRaw : PersistAlert(i)

Next == Producers \/ Sender \/ Zombie \/ Receiver \/ Connection \/ Clock \/ Master

Spec == Init /\ [][Next]_vars

HandlerGone == Disconnect /\ handler[link] # "open"
Reports == \E r \in outstanding : KafkaReport(r) \/ KafkaError(r)

(* Both asyncio loops run for as long as the connection stands, the tap    *)
(* reconnects and notices a dead peer by its heartbeat timeout, the master *)
(* reads, flushes acks every 250 ms and polls the producer, and the clock  *)
(* goes on.  A pcap_upload that is redelivered again and again is sooner   *)
(* or later looked at after PCAP_MAX_WAIT_S.  Nothing has to push frames,  *)
(* lose a connection or persist an alert.                                  *)
Fairness ==
  /\ WF_vars(Sender) /\ WF_vars(Zombie) /\ WF_vars(Receiver)
  /\ WF_vars(Connect) /\ WF_vars(AckTimeout) /\ WF_vars(RedeliverAfter)
  /\ WF_vars(HandlerGone)
  /\ \A c \in Conns : /\ WF_vars(Serve(c)) /\ WF_vars(FlushAcks(c))
                      /\ SF_vars(OnPcapTooLate(c))
  /\ WF_vars(Reports)

FairSpec == Spec /\ Fairness
-----------------------------------------------------------------------------
Up == [type : {"hello"}, seq : {0}, alert : {0}]
        \union [type : FrameKinds, seq : Ids, alert : 0..MaxId]
Down == [type : {"ack", "hello_ack"}, seqs : SUBSET Ids]
Records == [conn : Conns, seq : Ids, type : {"alert", "metric"}]

TapTypeOK ==
  /\ DQ!QueueTypeOK /\ lastId <= MaxId
  /\ pending \subseteq Ids
  /\ conns \in 0..MaxConns /\ link \in 0..conns /\ zombie \in BOOLEAN
  /\ pc \in {"top", "batch"} /\ cursor \in 0..MaxId
  /\ DOMAIN batch \subseteq Ids /\ \A i \in DOMAIN batch : batch[i] \in Frame
  /\ idsSent \subseteq Ids /\ inflight \subseteq Ids /\ overdue \subseteq Ids
  /\ ackCapable \in {"unknown", "yes", "no"}
  /\ ackDeadline \in {"none", "armed", "passed"}

WireTypeOK == up \in [Conns -> Seq(Up)] /\ down \in [Conns -> Seq(Down)]

MasterTypeOK ==
  /\ handler \in [Conns -> {"none", "open", "closed"}]
  /\ acked \in [Conns -> SUBSET Ids] /\ retry \in [Conns -> SUBSET (0..MaxId)]
  /\ outstanding \subseteq Records
  /\ metricHw \in 0..MaxId /\ faults \in 0..MaxFaults
  /\ alertsRaw \subseteq Ids /\ metricCount \in [Ids -> Nat]
  /\ profiles \subseteq Ids /\ hostProfile \in 0..MaxId
  /\ alertRows \subseteq Ids /\ pcaps \subseteq 0..MaxId

HistoryTypeOK ==
  /\ DOMAIN pushed \subseteq Ids /\ \A i \in DOMAIN pushed : pushed[i] \in Frame
  /\ trimmed \subseteq Ids /\ released \subseteq Ids /\ skipped \subseteq Ids
  /\ abandoned \subseteq Ids
  /\ restarts \in Nat

(* The types of the state of both ends. *)
UplinkTypeOK == TapTypeOK /\ WireTypeOK /\ MasterTypeOK /\ HistoryTypeOK

(* Frames the tap deleted because the master confirmed them. *)
Confirmed == DOMAIN pushed \ (DOMAIN rows \union trimmed \union released)

(* What the master has to have done with frame i before it may confirm it. *)
Processed(i) ==
  CASE pushed[i].type = "alert"        -> i \in alertsRaw
    [] pushed[i].type = "metric"       -> metricCount[i] > 0 \/ i \in skipped
    [] pushed[i].type = "host_profile" -> i \in profiles
    [] pushed[i].type = "pcap_upload"  -> \/ pushed[i].alert \in pcaps
                                         \/ i \in abandoned
    [] OTHER                           -> TRUE

Done == {i \in DOMAIN pushed : Processed(i)}

(* No frame is lost between tap and master: one that has left the queue    *)
(* other than through the size cap or the Alt-Master mode has reached its  *)
(* store (alerts-raw, rule-metrics, tap_host_profiles), through every mix  *)
(* of reconnects, redeliveries, Kafka and DB errors and restarts.          *)
NothingLost == Confirmed \subseteq Done

(* Every copy of a frame that is under way, in the table, in the sender's  *)
(* batch, on a wire or with the producer, carries the id its frame was     *)
(* queued under: a confirmation cannot hit another frame's row, whatever   *)
(* the gaps that acks and trims leave in the numbering.                    *)
MatchingUp == {m \in Up : m.type # "hello" =>
                            /\ m.seq \in DOMAIN pushed
                            /\ pushed[m.seq] = [type |-> m.type, alert |-> m.alert]}

CopiesMatch ==
  /\ DOMAIN pushed \subseteq 1..lastId
  /\ \A i \in DOMAIN rows : i \in DOMAIN pushed /\ rows[i] = pushed[i]
  /\ \A i \in DOMAIN batch : i \in DOMAIN pushed /\ batch[i] = pushed[i]
  /\ up \in [Conns -> Seq(MatchingUp)]
  /\ \A r \in outstanding : /\ r.seq \in DOMAIN pushed /\ pushed[r.seq].type = r.type
                            /\ r.type = "metric" => Processed(r.seq)

(* The high-water mark keeps redelivered metrics from being produced twice *)
(* in one life of the master; every restart may add one.                   *)
MetricOncePerLife == \A i \in Ids : metricCount[i] <= 1 + restarts

(* What the send window is worth: the batch that was running when it       *)
(* filled up can overshoot it, but by no more than its own length.         *)
InflightBound ==
  Cardinality(inflight \union idsSent) <= (MaxInflight - 1) + BatchSize

(* The cursor never leaves a frame behind: a row the sender has passed on  *)
(* this connection is in flight or in the running batch, so that an ack or *)
(* the redelivery will get to it.                                          *)
BehindCursorBooked ==
  link # 0 => \A i \in DOMAIN rows : i <= cursor => i \in inflight \union idsSent

(* A confirmation is earned before it is given: whatever the master has    *)
(* noted for the next ack, or has under way in one, it has processed.      *)
AcksAreEarned ==
  \A c \in Conns : /\ acked[c] \subseteq Done
                   /\ down[c] \in Seq({m \in Down : m.seqs \subseteq Done})

(* The uplink implements at-least-once delivery: the abstract module's     *)
(* steps are all a frame ever sees.  A pcap_upload or a malformed frame    *)
(* that needs nothing counts as processed from the start.                  *)
ALO == INSTANCE AtLeastOnce WITH
         MaxFrame  <- MaxId,
         last      <- lastId,
         queued    <- DOMAIN rows,
         processed <- Done,
         given     <- trimmed \union released

DeliversAtLeastOnce == ALO!ASpec

(* The tap's queue drains: once connections, stores and brokers have had   *)
(* their finite number of failures, every frame leaves the queue.          *)
Drains == \A i \in Ids : []<>(i \notin DOMAIN rows)
-----------------------------------------------------------------------------
(* master-uplink/src/main.py:871-875: with an acking master no tap falls   *)
(* back to deleting what was not confirmed.                                *)
NoFalseFallback == MasterAcks => released = {}
=============================================================================
