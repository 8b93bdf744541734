-------------------------------- MODULE Sniffer --------------------------------
(***************************************************************************)
(* sniffer (main.rs, capture.rs, publisher.rs): one thread per interface   *)
(* captures packets into a bounded channel, the main thread takes them out *)
(* and hands each to the Kafka producer twice, for raw-packets and for     *)
(* pcap-headers.  The process ends when every capture thread has dropped   *)
(* its end of the channel.  The interfaces but the mirror may come and go. *)
(*                                                                         *)
(* A packet is its interface and a number.  The producer gives every       *)
(* record up or delivers it within message.timeout.ms, half of what the    *)
(* last flush waits, so that the flush cannot fail.                        *)
(***************************************************************************)
EXTENDS Naturals, Sequences, FiniteSets

CONSTANTS
  Interfaces, Mirror,
  Capacity,                          \* channel_capacity
  QueueMax,                          \* queue.buffering.max.messages
  MaxPackets, MaxMishaps             \* bounds

SnifferAssumption ==
  /\ Mirror \in Interfaces
  /\ {Capacity, QueueMax} \subseteq Nat \ {0} /\ {MaxPackets, MaxMishaps} \subseteq Nat

Extra == Interfaces \ {Mirror}
Nothing == <<>>

VARIABLES
  present,    \* interfaces there are
  thread,     \* capture thread: "opening", "asleep", "top", "reading", "sending", "ended"
  capture,    \* its capture: "none", "open", or "broken" when the interface has gone
  packet,     \* the parsed packet it holds
  shutdown,   \* the flag of the signal handler
  channel,
  main,       \* publisher: "receiving", "raw", "pcap", "flushing", "ended"
  hand,       \* the packet it has received
  queue,      \* records the producer has accepted
  broker,     \* whether Kafka answers
  captured, parseErrors, dropped, rawOk, pcapOk, kafkaErrors,     \* Stats
  arrived,    \* packets on raw-packets, in their order (history)
  expired,    \* records the producer gave up (history)
  taken,      \* packets captured since the first start (history)
  resent,     \* a record was sent again (history)
  mishaps

snifferVars == <<present, thread, capture, packet, shutdown, channel, main, hand, queue, broker,
                 captured, parseErrors, dropped, rawOk, pcapOk, kafkaErrors, arrived, expired,
                 taken, resent, mishaps>>
threads == <<thread, capture, packet>>
publisher == <<main, hand>>
stats == <<captured, parseErrors, dropped, rawOk, pcapOk, kafkaErrors>>
kafka == <<queue, broker, arrived, expired, resent>>

Started ==
  /\ thread' = [i \in Interfaces |-> "opening"] /\ capture' = [i \in Interfaces |-> "none"]
  /\ packet' = [i \in Interfaces |-> Nothing] /\ shutdown' = FALSE
  /\ channel' = <<>> /\ main' = "receiving" /\ hand' = Nothing /\ queue' = <<>>
  /\ captured' = 0 /\ parseErrors' = 0 /\ dropped' = 0
  /\ rawOk' = 0 /\ pcapOk' = 0 /\ kafkaErrors' = 0

SnifferInit ==
  /\ \E extras \in SUBSET Extra : present = {Mirror} \cup extras
  /\ thread = [i \in Interfaces |-> "opening"] /\ capture = [i \in Interfaces |-> "none"]
  /\ packet = [i \in Interfaces |-> Nothing] /\ shutdown = FALSE
  /\ channel = <<>> /\ main = "receiving" /\ hand = Nothing /\ queue = <<>> /\ broker = TRUE
  /\ captured = 0 /\ parseErrors = 0 /\ dropped = 0 /\ rawOk = 0 /\ pcapOk = 0 /\ kafkaErrors = 0
  /\ arrived = <<>> /\ expired = 0 /\ taken = 0 /\ resent = FALSE /\ mishaps = 0

-----------------------------------------------------------------------------
(* The capture threads.                                                    *)

Goto(i, state) == thread' = [thread EXCEPT ![i] = state]

\* from_device and open, the first time or again; only the extra interfaces
\* are waited for.
OpenCapture(i) ==
  /\ thread[i] = "opening"
  /\ \/ /\ i \in present /\ Goto(i, "top")
        /\ capture' = [capture EXCEPT ![i] = "open"]
     \/ /\ i \notin present /\ Goto(i, IF i \in Extra THEN "asleep" ELSE "ended")
        /\ UNCHANGED capture
  /\ UNCHANGED <<present, packet, shutdown, channel, publisher, stats, kafka, taken, mishaps>>

\* The 5 s before another attempt are over.
Awake(i) ==
  /\ thread[i] = "asleep" /\ Goto(i, IF shutdown THEN "ended" ELSE "opening")
  /\ UNCHANGED <<present, capture, packet, shutdown, channel, publisher, stats, kafka, taken,
                 mishaps>>

CheckShutdown(i) ==
  /\ thread[i] = "top" /\ Goto(i, IF shutdown THEN "ended" ELSE "reading")
  /\ UNCHANGED <<present, capture, packet, shutdown, channel, publisher, stats, kafka, taken,
                 mishaps>>

\* next_packet finds a packet, which parses or does not.
NextPacket(i) ==
  /\ thread[i] = "reading" /\ capture[i] = "open" /\ taken < MaxPackets
  /\ taken' = taken + 1 /\ captured' = captured + 1
  /\ \/ /\ parseErrors' = parseErrors + 1 /\ Goto(i, "top") /\ UNCHANGED packet
     \/ /\ Goto(i, "sending") /\ packet' = [packet EXCEPT ![i] = <<i, taken'>>]
        /\ UNCHANGED parseErrors
  /\ UNCHANGED <<present, capture, shutdown, channel, publisher, dropped, rawOk, pcapOk,
                 kafkaErrors, kafka, mishaps>>

\* No packet for a second.
NoPacket(i) ==
  /\ thread[i] = "reading" /\ capture[i] = "open" /\ Goto(i, "top")
  /\ UNCHANGED <<present, capture, packet, shutdown, channel, publisher, stats, kafka, taken,
                 mishaps>>

\* Bug: what is waited for at the start is not waited for later.
AfterErrorEnd(i) == "ended"

AfterError(i) == IF i \in Extra THEN "asleep" ELSE "ended"

\* next_packet fails: the interface has gone.
CaptureError(i) ==
  /\ thread[i] = "reading" /\ capture[i] = "broken" /\ Goto(i, AfterError(i))
  /\ capture' = [capture EXCEPT ![i] = "none"]
  /\ UNCHANGED <<present, packet, shutdown, channel, publisher, stats, kafka, taken, mishaps>>

\* Bug: a packet that does not fit displaces the oldest, uncounted.
SentDisplacing(p) == IF Len(channel) < Capacity THEN Append(channel, p) ELSE Append(Tail(channel), p)

\* try_send never waits.
Sent(p) == IF Len(channel) < Capacity THEN Append(channel, p) ELSE channel

TrySend(i) ==
  /\ thread[i] = "sending" /\ Goto(i, "top")
  /\ channel' = Sent(packet[i]) /\ packet' = [packet EXCEPT ![i] = Nothing]
  /\ dropped' = IF channel' = channel THEN dropped + 1 ELSE dropped
  /\ UNCHANGED <<present, capture, shutdown, publisher, captured, parseErrors, rawOk, pcapOk,
                 kafkaErrors, kafka, taken, mishaps>>

-----------------------------------------------------------------------------
(* The publisher.                                                          *)

Receive ==
  /\ main = "receiving" /\ channel # <<>>
  /\ main' = "raw" /\ hand' = Head(channel) /\ channel' = Tail(channel)
  /\ UNCHANGED <<present, threads, shutdown, stats, kafka, taken, mishaps>>

\* The producer takes a record unless its queue is full.
Produce(topic) ==
  queue' = IF Len(queue) < QueueMax THEN Append(queue, <<topic, hand>>) ELSE queue

PublishRaw ==
  /\ main = "raw" /\ main' = "pcap" /\ Produce("raw-packets")
  /\ IF queue' # queue THEN rawOk' = rawOk + 1 /\ UNCHANGED kafkaErrors
     ELSE kafkaErrors' = kafkaErrors + 1 /\ UNCHANGED rawOk
  /\ UNCHANGED <<present, threads, shutdown, channel, hand, broker, captured, parseErrors, dropped,
                 pcapOk, arrived, expired, taken, resent, mishaps>>

PublishPcap ==
  /\ main = "pcap" /\ main' = "receiving" /\ hand' = Nothing /\ Produce("pcap-headers")
  /\ pcapOk' = IF queue' # queue THEN pcapOk + 1 ELSE pcapOk
  /\ UNCHANGED <<present, threads, shutdown, channel, broker, captured, parseErrors, dropped,
                 rawOk, kafkaErrors, arrived, expired, taken, resent, mishaps>>

\* Bug: main keeps its own end of the channel.
NeverDisconnected == FALSE

\* Bug: the publisher leaves when the signal comes.
DisconnectedAtSignal == shutdown

\* recv_timeout reports a channel that is empty and has no sender left.
Disconnected == channel = <<>> /\ \A i \in Interfaces : thread[i] = "ended"

ChannelClosed ==
  /\ main = "receiving" /\ Disconnected /\ main' = "flushing"
  /\ UNCHANGED <<present, threads, shutdown, channel, hand, stats, kafka, taken, mishaps>>

\* The flush is over and the process with it.
Flushed ==
  /\ main = "flushing" /\ queue = <<>> /\ main' = "ended"
  /\ UNCHANGED <<present, threads, shutdown, channel, hand, stats, kafka, taken, mishaps>>

-----------------------------------------------------------------------------
(* librdkafka, the broker, the interfaces, signals and Docker.             *)

Gone(n) == SubSeq(queue, 1, n - 1) \o SubSeq(queue, n + 1, Len(queue))

Arrives(record) ==
  arrived' = IF record[1] = "raw-packets" THEN Append(arrived, record[2]) ELSE arrived

\* A record is delivered, the oldest first, ...
Deliver ==
  /\ broker /\ queue # <<>> /\ Arrives(Head(queue)) /\ queue' = Gone(1)
  /\ UNCHANGED <<present, threads, shutdown, channel, publisher, broker, stats, expired, taken,
                 resent, mishaps>>

\* ... ahead of an older one that has to be sent again, or without its answer,
\* so that it is sent again itself ...
DeliverAgain ==
  /\ broker /\ mishaps < MaxMishaps /\ mishaps' = mishaps + 1 /\ resent' = TRUE
  /\ \/ Len(queue) > 1 /\ Arrives(queue[2]) /\ queue' = Gone(2)
     \/ queue # <<>> /\ Arrives(Head(queue)) /\ UNCHANGED queue
  /\ UNCHANGED <<present, threads, shutdown, channel, publisher, broker, stats, expired, taken>>

\* ... or given up after message.timeout.ms.
Expire ==
  /\ ~broker /\ queue # <<>> /\ queue' = Gone(1) /\ expired' = expired + 1
  /\ UNCHANGED <<present, threads, shutdown, channel, publisher, broker, stats, arrived, taken,
                 resent, mishaps>>

BrokerSwitch ==
  /\ broker => mishaps < MaxMishaps
  /\ broker' = ~broker /\ mishaps' = IF broker THEN mishaps + 1 ELSE mishaps
  /\ UNCHANGED <<present, threads, shutdown, channel, publisher, queue, stats, arrived, expired,
                 taken, resent>>

Vanish(i) ==
  /\ i \in present /\ mishaps < MaxMishaps /\ mishaps' = mishaps + 1
  /\ present' = present \ {i}
  /\ capture' = [capture EXCEPT ![i] = IF @ = "open" THEN "broken" ELSE @]
  /\ UNCHANGED <<thread, packet, shutdown, channel, publisher, stats, kafka, taken>>

Appear(i) ==
  /\ i \notin present /\ present' = present \cup {i}
  /\ UNCHANGED <<threads, shutdown, channel, publisher, stats, kafka, taken, mishaps>>

Signal ==
  /\ main # "ended" /\ ~shutdown /\ shutdown' = TRUE
  /\ UNCHANGED <<present, threads, channel, publisher, stats, kafka, taken, mishaps>>

\* Docker starts the container again, or the operator does.
Restart ==
  /\ main = "ended" /\ Started
  /\ UNCHANGED <<present, broker, arrived, expired, taken, resent, mishaps>>

Captures(i) ==
  \/ OpenCapture(i) \/ Awake(i) \/ CheckShutdown(i) \/ NextPacket(i) \/ NoPacket(i)
  \/ CaptureError(i) \/ TrySend(i)
Publishes == Receive \/ PublishRaw \/ PublishPcap \/ ChannelClosed \/ Flushed
EndsRecord == Deliver \/ Expire

SnifferNext ==
  \/ \E i \in Interfaces : Captures(i)
  \/ Publishes \/ EndsRecord \/ DeliverAgain
  \/ BrokerSwitch \/ Signal \/ Restart
  \/ \E i \in Interfaces : Vanish(i) \/ Appear(i)

SnifferSpec == SnifferInit /\ [][SnifferNext]_snifferVars

\* Threads run, next_packet returns within a second, records end.
SnifferFairness ==
  /\ \A i \in Interfaces : WF_threads(Captures(i))
  /\ WF_publisher(Publishes) /\ WF_queue(EndsRecord)

-----------------------------------------------------------------------------
(* Properties.                                                             *)

SnifferTypeOK ==
  /\ present \subseteq Interfaces
  /\ thread \in [Interfaces -> {"opening", "asleep", "top", "reading", "sending", "ended"}]
  /\ capture \in [Interfaces -> {"none", "open", "broken"}]
  /\ \A i \in Interfaces : packet[i] # Nothing <=> thread[i] = "sending"
  /\ Len(channel) <= Capacity /\ Len(queue) <= QueueMax
  /\ main \in {"receiving", "raw", "pcap", "flushing", "ended"}

Holding == {i \in Interfaces : packet[i] # Nothing}

\* Every packet captured is counted once or is on its way: no thread loses one
\* without saying so, whatever the others do (stats.rs).
CapturesAccounted ==
  captured = parseErrors + dropped + Cardinality(Holding) + Len(channel)
               + (IF main = "raw" THEN 1 ELSE 0) + rawOk + kafkaErrors

\* When the process ends, at a signal or for want of an interface, nothing is
\* left in the channel or with the producer.
StopsEmpty == main = "ended" => channel = <<>> /\ queue = <<>> /\ Holding = {}

\* Unless a record is sent again, the packets of an interface lie on
\* raw-packets in the order of their capture and none twice, however the
\* threads interleave and whatever expires: flow-aggregator relies on it.
InOrder ==
  resent \/ \A j, k \in DOMAIN arrived :
    j < k /\ arrived[j][1] = arrived[k][1] => arrived[j][2] < arrived[k][2]

\* The process ends at a signal although threads wait for interfaces.
ShutdownEnds == shutdown ~> main = "ended"

\* An extra interface that stays is captured again, however often it went.
CaptureReturns ==
  \A i \in Extra : []<>(i \notin present \/ shutdown \/ capture[i] = "open")

\* main.rs:79: the process ends when the mirror interface is not there
\* ("Hard-Fail wenn weg"); with an extra interface only its thread does.
MirrorGoneEnds == []<>(main = "ended" \/ thread[Mirror] # "ended")

=============================================================================
