------------------------------ MODULE MCSensors ------------------------------
(* Instances of the loops that carry packets, alarms and alerts, for TLC: a  *)
(* behaviour is one of the services at work. They share no state in these    *)
(* models, so that interleaving them would add states and no behaviour.  Two *)
(* of the modules are extended, so that their properties are checked under   *)
(* their own names; of the others there are instances.                       *)
EXTENDS Naturals, Sequences, DiskQueue, FlowAggregator

VARIABLE service
VARIABLES
  disk, path, out, lines, torn, cut, fh, tell, eof, blind, handed, repeated,
  rotations, renamed
VARIABLES
  present, thread, capture, packet, shutdown, channel, main, hand, queue,
  broker, captured, parseErrors, dropped, rawOk, pcapOk, kafkaErrors, arrived,
  expired, taken, resent, snifferMishaps
VARIABLES
  uplinkRows, uplinkLastId, uplinkBytes, uplinkPending, link, conns, uplinkPc,
  cursor, zombie, uplinkBatch, idsSent, inflight, overdue, ackCapable,
  ackDeadline, uplinkUp, down, handler, acked, retry, outstanding, metricHw,
  faults, alertsRaw, metricCount, profiles, hostProfile, alertRows,
  uplinkPcaps, pushed, trimmed, released, uplinkSkipped, abandoned, restarts
VARIABLES
  alarms, config, client, irmaToken, irmaPc, irmaBatch, irmaLastId,
  lastIdFile, produced, failures, changes
VARIABLES
  amTopic, amPos, amCommitted, dedup, amPending, amBackoff, db, amDbUp,
  running, amPublished, lost, amDiscarded, ended, outages, cuts, crashes
VARIABLES
  feedToken, sockets, ws, timer, connected, shown, feedRows, feedPcaps,
  feedPublished, outbox, announced, feedMishaps

MCPayload == {"short", "long"}
MCLength == [p \in MCPayload |-> IF p = "short" THEN 1 ELSE 3]

(* A packet of the TCP connection "t" or the UDP one "u", sent by end e. *)
OnWire(c, e, proto, flags) ==
  [conn |-> c, from |-> e, proto |-> proto, flags |-> flags, icmp |-> "none"]
Tcp(e, flags) == OnWire("t", e, "tcp", flags)
Udp(e) == OnWire("u", e, "udp", {})
Syn == Tcp("a", {"SYN"})
SynAck == Tcp("b", {"SYN", "ACK"})
FinA == Tcp("a", {"FIN", "ACK"})
FinB == Tcp("b", {"FIN", "ACK"})
Rst == Tcp("b", {"RST"})
MCCaptures ==
  {<<Syn, SynAck, FinA, FinB>>, <<SynAck, FinA, FinA>>, <<FinB, Rst, Udp("b")>>,
   <<Udp("a"), Tcp("b", {"ACK"}), Rst>>,
   <<Rst, OnWire("u", "a", "junk", {}), Rst, Rst>>}
MCFlowPrivate == [c \in {"t", "u"} |-> [e \in {"a", "b"} |-> c = "t" /\ e = "a"]]
MCFlowPort == [c \in {"t", "u"} |-> [e \in {"a", "b"} |-> IF e = "a" THEN 2000 ELSE 1999]]

MCFrameLength ==
  [k \in {"alert", "metric", "host_profile", "pcap_upload", "malformed"} |-> 1]

MCDedupKey == [a \in {"local", "bad", "test"} |-> a]

tailState ==
  <<disk, path, out, lines, torn, cut, fh, tell, eof, blind, handed, repeated,
    rotations, renamed>>
snifferState ==
  <<present, thread, capture, packet, shutdown, channel, main, hand, queue,
    broker, captured, parseErrors, dropped, rawOk, pcapOk, kafkaErrors,
    arrived, expired, taken, resent, snifferMishaps>>
uplinkState ==
  <<uplinkRows, uplinkLastId, uplinkBytes, uplinkPending, link, conns,
    uplinkPc, cursor, zombie, uplinkBatch, idsSent, inflight, overdue,
    ackCapable, ackDeadline, uplinkUp, down, handler, acked, retry,
    outstanding, metricHw, faults, alertsRaw, metricCount, profiles,
    hostProfile, alertRows, uplinkPcaps, pushed, trimmed, released,
    uplinkSkipped, abandoned, restarts>>
irmaState ==
  <<alarms, config, client, irmaToken, irmaPc, irmaBatch, irmaLastId,
    lastIdFile, produced, failures, changes>>
amState ==
  <<amTopic, amPos, amCommitted, dedup, amPending, amBackoff, db, amDbUp,
    running, amPublished, lost, amDiscarded, ended, outages, cuts, crashes>>
feedState ==
  <<feedToken, sockets, ws, timer, connected, shown, feedRows, feedPcaps,
    feedPublished, outbox, announced, feedMishaps>>

TailOf == INSTANCE EveTail WITH
  MaxLines <- 3, MaxRotations <- 2
SnifferOf == INSTANCE Sniffer WITH
  Interfaces <- {"mirror", "veth"}, Mirror <- "mirror", Capacity <- 1,
  QueueMax <- 1, MaxPackets <- 1, MaxMishaps <- 1, mishaps <- snifferMishaps
UplinkOf == INSTANCE Uplink WITH
  Kinds <- {"alert"}, FrameLength <- MCFrameLength, MaxBytes <- 9,
  TrimBatch <- 1, MaxId <- 1, MaxRecords <- 1, BatchSize <- 1,
  MaxInflight <- 2, MaxConns <- 2, MaxWire <- 1, MaxFaults <- 1,
  MasterAcks <- TRUE, rows <- uplinkRows, lastId <- uplinkLastId,
  bytes <- uplinkBytes, pending <- uplinkPending, pc <- uplinkPc,
  batch <- uplinkBatch, up <- uplinkUp, pcaps <- uplinkPcaps,
  skipped <- uplinkSkipped
IrmaOf == INSTANCE IrmaBridge WITH
  Sites <- {"A", "B"}, MaxAlarms <- 2, MaxChanges <- 1, MaxFailures <- 1,
  token <- irmaToken, pc <- irmaPc, batch <- irmaBatch, lastId <- irmaLastId
AmOf == INSTANCE AlertManager WITH
  Alert <- {"local", "bad", "test"}, WithId <- {}, DedupKey <- MCDedupKey,
  Test <- {"test"}, Ignored <- {}, Unusable <- {}, Defective <- {"bad"},
  MaxPending <- 2, MaxTopic <- 3, MaxExpiry <- 0, MaxOutage <- 1,
  MaxFault <- 0, MaxCrash <- 1, topic <- amTopic, pos <- amPos,
  committed <- amCommitted, pending <- amPending, backoff <- amBackoff,
  dbUp <- amDbUp, published <- amPublished, discarded <- amDiscarded
FeedOf == INSTANCE LiveFeed WITH
  NAlerts <- 1, Window <- 1, MaxMishaps <- 1, token <- feedToken,
  rows <- feedRows, pcaps <- feedPcaps, published <- feedPublished,
  mishaps <- feedMishaps
ASSUME TailOf!EveTailAssumption
ASSUME SnifferOf!SnifferAssumption
ASSUME UplinkOf!UplinkAssumption
ASSUME IrmaOf!IrmaAssumption
ASSUME FlowAssumption
ASSUME AmOf!AlertManagerAssumption
ASSUME FeedOf!LiveFeedAssumption

Services == {"outage buffer", "eve tail", "sniffer", "uplink", "irma", "flow",
  "alert buffer", "live feed"}

(* The services a behaviour does not pick stay in one initial state. *)
Init ==
  /\ service \in Services
  /\ QueueInit
  /\ TailOf!TailInit
  /\ service # "eve tail" => path = 0
  /\ SnifferOf!SnifferInit
  /\ service # "sniffer" => present = {"mirror"}
  /\ UplinkOf!Init
  /\ IrmaOf!IrmaInit
  /\ service # "irma" => config = "A"
  /\ FlowInit
  /\ AmOf!Init
  /\ FeedOf!FeedInit
  /\ service # "live feed" => ~feedToken

QueueRuns ==
  /\ service = "outage buffer" /\ QueueNext
  /\ UNCHANGED <<service, tailState, snifferState, uplinkState, irmaState, flowVars,
       amState, feedState>>
TailRuns ==
  /\ service = "eve tail" /\ TailOf!TailNext
  /\ UNCHANGED <<service, queueVars, snifferState, uplinkState, irmaState, flowVars,
       amState, feedState>>
SnifferRuns ==
  /\ service = "sniffer" /\ SnifferOf!SnifferNext
  /\ UNCHANGED <<service, queueVars, tailState, uplinkState, irmaState, flowVars,
       amState, feedState>>
UplinkRuns ==
  /\ service = "uplink" /\ UplinkOf!Next
  /\ UNCHANGED <<service, queueVars, tailState, snifferState, irmaState, flowVars,
       amState, feedState>>
IrmaRuns ==
  /\ service = "irma" /\ IrmaOf!IrmaNext
  /\ UNCHANGED <<service, queueVars, tailState, snifferState, uplinkState, flowVars,
       amState, feedState>>
FlowRuns ==
  /\ service = "flow" /\ FlowNext
  /\ UNCHANGED <<service, queueVars, tailState, snifferState, uplinkState, irmaState,
       amState, feedState>>
AmRuns ==
  /\ service = "alert buffer" /\ AmOf!Next
  /\ UNCHANGED <<service, queueVars, tailState, snifferState, uplinkState, irmaState,
       flowVars, feedState>>
FeedRuns ==
  /\ service = "live feed" /\ FeedOf!FeedNext
  /\ UNCHANGED <<service, queueVars, tailState, snifferState, uplinkState, irmaState,
       flowVars, amState>>
all == <<service, queueVars, tailState, snifferState, uplinkState, irmaState,
         flowVars, amState, feedState>>

RunNext ==
  \/ QueueRuns
  \/ TailRuns
  \/ SnifferRuns
  \/ UplinkRuns
  \/ IrmaRuns
  \/ FlowRuns
  \/ AmRuns
  \/ FeedRuns

(* The fairness each service states for itself, while it is the one picked. *)
RunFairness ==
  /\ WF_tailState(service = "eve tail" /\ TailOf!Open)
  /\ WF_tailState(service = "eve tail" /\ TailOf!ReadLine)
  /\ WF_tailState(service = "eve tail" /\ TailOf!ReadNothing)
  /\ WF_tailState(service = "eve tail" /\ TailOf!CheckFile)
  /\ \A i \in {"mirror", "veth"} :
       WF_snifferState(service = "sniffer" /\ SnifferOf!Captures(i))
  /\ WF_snifferState(service = "sniffer" /\ SnifferOf!Publishes)
  /\ WF_snifferState(service = "sniffer" /\ SnifferOf!EndsRecord)
  /\ WF_uplinkState(service = "uplink" /\ UplinkOf!Sender)
  /\ WF_uplinkState(service = "uplink" /\ UplinkOf!Zombie)
  /\ WF_uplinkState(service = "uplink" /\ UplinkOf!Receiver)
  /\ WF_uplinkState(service = "uplink" /\ UplinkOf!Connect)
  /\ WF_uplinkState(service = "uplink" /\ UplinkOf!AckTimeout)
  /\ WF_uplinkState(service = "uplink" /\ UplinkOf!RedeliverAfter)
  /\ WF_uplinkState(service = "uplink" /\ UplinkOf!HandlerGone)
  /\ \A c \in 1..2 : WF_uplinkState(service = "uplink" /\ UplinkOf!Serve(c))
  /\ \A c \in 1..2 :
       WF_uplinkState(service = "uplink" /\ UplinkOf!FlushAcks(c))
  /\ \A c \in 1..2 :
       SF_uplinkState(service = "uplink" /\ UplinkOf!OnPcapTooLate(c))
  /\ WF_uplinkState(service = "uplink" /\ UplinkOf!Reports)
  /\ WF_irmaState(service = "irma" /\ IrmaOf!RefreshConfig)
  /\ WF_irmaState(service = "irma" /\ IrmaOf!Poll)
  /\ WF_irmaState(service = "irma" /\ IrmaOf!Produce)
  /\ WF_irmaState(service = "irma" /\ IrmaOf!Save)
  /\ WF_irmaState(service = "irma" /\ IrmaOf!Restart)
  /\ WF_pos(service = "flow" /\ NextPacketRead)
  /\ \A c \in {"t", "u"} : WF_live(service = "flow" /\ LeavesMemory(c))
  /\ WF_up(service = "flow" /\ Starts)
  /\ WF_dbUp(service = "flow" /\ DbReturns)
  /\ WF_amState(service = "alert buffer" /\ AmOf!Process)
  /\ WF_amState(service = "alert buffer" /\ AmOf!PeriodicFlush)
  /\ WF_amState(service = "alert buffer" /\ AmOf!BackoffOver)
  /\ WF_amState(service = "alert buffer" /\ AmOf!Start)
  /\ WF_amState(service = "alert buffer" /\ AmOf!DbUp)
  /\ WF_feedState(service = "live feed" /\ FeedOf!TimerFires)
  /\ WF_feedState(service = "live feed" /\ FeedOf!Watchdog)
  /\ \A s \in 1..2 :
       WF_feedState(service = "live feed" /\ FeedOf!FeedSocket(s))

RunSpec == Init /\ [][RunNext]_all /\ RunFairness
-----------------------------------------------------------------------------
(* The lines of eve.json are handed on in their order, none is skipped but   *)
(* those of a file that was gone before it was opened again, and the tail    *)
(* catches up after every rotation. The sniffer ends at a signal and         *)
(* captures again an interface that comes back.                              *)
CaptureOK ==
  /\ [](service = "eve tail" =>
       /\ TailOf!TailTypeOK
       /\ TailOf!OrderedOnce
       /\ TailOf!NoLineSkipped)
  /\ TailOf!CatchesUp
  /\ SnifferOf!ShutdownEnds
  /\ SnifferOf!CaptureReturns

(* An alert leaves the queue of the tap in spite of a lost connection and a  *)
(* fault. The buffer of alert-manager empties once the database answers      *)
(* again. Every packet that flow-aggregator reads is published in a flow.    *)
(* The page has a live feed again after every failure of its socket, and     *)
(* says so.                                                                  *)
SensorsProgress ==
  /\ UplinkOf!Drains
  /\ PacketsGetPublished
  /\ AmOf!BufferDrains
  /\ FeedOf!FeedRecovers

(* irma-bridge never moves its cursor past an alarm it has not produced,     *)
(* produces one again only for a cause, and every alarm of the appliance in  *)
(* use arrives.                                                              *)
IrmaBridgeOK ==
  /\ [](service = "irma" =>
       /\ IrmaOf!IrmaTypeOK
       /\ IrmaOf!CursorBehindProduced
       /\ IrmaOf!RepeatsHaveCause)
  /\ IrmaOf!AlarmsArrive

=============================================================================
