--------------------------- MODULE FlowAggregator ---------------------------
(***************************************************************************)
(* flow-aggregator: packets from the topic raw-packets become flows, which *)
(* go to the topic flows and, through a buffer, to the flows table         *)
(* (flow.py, publisher.py, main.py; master mode, where a DSN is            *)
(* configured).  The process is one thread, so one turn of its main loop   *)
(* is one action; around it are the database, which comes and goes, and    *)
(* the restarts.                                                           *)
(*                                                                         *)
(* A packet is identified by its offset in the topic.  Statistics are left *)
(* out: of a flow we keep the packets in it.  A flow gets its number when  *)
(* it is published (the code draws a uuid at its first packet).            *)
(***************************************************************************)
EXTENDS Integers, FiniteSets, Sequences, SequencesExt

CONSTANTS
  FlowKeys,        \* canonical 5-tuples, the keys of FlowAggregator._flows
  Sightings,     \* what the sniffer may see: a set of sequences of packets
  Private,      \* Private[c][e]: the address of end e is private
  Port,         \* Port[c][e], NoPort for a protocol without ports
  Poison,       \* flows of these connections make rows the database refuses
  BatchSize, MaxPending,                               \* limits of the code
  MaxMishaps    \* bound: outages, failing calls and ends of the process

Ends == {"a", "b"}
NoPort == -1
NoOffset == -1
Other(e) == IF e = "a" THEN "b" ELSE "a"
WellKnown == 1024

\* proto "junk": not parsable, or not IP, and therefore of no flow
Packet == [conn: FlowKeys, from: Ends, proto: {"tcp", "udp", "icmp", "other", "junk"},
           flags: SUBSET {"SYN", "ACK", "FIN", "RST"},
           icmp: {"none", "request", "reply", "error"}]

\* A 5-tuple names one protocol, which has ports at both ends or at neither.
FlowAssumption ==
  /\ IsFiniteSet(FlowKeys) /\ Poison \subseteq FlowKeys
  /\ Sightings \subseteq Seq(Packet)
  /\ \A seen \in Sightings : \A i, j \in DOMAIN seen :
       seen[i].conn = seen[j].conn /\ "junk" \notin {seen[i].proto, seen[j].proto}
         => seen[i].proto = seen[j].proto
  /\ Private \in [FlowKeys -> [Ends -> BOOLEAN]]
  /\ Port \in [FlowKeys -> [Ends -> Nat \cup {NoPort}]]
  /\ \A c \in FlowKeys : Port[c]["a"] = NoPort <=> Port[c]["b"] = NoPort
  /\ BatchSize \in Nat \ {0} /\ MaxPending \in Nat \ {0}
  /\ MaxMishaps \in Nat

VARIABLES
  topic,        \* raw-packets
  up, pos, committed, start,     \* the process, its position, the committed
                                 \* offset, and where this run began to read
  live,         \* _flows: connection -> flow
  records,      \* every flow published, in order (history)
  first,        \* number of the first record of this run (history)
  kafka,        \* records in the topic flows
  pending,      \* _pending_db
  stored,       \* the flows table: record -> how many rows
  dbUp, conn, backoff,   \* the database; _conn open?; inside _db_backoff_until?
  crashed, skipped, overflowed, discarded, gone,    \* history: packets of live
                \* flows lost in a crash, packets skipped by "latest", records
                \* given up at MAX_PENDING, with a poison batch, at the exit
  failed,       \* records Kafka did not take (history)
  mishaps       \* how many there were

dbVars == <<pending, stored, conn, backoff, overflowed, discarded>>
flowVars == <<topic, up, pos, committed, start, live, records, first, kafka, dbVars,
              dbUp, crashed, skipped, gone, failed, mishaps>>

FlowInit ==
  /\ topic = <<>> /\ up = TRUE /\ pos = 0 /\ committed = NoOffset /\ start = 0
  /\ live = <<>> /\ records = <<>> /\ first = 1 /\ kafka = {} /\ pending = <<>>
  /\ stored = <<>> /\ dbUp = TRUE /\ conn = TRUE /\ backoff = FALSE
  /\ crashed = {} /\ skipped = {} /\ overflowed = {} /\ discarded = {}
  /\ gone = {} /\ failed = {} /\ mishaps = 0

-----------------------------------------------------------------------------
(* One flow.                                                               *)

\* Bug: the port heuristic looks at the sender's port alone.
ClientSenderPort(p) ==
  LET s == p.from  o == Other(p.from)  IN
  CASE "SYN" \in p.flags -> IF "ACK" \in p.flags THEN o ELSE s
    [] "SYN" \notin p.flags /\ p.icmp = "reply" -> o
    [] p.icmp \in {"request", "error"} -> s
    [] OTHER -> IF Private[p.conn][s] # Private[p.conn][o]
                  THEN IF Private[p.conn][s] THEN s ELSE o
                  ELSE IF Port[p.conn][s] \in 0..(WellKnown - 1) THEN o ELSE s

\* _decide_direction: the end taken for the client, from the first packet.
Client(p) ==
  LET s == p.from
      o == Other(p.from)
      private == Private[p.conn]
      port == Port[p.conn]
      wellKnown == [e \in Ends |-> port[e] < WellKnown]
  IN  CASE "SYN" \in p.flags -> IF "ACK" \in p.flags THEN o ELSE s
        [] "SYN" \notin p.flags /\ p.icmp = "reply" -> o
        [] p.icmp \in {"request", "error"} -> s
        [] OTHER ->
             IF private[s] # private[o] THEN CHOOSE e \in Ends : private[e]
             ELSE IF NoPort \in {port[s], port[o]} THEN s
             ELSE IF wellKnown[s] # wellKnown[o] THEN CHOOSE e \in Ends : ~wellKnown[e]
             ELSE IF port[s] < port[o] THEN o ELSE s

\* Bug: a FIN counts whatever was seen before.
ConnStateAnyFin(state, p) ==
  CASE p.proto # "tcp" -> "ESTABLISHED"
    [] "RST" \in p.flags -> "RESET"
    [] "FIN" \in p.flags -> IF state = "FIN_WAIT" THEN "CLOSED" ELSE "FIN_WAIT"
    [] OTHER -> "ESTABLISHED"

\* The connection state after a packet; RESET and CLOSED are flushed at once.
ConnState(state, p) ==
  CASE p.proto \in {"udp", "icmp"} -> "ESTABLISHED"
    [] p.proto = "tcp" /\ "RST" \in p.flags -> "RESET"
    [] p.proto = "tcp" /\ "RST" \notin p.flags /\ "FIN" \in p.flags ->
         IF state = "ESTABLISHED" THEN "FIN_WAIT"
         ELSE IF state = "FIN_WAIT" THEN "CLOSED" ELSE state
    [] OTHER ->
         IF {"SYN", "ACK"} \subseteq p.flags THEN "ESTABLISHED"
         ELSE IF "SYN" \in p.flags /\ state = "NEW" THEN "SYN_ONLY"
         ELSE IF "ACK" \in p.flags /\ state = "SYN_ONLY" THEN "ESTABLISHED"
         ELSE state

\* FlowState.add_packet on a flow of this connection, new or known.
WithPacket(p, offset) ==
  LET old == IF p.conn \in DOMAIN live THEN live[p.conn]
             ELSE [conn |-> p.conn, client |-> Client(p), state |-> "NEW", packets |-> {}]
  IN  [old EXCEPT !.packets = @ \cup {offset}, !.state = ConnState(@, p)]

Finished(flow) == flow.state \in {"RESET", "CLOSED"}

-----------------------------------------------------------------------------
(* FlowPublisher.  The database half is a function on its own state        *)
(* (pending, stored, conn, backoff, overflowed, discarded); "outcome" is   *)
(* what happens to a statement on an open connection.                      *)

DbState == [pending |-> pending, stored |-> stored, conn |-> conn, backoff |-> backoff,
            overflowed |-> overflowed, discarded |-> discarded]

\* Bug: the youngest records are given up.
BoundPendingYoungest(s) ==
  LET kept == SubSeq(s.pending, 1, IF Len(s.pending) > MaxPending THEN MaxPending
                                   ELSE Len(s.pending))
  IN  [s EXCEPT !.pending = kept,
                !.overflowed = @ \cup (ToSet(s.pending) \ ToSet(kept))]

\* _bound_pending: the oldest beyond MAX_PENDING are given up.
BoundPending(s) ==
  LET over == Len(s.pending) - MaxPending
      kept == IF over > 0 THEN SubSeq(s.pending, over + 1, Len(s.pending)) ELSE s.pending
  IN  [s EXCEPT !.pending = kept,
                !.overflowed = @ \cup (ToSet(s.pending) \ ToSet(kept))]

\* _reconnect: it closes what there is; inside the back-off it does nothing.
Reconnect(s) ==
  IF s.backoff THEN s
  ELSE [s EXCEPT !.conn = dbUp, !.backoff = ~dbUp]

\* Bug: a repeated insert of a batch that had been committed makes new rows.
InsertAgain(table, ids) ==
  [i \in DOMAIN table \cup ids |->
     (IF i \in DOMAIN table THEN table[i] ELSE 0) + (IF i \in ids THEN 1 ELSE 0)]

\* INSERT ... ON CONFLICT DO NOTHING
Insert(table, ids) ==
  [i \in DOMAIN table \cup ids |-> IF i \in DOMAIN table THEN table[i] ELSE 1]

Poisoned(s, published) == \E i \in ToSet(s.pending) : published[i].conn \in Poison

\* Bug: the buffer is emptied whatever the answer was.
AfterConnectionErrorCleared(s, table) ==
  BoundPending(Reconnect([s EXCEPT !.stored = table, !.conn = FALSE, !.pending = <<>>]))

\* OperationalError or InterfaceError: the batch is kept for the next cycle.
AfterConnectionError(s, table) ==
  BoundPending(Reconnect([s EXCEPT !.stored = table, !.conn = FALSE]))

\* _flush_db.  "lost" is a connection torn after the commit, "torn" before it.
FlushDb(s, outcome, published) ==
  LET t == IF s.conn THEN s ELSE Reconnect(s)
      ids == ToSet(s.pending)
  IN  IF s.pending = <<>> THEN s
      ELSE IF ~t.conn THEN BoundPending(t)
      ELSE IF ~dbUp \/ outcome = "torn" THEN AfterConnectionError(t, t.stored)
      ELSE IF Poisoned(t, published)
             THEN [t EXCEPT !.pending = <<>>, !.discarded = @ \cup ids]
      ELSE IF outcome = "lost" THEN AfterConnectionError(t, Insert(t.stored, ids))
      ELSE [t EXCEPT !.pending = <<>>, !.stored = Insert(@, ids)]

SetDb(s) ==
  /\ pending' = s.pending /\ stored' = s.stored /\ conn' = s.conn /\ backoff' = s.backoff
  /\ overflowed' = s.overflowed /\ discarded' = s.discarded

Outcomes == IF mishaps < MaxMishaps THEN {"fine", "torn", "lost"} ELSE {"fine"}

\* _send_kafka: a full producer queue after one retry, or a failed delivery.
SendKafka(ids, refused) ==
  /\ refused \subseteq ids
  /\ kafka' = kafka \cup (ids \ refused)
  /\ failed' = failed \cup refused

Charge(outcome, refused) ==
  /\ mishaps' = mishaps + (IF outcome # "fine" THEN 1 ELSE 0) + Cardinality(refused)
  /\ mishaps' <= MaxMishaps

Buffered(flows) ==
  [DbState EXCEPT !.pending = @ \o [i \in 1..Len(flows) |-> Len(records) + i]]

\* The buffer is written once it holds a batch.
Written(flows, outcome) ==
  LET s == Buffered(flows)
  IN  IF flows # <<>> /\ Len(s.pending) >= BatchSize
        THEN FlushDb(s, outcome, records \o flows) ELSE s

\* publish: every record to Kafka and into the buffer.
Publish(flows, outcome, refused) ==
  /\ records' = records \o flows
  /\ SendKafka((Len(records) + 1)..Len(records'), refused)
  /\ SetDb(Written(flows, outcome))
  /\ Charge(outcome, refused)

-----------------------------------------------------------------------------
(* The main loop.                                                          *)

\* One message: parsed, added to its flow, a finished flow published.
HandlePacket ==
  LET offset == pos + 1
      p == topic[offset]
      flow == WithPacket(p, offset)
  IN  /\ up /\ pos < Len(topic)
      /\ pos' = offset
      /\ IF p.proto = "junk" THEN UNCHANGED <<live, records, kafka, failed, dbVars, mishaps>>
         ELSE IF Finished(flow)
           THEN /\ live' = [c \in DOMAIN live \ {p.conn} |-> live[c]]
                /\ \E outcome \in Outcomes, refused \in SUBSET {Len(records) + 1} :
                     Publish(<<flow>>, outcome, refused)
           ELSE /\ live' = [c \in DOMAIN live \cup {p.conn} |->
                              IF c = p.conn THEN flow ELSE live[c]]
                /\ UNCHANGED <<records, kafka, failed, dbVars, mishaps>>
      /\ UNCHANGED <<topic, up, committed, start, first, dbUp, crashed, skipped, gone>>

\* Bug: a live flow that has expired is dropped without being published.
ExpiredNone(conns) == {<<>>}

\* flush_expired: the flows that are due, in the order of the dictionary,
\* which is that of their first packets.
Expired(conns) ==
  {flows \in [1..Cardinality(conns) -> {live[c] : c \in conns}] :
     /\ \A c \in conns : live[c] \in ToSet(flows)
     /\ \A i, j \in DOMAIN flows :
          i < j => \E o \in flows[i].packets : \A q \in flows[j].packets : o < q}

LiveWithout(conns) == [c \in DOMAIN live \ conns |-> live[c]]

\* Bug: offsets are committed one packet ahead.
CommitAhead == committed' \in {committed, pos + 1}

\* consumer.commit(asynchronous=True): done, or lost when the broker is away.
Commit == committed' \in {committed, pos}

\* Every flush_interval_s.  Which flows are due depends on the wall clock
\* against time stamps taken at the capture: any of them may be.
FlushExpired(conns) ==
  /\ up /\ conns \subseteq DOMAIN live
  /\ live' = LiveWithout(conns)
  /\ \E flows \in Expired(conns), outcome \in Outcomes :
       \E refused \in SUBSET ((Len(records) + 1)..(Len(records) + Len(flows))) :
         Publish(flows, outcome, refused)
  /\ Commit
  /\ UNCHANGED <<topic, up, pos, start, first, dbUp, crashed, skipped, gone>>

\* Bug: what is still buffered at the end is not written.
ClosedWithoutFlush(s, outcome, published) == s

\* publisher.close: one more _flush_db.
Closed(s, outcome, published) == FlushDb(s, outcome, published)

\* SIGTERM or a fatal KafkaException: flush_all, publish, close.  Nothing is
\* committed; what the last flush could not write is gone.
Stop ==
  /\ up /\ mishaps < MaxMishaps
  /\ up' = FALSE /\ live' = <<>>
  /\ \E flows \in Expired(DOMAIN live), outcome \in Outcomes, last \in Outcomes :
     \E refused \in SUBSET ((Len(records) + 1)..(Len(records) + Len(flows))) :
       LET u == Closed(Written(flows, outcome), last, records \o flows)
       IN  /\ records' = records \o flows
           /\ SendKafka((Len(records) + 1)..Len(records'), refused)
           /\ SetDb([u EXCEPT !.pending = <<>>, !.conn = FALSE])
           /\ gone' = gone \cup ToSet(u.pending)
           /\ mishaps' = mishaps + 1 + Cardinality(refused)
                           + Cardinality({n \in 1..2 : <<outcome, last>>[n] # "fine"})
           /\ mishaps' <= MaxMishaps
  /\ UNCHANGED <<topic, pos, committed, start, first, dbUp, crashed, skipped>>

\* The process dies: live flows and the buffer are gone.
Crash ==
  /\ up /\ mishaps < MaxMishaps
  /\ mishaps' = mishaps + 1
  /\ up' = FALSE /\ live' = <<>>
  /\ crashed' = crashed \cup UNION {live[c].packets : c \in DOMAIN live}
  /\ gone' = gone \cup ToSet(pending)
  /\ SetDb([DbState EXCEPT !.pending = <<>>, !.conn = FALSE])
  /\ UNCHANGED <<topic, pos, committed, start, records, first, kafka, dbUp, skipped, failed>>

\* Bug: the oldest packet, whatever was committed.
FirstPositionOldest == 0

\* Bug: the committed offset even if there is none.
FirstPositionUnset == committed

\* auto.offset.reset = latest
FirstPosition == IF committed = NoOffset THEN Len(topic) ELSE committed

\* Compose starts the process again; its constructor needs the database.
StartAgain ==
  /\ ~up /\ dbUp
  /\ up' = TRUE /\ conn' = TRUE /\ backoff' = FALSE
  /\ pos' = FirstPosition /\ start' = FirstPosition
  /\ skipped' = skipped \cup (IF committed = NoOffset THEN 1..Len(topic) ELSE {})
  /\ first' = Len(records) + 1
  /\ UNCHANGED <<topic, committed, live, records, kafka, pending, stored, overflowed, discarded,
                 dbUp, crashed, gone, failed, mishaps>>

(* Around the process.                                                     *)

Capture ==
  /\ \E seen \in Sightings :
       IsStrictPrefix(topic, seen) /\ topic' = SubSeq(seen, 1, Len(topic) + 1)
  /\ UNCHANGED <<up, pos, committed, start, live, records, first, kafka, dbVars, dbUp,
                 crashed, skipped, gone, failed, mishaps>>

DatabaseFails ==
  /\ dbUp /\ mishaps < MaxMishaps
  /\ dbUp' = FALSE /\ mishaps' = mishaps + 1
  /\ UNCHANGED <<topic, up, pos, committed, start, live, records, first, kafka, dbVars,
                 crashed, skipped, gone, failed>>

DatabaseReturns ==
  /\ ~dbUp /\ dbUp' = TRUE
  /\ UNCHANGED <<topic, up, pos, committed, start, live, records, first, kafka, dbVars,
                 crashed, skipped, gone, failed, mishaps>>

BackoffEnds ==
  /\ backoff /\ backoff' = FALSE
  /\ UNCHANGED <<topic, up, pos, committed, start, live, records, first, kafka, pending, stored,
                 conn, overflowed, discarded, dbUp, crashed, skipped, gone, failed, mishaps>>

FlowNext ==
  \/ Capture \/ HandlePacket \/ Stop \/ Crash \/ StartAgain
  \/ \E conns \in SUBSET FlowKeys : FlushExpired(conns)
  \/ DatabaseFails \/ DatabaseReturns \/ BackoffEnds

FlowSpec == FlowInit /\ [][FlowNext]_flowVars

\* The loop polls and flushes as long as it runs; a flow without packets
\* passes its time-out, one with packets its greatest duration.
NextPacketRead == up /\ pos < Len(topic) /\ pos' = pos + 1
LeavesMemory(c) == up /\ c \in DOMAIN live /\ live' = LiveWithout({c})

Starts == ~up /\ dbUp /\ up' = TRUE
DbReturns == ~dbUp /\ dbUp' = TRUE

FlowFairness ==
  /\ WF_pos(NextPacketRead) /\ \A c \in FlowKeys : WF_live(LeavesMemory(c))
  /\ WF_up(Starts) /\ WF_dbUp(DbReturns)

FlowFairSpec == FlowSpec /\ FlowFairness

-----------------------------------------------------------------------------
(* Properties.                                                             *)

Offsets == 1..Len(topic)
IpOffsets == {o \in Offsets : topic[o].proto # "junk"}
Flow == [conn: FlowKeys, client: Ends, packets: SUBSET Offsets,
         state: {"NEW", "SYN_ONLY", "ESTABLISHED", "FIN_WAIT", "RESET", "CLOSED"}]
RecordIds == 1..Len(records)

\* Types of the variables, among them that what is kept in memory is empty
\* while the process is down.
FlowTypeOK ==
  /\ topic \in Seq(Packet) /\ up \in BOOLEAN /\ pos \in 0..Len(topic)
  /\ committed \in {NoOffset} \cup 0..Len(topic) /\ start \in 0..pos
  /\ DOMAIN live \subseteq FlowKeys /\ \A c \in DOMAIN live : live[c] \in Flow
  /\ records \in Seq(Flow) /\ first \in 1..(Len(records) + 1)
  /\ kafka \subseteq RecordIds /\ failed \subseteq RecordIds
  /\ pending \in Seq(RecordIds) /\ DOMAIN stored \subseteq RecordIds
  /\ \A i \in DOMAIN stored : stored[i] \in Nat \ {0}
  /\ {dbUp, conn, backoff} \subseteq BOOLEAN
  /\ crashed \cup skipped \subseteq Offsets
  /\ overflowed \cup discarded \cup gone \subseteq RecordIds
  /\ ~up => live = <<>> /\ pending = <<>> /\ ~conn

Counted(o, ids) == Cardinality({i \in ids : o \in records[i].packets})
InLive(o) == \E c \in DOMAIN live : o \in live[c].packets

\* Each packet the process has read is in exactly one flow, live or
\* published, whatever the order of flags, time-outs and expiries: none is
\* dropped when a flow ends, none counted in two (add_packet, flush_expired,
\* flush_all).
EachPacketInOneFlow ==
  up => \A o \in (start + 1)..pos :
          Counted(o, first..Len(records)) + Cardinality({c \in DOMAIN live : o \in live[c].packets})
            = (IF topic[o].proto = "junk" THEN 0 ELSE 1)

\* A packet below the committed offset, which is never read again, has been
\* published, or is in a live flow, or was lost with one in a crash, or was
\* jumped over at a first start (main.py:139-149 commits while flows are
\* open).
CommittedAccounted ==
  \A o \in IpOffsets : o <= committed =>
    Counted(o, RecordIds) > 0 \/ InLive(o) \/ o \in crashed \cup skipped

\* A packet whose flow was published and whose offset was committed never
\* enters a flow again, over any number of restarts.
NotCountedAgain ==
  [][\A o \in IpOffsets :
       o <= committed /\ ~InLive(o) => ~\E c \in DOMAIN live' : o \in live'[c].packets]_flowVars

\* Every published flow is in the table, in the buffer, or given up in one of
\* the three ways the code knows; and the half for Kafka does not suffer from
\* the database (publisher.py:7).
EveryRecordHasAFate ==
  \A i \in RecordIds :
    /\ i \in DOMAIN stored \cup ToSet(pending) \cup overflowed \cup discarded \cup gone
    /\ i \in kafka \cup failed

\* A batch committed without an answer, and sent again, makes no second row.
OneRowPerFlow == \A i \in DOMAIN stored : stored[i] = 1

\* The buffer is within its bound between two turns unless it is waiting for a
\* batch to fill, and what it gave up is older than all it kept.
OldestGivenUp ==
  /\ Len(pending) < BatchSize \/ Len(pending) <= MaxPending
  /\ \A g \in overflowed \ DOMAIN stored, i \in ToSet(pending) : g < i

\* A graceful end with the database reachable, no fault and no back-off in
\* force loses no flow, published or live.
CleanStopLosesNothing ==
  [][Stop /\ dbUp /\ ~backoff /\ mishaps' = mishaps + 1 => gone' = gone /\ crashed' = crashed]_flowVars

\* The end that neither the order of packets nor the place of the sensor
\* decides upon: the private one, else the one on no well-known port, else the
\* one on the higher port.
Initiator(c) ==
  CASE Private[c]["a"] # Private[c]["b"] -> {e \in Ends : Private[c][e]}
    [] Private[c]["a"] = Private[c]["b"] /\ Port[c]["a"] # Port[c]["b"] ->
         {e \in Ends : Port[c][e] > Port[c][Other(e)]}
    [] OTHER -> Ends

\* A flow whose first packet carries no SYN and no ICMP type gets the same
\* client whichever side spoke first (docstring of _decide_direction:
\* deterministic, whether or not the handshake was seen).
DirectionIndependentOfFirst ==
  \A f \in {live[c] : c \in DOMAIN live} \cup ToSet(records) :
    LET p == topic[CHOOSE o \in f.packets : \A q \in f.packets : o <= q]
    IN  "SYN" \notin p.flags /\ p.icmp = "none" => f.client \in Initiator(f.conn)

\* A flow is closed by FINs only when a handshake was seen in it, and then by
\* two of them: a connection picked up in the middle ends by time-out.
ClosedAfterHandshake ==
  \A i \in RecordIds : records[i].state = "CLOSED" =>
    LET having(flag) == {o \in records[i].packets : flag \in topic[o].flags}
    IN  having("SYN") # {} /\ Cardinality(having("FIN")) >= 2

\* flow.py:375 says that both sides have sent a FIN when a flow is closed.
ClosedByBothSides ==
  \A i \in RecordIds : records[i].state = "CLOSED" =>
    Ends = {topic[o].from : o \in {q \in records[i].packets : "FIN" \in topic[q].flags}}

\* What is safe about it.
FlowSafety ==
  /\ EachPacketInOneFlow /\ CommittedAccounted /\ EveryRecordHasAFate /\ OneRowPerFlow
  /\ OldestGivenUp /\ DirectionIndependentOfFirst /\ ClosedAfterHandshake

\* flow-aggregator puts each packet into one flow and each flow into one row,
\* and what it loses it loses by a fault, oldest first.
FlowAggregatorOK == [](FlowTypeOK /\ FlowSafety) /\ NotCountedAgain /\ CleanStopLosesNothing

\* Every captured packet ends in a published flow, unless a crash or the
\* start at the end of the topic takes it.
PacketsGetPublished ==
  \A o \in UNION {DOMAIN seen : seen \in Sightings} :
    []<>(o \in IpOffsets => Counted(o, RecordIds) > 0 \/ o \in crashed \cup skipped)

=============================================================================
