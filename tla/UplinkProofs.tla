----------------------------- MODULE UplinkProofs -----------------------------
(***************************************************************************)
(* What holds of Uplink for every number of frames, connections and        *)
(* faults, every window, batch size and cap, in three parts: the typing of *)
(* its state; that no frame is lost between tap and master, that it        *)
(* therefore implements AtLeastOnce, and how often a metric is produced;   *)
(* and the books of the send window.                                       *)
(***************************************************************************)
EXTENDS Uplink, SequenceTheorems, FiniteSetTheorems, TLAPS

(* What a push does to the table: the new id is lastId + 1 and carries the *)
(* frame; a trim may drop rows, and nothing else changes.                  *)
LEMMA PushFacts ==
  ASSUME NEW f, DQ!Push(f), DQ!QueueTypeOK
  PROVE  /\ lastId < MaxId /\ lastId' = lastId + 1
         /\ DOMAIN rows' \subseteq DOMAIN rows \union {lastId'}
         /\ \A i \in DOMAIN rows' : rows'[i] = IF i = lastId' THEN f ELSE rows[i]
<1> DEFINE D == DQ!Trimmed(DQ!Inserted(f), bytes + FrameBytes[f])
<1>1. lastId < MaxId /\ lastId' = lastId + 1 /\ rows' = DQ!Without(DQ!Inserted(f), D)
  BY DEF DQ!Push
<1> HIDE DEF D
<1>2. DOMAIN rows' = (DOMAIN rows \union {lastId + 1}) \ D
  BY <1>1 DEF DQ!Without, DQ!Inserted, DQ!Restrict
<1>3. ASSUME NEW i \in DOMAIN rows'
      PROVE  rows'[i] = IF i = lastId' THEN f ELSE rows[i]
  <2>1. i \in (DOMAIN rows \union {lastId + 1}) \ D
    BY <1>2
  <2>2. DQ!Without(DQ!Inserted(f), D)[i] = DQ!Inserted(f)[i]
    BY <2>1 DEF DQ!Without, DQ!Inserted, DQ!Restrict
  <2> QED
    BY <1>1, <2>1, <2>2 DEF DQ!Inserted
<1> QED
  BY <1>1, <1>2, <1>3

(* What an acknowledgement, or a deletion without one, does to the table.  *)
LEMMA AckFacts ==
  ASSUME NEW ids, DQ!Ack(ids)
  PROVE  /\ lastId' = lastId
         /\ DOMAIN rows' = DOMAIN rows \ ids
         /\ \A i \in DOMAIN rows' : rows'[i] = rows[i]
<1>1. lastId' = lastId /\ rows' = DQ!Without(rows, ids \intersect DOMAIN rows)
  BY DEF DQ!Ack
<1>2. DOMAIN rows' = DOMAIN rows \ ids
  BY <1>1 DEF DQ!Without, DQ!Restrict
<1>3. \A i \in DOMAIN rows' : rows'[i] = rows[i]
  BY <1>1, <1>2 DEF DQ!Without, DQ!Restrict
<1> QED
  BY <1>1, <1>2, <1>3

(* A batch is a part of the table. *)
LEMMA PoppedFacts ==
  ASSUME NEW r, NEW from
  PROVE  /\ DOMAIN Popped(r, from) \subseteq DOMAIN r
         /\ \A i \in DOMAIN Popped(r, from) : Popped(r, from)[i] = r[i]
  BY DEF Popped, DQ!Oldest, Restrict

(* Channels: one sequence per connection. *)
LEMMA ChannelSend ==
  ASSUME NEW C, NEW S, NEW f \in [C -> Seq(S)], NEW c, NEW e \in S
  PROVE  [f EXCEPT ![c] = Append(@, e)] \in [C -> Seq(S)]
<1>1. CASE c \in C
  <2>1. Append(f[c], e) \in Seq(S)
    BY <1>1, AppendProperties
  <2> QED
    BY <1>1, <2>1
<1>2. CASE c \notin C
  BY <1>2
<1> QED
  BY <1>1, <1>2

LEMMA ChannelReceive ==
  ASSUME NEW C, NEW S, NEW f \in [C -> Seq(S)], NEW c \in C, f[c] # <<>>
  PROVE  /\ [f EXCEPT ![c] = Tail(@)] \in [C -> Seq(S)]
         /\ Head(f[c]) \in S
  BY HeadTailProperties

LEMMA ChannelClear ==
  ASSUME NEW C, NEW S, NEW f \in [C -> Seq(S)], NEW c
  PROVE  [f EXCEPT ![c] = <<>>] \in [C -> Seq(S)]
  BY EmptySeq
-----------------------------------------------------------------------------
(* The initial state is well typed. *)
LEMMA UplinkTypeInit == Init => UplinkTypeOK
<1> SUFFICES ASSUME Init PROVE UplinkTypeOK
  OBVIOUS
<1>1. TapTypeOK
  <2>1. DQ!QueueTypeOK /\ lastId <= MaxId
    BY UplinkAssumption DEF Init, DQ!QueueInit, DQ!QueueTypeOK
  <2>2. DOMAIN batch = {}
    BY DEF Init, Empty
  <2>3. conns = 0 /\ link = 0 /\ cursor = 0
    BY DEF Init
  <2>4. conns \in 0..MaxConns /\ link \in 0..conns /\ cursor \in 0..MaxId
    BY <2>3, UplinkAssumption
  <2> QED
    BY <2>1, <2>2, <2>4 DEF Init, TapTypeOK
<1>2. WireTypeOK
  BY EmptySeq DEF Init, WireTypeOK
<1>3. MasterTypeOK
  BY UplinkAssumption DEF Init, MasterTypeOK, Conns, Ids
<1>4. HistoryTypeOK
  BY DEF Init, HistoryTypeOK, Empty
<1> QED
  BY <1>1, <1>2, <1>3, <1>4 DEF UplinkTypeOK

(* A new frame in the queue. *)
LEMMA UplinkTypePush ==
  ASSUME TapTypeOK, HistoryTypeOK, NEW f \in Frame, PushFrame(f)
  PROVE  /\ DQ!QueueTypeOK' /\ lastId' \in Ids
         /\ HistoryTypeOK'
<1>1. DQ!QueueTypeOK /\ lastId \in Nat
  BY DEF TapTypeOK, DQ!QueueTypeOK
<1>2. DQ!Push(f)
  BY DEF PushFrame
<1>3. /\ lastId < MaxId /\ lastId' = lastId + 1
      /\ DOMAIN rows' \subseteq DOMAIN rows \union {lastId'}
      /\ \A i \in DOMAIN rows' : rows'[i] = IF i = lastId' THEN f ELSE rows[i]
  BY <1>1, <1>2, PushFacts
<1>4. lastId' \in Ids
  BY <1>1, <1>3, UplinkAssumption DEF Ids
<1>5. DQ!QueueTypeOK'
  BY <1>1, <1>3 DEF DQ!QueueTypeOK
<1>6. DOMAIN rows \subseteq Ids
  BY <1>1, <1>3, UplinkAssumption DEF DQ!QueueTypeOK, Ids
<1>7. trimmed' \subseteq Ids
  BY <1>4, <1>6 DEF PushFrame, HistoryTypeOK
<1>8. DOMAIN pushed' \subseteq Ids /\ \A i \in DOMAIN pushed' : pushed'[i] \in Frame
  BY <1>4 DEF PushFrame, HistoryTypeOK
<1>9. HistoryTypeOK'
  BY <1>7, <1>8 DEF PushFrame, HistoryTypeOK
<1> QED
  BY <1>4, <1>5, <1>9

(* Rows that are deleted. *)
LEMMA UplinkTypeAck ==
  ASSUME TapTypeOK, NEW ids, DQ!Ack(ids)
  PROVE  /\ DQ!QueueTypeOK' /\ lastId' <= MaxId
         /\ DOMAIN rows \subseteq Ids
<1>1. DQ!QueueTypeOK /\ lastId \in Nat /\ lastId <= MaxId
  BY DEF TapTypeOK, DQ!QueueTypeOK
<1>2. lastId' = lastId /\ DOMAIN rows' = DOMAIN rows \ ids
      /\ \A i \in DOMAIN rows' : rows'[i] = rows[i]
  BY AckFacts
<1>3. DQ!QueueTypeOK'
  BY <1>1, <1>2 DEF DQ!QueueTypeOK
<1>4. DOMAIN rows \subseteq Ids
  BY <1>1, UplinkAssumption DEF DQ!QueueTypeOK, Ids
<1> QED
  BY <1>1, <1>2, <1>3, <1>4

(* Rows that are deleted without a confirmation. *)
LEMMA UplinkTypeRelease ==
  ASSUME TapTypeOK, HistoryTypeOK, NEW ids, Release(ids)
  PROVE  /\ DQ!QueueTypeOK' /\ lastId' <= MaxId
         /\ released' \subseteq Ids
  BY UplinkTypeAck DEF Release, HistoryTypeOK

(* What the sender books when a batch ends. *)
LEMMA UplinkTypeBook ==
  ASSUME TapTypeOK, HistoryTypeOK, BookSent
  PROVE  /\ DQ!QueueTypeOK' /\ lastId' <= MaxId
         /\ inflight' \subseteq Ids /\ overdue' \subseteq Ids /\ released' \subseteq Ids
<1>1. CASE ackCapable = "no"
  BY <1>1, UplinkTypeRelease DEF BookSent, TapTypeOK
<1>2. CASE ackCapable # "no"
  BY <1>2 DEF BookSent, TapTypeOK, HistoryTypeOK, queue, DQ!QueueTypeOK
<1> QED
  BY <1>1, <1>2
-----------------------------------------------------------------------------
(* The master never touches the state of the tap. *)
LEMMA MasterSparesTap == Master => UNCHANGED <<queue, tap>>
  BY DEF Master, Serve, OnHello, OnAlert, OnMetric, OnHostProfile, OnMalformed,
         OnPcapOwned, OnPcapEarly, OnPcapTooLate, FlushAcks, HandlerEnds, MarkRaises,
         KafkaReport, KafkaError, MasterRestart, PersistAlert

(* The popped batch is well typed. *)
LEMMA TapTypePopped ==
  ASSUME NEW r, NEW from, DOMAIN r \subseteq Ids, \A i \in DOMAIN r : r[i] \in Frame,
         StartBatch(Popped(r, from))
  PROVE  /\ DOMAIN batch' \subseteq Ids /\ \A i \in DOMAIN batch' : batch'[i] \in Frame
         /\ idsSent' = {} /\ pc' \in {"top", "batch"}
  BY PoppedFacts DEF StartBatch

(* Typing of the tap's state. *)
LEMMA TapTypeStep ==
  ASSUME UplinkTypeOK, [Next]_vars
  PROVE  TapTypeOK'
<1> USE DEF queue, sender, ackState, tap
<1>1. TapTypeOK /\ HistoryTypeOK /\ WireTypeOK
  BY DEF UplinkTypeOK
<1>2. /\ DQ!QueueTypeOK /\ lastId \in Nat /\ lastId <= MaxId
      /\ DOMAIN rows \subseteq Ids /\ \A i \in DOMAIN rows : rows[i] \in Frame
  BY <1>1, UplinkAssumption DEF TapTypeOK, DQ!QueueTypeOK, Ids
<1>3. UNCHANGED queue => DQ!QueueTypeOK' /\ lastId' <= MaxId
  BY <1>2 DEF DQ!QueueTypeOK
<1>4. ASSUME NEW k \in Kinds, Consume(k) PROVE TapTypeOK'
  <2>1. [type |-> k, alert |-> 0] \in Frame
    BY UplinkAssumption DEF Frame
  <2>2. DQ!QueueTypeOK' /\ lastId' \in Ids
    BY <1>1, <1>4, <2>1, UplinkTypePush DEF Consume
  <2> QED
    BY <1>1, <1>4, <2>2, UplinkAssumption DEF Consume, TapTypeOK, Ids
<1>5. ASSUME NEW a \in pending, FlushPcap(a) PROVE TapTypeOK'
  <2>1. [type |-> "pcap_upload", alert |-> a] \in Frame
    BY <1>1, UplinkAssumption DEF Frame, FrameKinds, TapTypeOK, Ids
  <2>2. DQ!QueueTypeOK' /\ lastId' <= MaxId
    BY <1>1, <1>3, <1>5, <2>1, UplinkTypePush, UplinkAssumption DEF FlushPcap, Ids
  <2> QED
    BY <1>1, <1>5, <2>2 DEF FlushPcap, TapTypeOK
<1>6. CASE Connect
  BY <1>1, <1>3, <1>6, UplinkAssumption DEF Connect, Resting, Empty, TapTypeOK
<1>7. CASE Disconnect
  <2>1. link' \in 0..conns' /\ conns' \in 0..MaxConns /\ cursor' \in 0..MaxId
    BY <1>1, <1>7, UplinkAssumption DEF Disconnect, TapTypeOK
  <2>3. zombie' \in BOOLEAN
    <3>1. zombie' \in {zombie, TRUE}
      BY <1>7, Zenon DEF Disconnect
    <3>2. zombie \in BOOLEAN
      BY <1>1, Zenon DEF TapTypeOK
    <3> QED
      BY <3>1, <3>2, Zenon
  <2>2. DOMAIN batch' = {} /\ idsSent' = {} /\ pc' = "top"
    BY <1>7 DEF Disconnect, Resting, Empty
  <2> QED
    BY <1>1, <1>7, <2>1, <2>2, <2>3, UplinkTypeBook DEF Disconnect, TapTypeOK
<1>8. CASE TapRestart
  <2>1. link' \in 0..conns' /\ conns' \in 0..MaxConns /\ cursor' \in 0..MaxId
    BY <1>1, <1>8, UplinkAssumption DEF TapRestart, TapTypeOK
  <2>2. DOMAIN batch' = {} /\ idsSent' = {} /\ pc' = "top"
    BY <1>8 DEF TapRestart, Resting, Empty
  <2>3. DQ!QueueTypeOK' /\ lastId' <= MaxId
    BY <1>2, <1>8 DEF TapRestart, DQ!Restart, DQ!QueueTypeOK
  <2> QED
    BY <1>1, <1>8, <2>1, <2>2, <2>3 DEF TapRestart, TapTypeOK
<1>9. CASE Pop
  <2>1. StartBatch(Popped(rows, cursor))
    BY <1>9 DEF Pop
  <2> QED
    BY <1>1, <1>2, <1>3, <1>9, <2>1, TapTypePopped DEF Pop, TapTypeOK
<1>10. CASE Redeliver
  <2>1. StartBatch(Popped(rows, 0)) /\ cursor' \in 0..MaxId
    BY <1>10, UplinkAssumption DEF Redeliver
  <2> QED
    BY <1>1, <1>2, <1>3, <1>10, <2>1, TapTypePopped DEF Redeliver, TapTypeOK
<1>11. CASE Fallback
  <2>1. DQ!QueueTypeOK' /\ lastId' <= MaxId
    BY <1>1, <1>11, UplinkTypeRelease DEF Fallback, TakeForOldMaster
  <2>2. DOMAIN rows' \subseteq Ids /\ \A i \in DOMAIN rows' : rows'[i] \in Frame
    BY <2>1, UplinkAssumption DEF DQ!QueueTypeOK, Ids
  <2> QED
    BY <1>1, <1>11, <2>1, <2>2, TapTypePopped DEF Fallback, TakeForOldMaster, TapTypeOK
<1>12. CASE SendFrame
  <2>1. PICK i \in First(batch) : cursor' = i /\ idsSent' = idsSent \union {i}
                                 /\ batch' = Restrict(batch, DOMAIN batch \ {i})
    BY <1>12 DEF SendFrame
  <2>2. i \in Ids /\ i \in 0..MaxId
    BY <1>1, <2>1, UplinkAssumption DEF First, TapTypeOK, Ids
  <2>3. DOMAIN batch' \subseteq Ids /\ \A j \in DOMAIN batch' : batch'[j] \in Frame
    BY <1>1, <2>1 DEF Restrict, TapTypeOK
  <2> QED
    BY <1>1, <1>3, <1>12, <2>1, <2>2, <2>3 DEF SendFrame, TapTypeOK
<1>13. CASE EndBatch
  BY <1>1, <1>13, UplinkTypeBook DEF EndBatch, Resting, Empty, TapTypeOK
<1>14. CASE ZombieWakes
  <2>1. DQ!QueueTypeOK' /\ lastId' <= MaxId
    BY <1>1, <1>3, <1>14, UplinkTypeRelease DEF ZombieWakes, TakeForOldMaster
  <2> QED
    BY <1>1, <1>14, <2>1 DEF ZombieWakes, TakeForOldMaster, TapTypeOK
<1>15. CASE ZombieDies
  BY <1>1, <1>3, <1>15 DEF ZombieDies, TapTypeOK
<1>16. CASE Receiver
  <2>1. DQ!QueueTypeOK' /\ lastId' <= MaxId
    BY <1>1, <1>3, <1>16, UplinkTypeAck DEF Receiver, ReceiveHelloAck, ReceiveAck
  <2> QED
    BY <1>1, <1>16, <2>1 DEF Receiver, ReceiveHelloAck, ReceiveAck, TapTypeOK
<1>17. CASE Clock
  BY <1>1, <1>3, <1>17 DEF Clock, AckTimeout, RedeliverAfter, TapTypeOK
<1>18. CASE UNCHANGED <<queue, tap>>
  BY <1>1, <1>3, <1>18 DEF TapTypeOK
<1> QED
  BY <1>4, <1>5, <1>6, <1>7, <1>8, <1>9, <1>10, <1>11, <1>12, <1>13, <1>14, <1>15,
     <1>16, <1>17, <1>18, MasterSparesTap
     DEF Next, Producers, Sender, Zombie, Connection, vars

(* Typing of the wires. *)
LEMMA WireTypeStep ==
  ASSUME UplinkTypeOK, [Next]_vars
  PROVE  WireTypeOK'
<1> USE DEF WireTypeOK
<1>1. WireTypeOK /\ TapTypeOK /\ MasterTypeOK
  BY DEF UplinkTypeOK
<1>2. \A c \in Conns : Sees(c, "hello") \/ up[c] # <<>> => [up EXCEPT ![c] = Tail(@)] \in [Conns -> Seq(Up)]
  BY <1>1, ChannelReceive DEF Sees
<1>3. \A c, m : m \in Down => [down EXCEPT ![c] = Append(@, m)] \in [Conns -> Seq(Down)]
  BY <1>1, ChannelSend
<1>4. CASE Connect
  <2>1. Msg("hello", 0, 0) \in Up
    BY DEF Msg, Up
  <2>2. <<Msg("hello", 0, 0)>> \in Seq(Up)
    BY <2>1
  <2> QED
    BY <1>1, <1>4, <2>2 DEF Connect
<1>5. CASE Disconnect \/ TapRestart
  <2>1. UNCHANGED up /\ (down' = down \/ down' = [down EXCEPT ![link] = <<>>])
    BY <1>5 DEF Disconnect, TapRestart
  <2>2. [down EXCEPT ![link] = <<>>] \in [Conns -> Seq(Down)]
    BY <1>1, ChannelClear
  <2> QED
    BY <1>1, <2>1, <2>2
<1>6. CASE SendFrame
  <2>1. PICK i \in First(batch) :
          /\ up' = IF handler[link] = "open"
                   THEN [up EXCEPT ![link] = Append(@, Msg(batch[i].type, i, batch[i].alert))]
                   ELSE up
          /\ UNCHANGED down
    BY <1>6 DEF SendFrame
  <2>2. Msg(batch[i].type, i, batch[i].alert) \in Up
    BY <1>1, <2>1 DEF First, TapTypeOK, Frame, Msg, Up
  <2> QED
    <3>1. \A m \in Up : [up EXCEPT ![link] = Append(@, m)] \in [Conns -> Seq(Up)]
      BY <1>1, ChannelSend
    <3> QED
      BY <1>1, <2>1, <2>2, <3>1
<1>7. CASE Receiver
  <2>1. link \in Conns /\ down[link] # <<>>
    <3>1. link # 0 /\ down[link] # <<>>
      <4>1. CASE ReceiveHelloAck
        BY <4>1 DEF ReceiveHelloAck, Arrives
      <4>2. CASE ReceiveAck
        BY <4>2 DEF ReceiveAck, Arrives
      <4> QED
        BY <1>7, <4>1, <4>2 DEF Receiver
    <3>2. conns \in 0..MaxConns /\ link \in 0..conns
      BY <1>1 DEF TapTypeOK
    <3>3. link \in Conns
      BY <3>1, <3>2, UplinkAssumption DEF Conns
    <3> QED
      BY <3>1, <3>3
  <2>2. down' = [down EXCEPT ![link] = Tail(@)] /\ UNCHANGED up
    BY <1>7 DEF Receiver, ReceiveHelloAck, ReceiveAck, Received
  <2> QED
    BY <1>1, <2>1, <2>2, ChannelReceive
<1>8. ASSUME NEW c \in Conns, Serve(c) PROVE WireTypeOK'
  <2>1. Taken(c) /\ up[c] # <<>>
    BY <1>8 DEF Serve, OnHello, OnAlert, OnMetric, OnHostProfile, OnMalformed,
                OnPcapOwned, OnPcapEarly, OnPcapTooLate, Sees
  <2>2. up' \in [Conns -> Seq(Up)]
    BY <1>2, <2>1 DEF Taken
  <2>3. HelloAck \in Down
    BY DEF HelloAck, Down
  <2>4. UNCHANGED down \/ ToTap(c, HelloAck)
    BY <1>8 DEF Serve, OnHello, OnAlert, OnMetric, OnHostProfile, OnMalformed,
                OnPcapOwned, OnPcapEarly, OnPcapTooLate
  <2> QED
    <3>1. [down EXCEPT ![c] = Append(@, HelloAck)] \in [Conns -> Seq(Down)]
      BY <1>3, <2>3
    <3>2. down' = down \/ down' = [down EXCEPT ![c] = Append(@, HelloAck)]
      BY <2>4 DEF ToTap
    <3> QED
      BY <1>1, <2>2, <3>1, <3>2
<1>9. ASSUME NEW c \in Conns, FlushAcks(c) PROVE WireTypeOK'
  <2>1. AckMsg(acked[c]) \in Down
    BY <1>1 DEF AckMsg, Down, MasterTypeOK
  <2> QED
    BY <1>1, <1>3, <1>9, <2>1 DEF FlushAcks, ToTap
<1>10. ASSUME NEW C, ForgetConn(C), UNCHANGED down PROVE WireTypeOK'
  BY <1>1, <1>10, EmptySeq DEF ForgetConn
<1>11. ASSUME NEW c \in Conns, HandlerEnds(c) \/ MarkRaises(c) PROVE WireTypeOK'
  BY <1>10, <1>11 DEF HandlerEnds, MarkRaises
<1>12. CASE MasterRestart
  BY <1>10, <1>12 DEF MasterRestart
<1>13. CASE UNCHANGED <<up, down>>
  BY <1>1, <1>13
<1>14. Producers \/ Pop \/ Redeliver \/ Fallback \/ EndBatch \/ Zombie \/ Clock
         => UNCHANGED <<up, down>>
  BY DEF Producers, Consume, FlushPcap, Pop, Redeliver, Fallback, EndBatch, Zombie,
         ZombieWakes, ZombieDies, Clock, AckTimeout, RedeliverAfter
<1>15. \A r : KafkaReport(r) \/ KafkaError(r) \/ PersistAlert(r) => UNCHANGED <<up, down>>
  BY DEF KafkaReport, KafkaError, PersistAlert
<1> QED
  BY <1>4, <1>5, <1>6, <1>7, <1>8, <1>9, <1>11, <1>12, <1>13, <1>14, <1>15
     DEF Next, Sender, Connection, Master, vars

(* Typing of the master's state. *)
LEMMA MasterTypeStep ==
  ASSUME UplinkTypeOK, [Next]_vars
  PROVE  MasterTypeOK'
<1> USE DEF master, stores
<1>1. MasterTypeOK /\ WireTypeOK
  BY DEF UplinkTypeOK
<1>2. ASSUME NEW c \in Conns, NEW t \in FrameKinds, Sees(c, t)
      PROVE  Seq1(c) \in Ids /\ Head(up[c]).alert \in 0..MaxId
  <2>1. Head(up[c]) \in Up /\ Head(up[c]).type = t
    BY <1>1, <1>2, ChannelReceive DEF WireTypeOK, Sees
  <2> QED
    BY <2>1 DEF Up, FrameKinds, Seq1
<1>3. ASSUME NEW c, NEW i \in Ids, Confirm(c, i) PROVE acked' \in [Conns -> SUBSET Ids]
  BY <1>1, <1>3 DEF Confirm, MasterTypeOK
<1>4. Fault => faults' \in 0..MaxFaults
  BY <1>1, UplinkAssumption DEF Fault, MasterTypeOK
<1>5. ASSUME NEW c \in Conns, Serve(c) PROVE MasterTypeOK'
  <2>1. CASE OnHello(c)
    BY <1>1, <2>1 DEF OnHello, MasterTypeOK
  <2>2. CASE OnAlert(c)
    <3>1. Record(c, Seq1(c), "alert") \in Records
      BY <1>2, <2>2 DEF OnAlert, Record, Records, FrameKinds
    <3> QED
      BY <1>1, <1>4, <2>2, <3>1 DEF OnAlert, MasterTypeOK
  <2>3. CASE OnMetric(c)
    <3>1. Seq1(c) \in Ids /\ Seq1(c) \in 0..MaxId
      BY <1>2, <2>3, UplinkAssumption DEF OnMetric, FrameKinds, Ids
    <3>2. Record(c, Seq1(c), "metric") \in Records
      BY <3>1 DEF Record, Records
    <3> QED
      BY <1>1, <1>3, <1>4, <2>3, <3>1, <3>2 DEF OnMetric, MasterTypeOK
  <2>4. CASE OnHostProfile(c)
    <3>1. Seq1(c) \in Ids /\ Seq1(c) \in 0..MaxId
      BY <1>2, <2>4, UplinkAssumption DEF OnHostProfile, FrameKinds, Ids
    <3> QED
      BY <1>1, <1>3, <1>4, <2>4, <3>1 DEF OnHostProfile, MasterTypeOK
  <2>5. CASE OnMalformed(c)
    <3>1. Seq1(c) \in Ids
      BY <1>2, <2>5 DEF OnMalformed, FrameKinds
    <3> QED
      BY <1>1, <1>3, <2>5, <3>1 DEF OnMalformed, MasterTypeOK
  <2>6. CASE OnPcapOwned(c) \/ OnPcapEarly(c) \/ OnPcapTooLate(c)
    <3>1. Seq1(c) \in Ids /\ Head(up[c]).alert \in 0..MaxId
      BY <1>2, <2>6 DEF OnPcapOwned, OnPcapEarly, OnPcapTooLate, FrameKinds
    <3>2. CASE OnPcapOwned(c)
      BY <1>1, <1>3, <1>4, <3>1, <3>2 DEF OnPcapOwned, MasterTypeOK
    <3>3. CASE OnPcapEarly(c)
      BY <1>1, <1>3, <1>4, <3>1, <3>3 DEF OnPcapEarly, MasterTypeOK
    <3>4. CASE OnPcapTooLate(c)
      BY <1>1, <1>3, <1>4, <3>1, <3>4 DEF OnPcapTooLate, MasterTypeOK
    <3> QED
      BY <2>6, <3>2, <3>3, <3>4
  <2> QED
    BY <1>5, <2>1, <2>2, <2>3, <2>4, <2>5, <2>6 DEF Serve
<1>6. ASSUME NEW c \in Conns, FlushAcks(c) PROVE MasterTypeOK'
  BY <1>1, <1>6 DEF FlushAcks, MasterTypeOK
<1>7. ASSUME NEW C, ForgetConn(C)
      PROVE  /\ handler' \in [Conns -> {"none", "open", "closed"}]
             /\ acked' \in [Conns -> SUBSET Ids] /\ retry' \in [Conns -> SUBSET (0..MaxId)]
  BY <1>1, <1>7 DEF ForgetConn, MasterTypeOK
<1>8. ASSUME NEW c \in Conns, HandlerEnds(c) \/ MarkRaises(c) PROVE MasterTypeOK'
  BY <1>1, <1>4, <1>7, <1>8 DEF HandlerEnds, MarkRaises, MasterTypeOK
<1>9. ASSUME NEW r \in outstanding, KafkaReport(r) \/ KafkaError(r) PROVE MasterTypeOK'
  <2>1. r.seq \in Ids
    BY <1>1 DEF MasterTypeOK, Records
  <2> QED
    BY <1>1, <1>3, <1>4, <1>9, <2>1 DEF KafkaReport, KafkaError, MasterTypeOK
<1>10. CASE MasterRestart
  <2>1. alertsRaw' \subseteq Ids
    BY <1>1, <1>10 DEF MasterRestart, MasterTypeOK, Records
  <2> QED
    BY <1>1, <1>4, <1>7, <1>10, <2>1, UplinkAssumption DEF MasterRestart, MasterTypeOK
<1>11. ASSUME NEW i \in alertsRaw, PersistAlert(i) PROVE MasterTypeOK'
  BY <1>1, <1>11 DEF PersistAlert, MasterTypeOK
<1>12. CASE Connect
  BY <1>1, <1>12 DEF Connect, MasterTypeOK
<1>13. CASE TapRestart
  BY <1>1, <1>13, UplinkAssumption DEF TapRestart, MasterTypeOK
<1>14. CASE UNCHANGED <<master, faults, stores>>
  BY <1>1, <1>14 DEF MasterTypeOK
<1>15. Producers \/ Sender \/ Zombie \/ Receiver \/ Disconnect \/ Clock
         => UNCHANGED <<master, faults, stores>>
  BY DEF Producers, Consume, FlushPcap, Sender, Pop, Redeliver, Fallback, SendFrame,
         EndBatch, Zombie, ZombieWakes, ZombieDies, Receiver, ReceiveHelloAck,
         ReceiveAck, Disconnect, Clock, AckTimeout, RedeliverAfter
<1> QED
  BY <1>5, <1>6, <1>8, <1>9, <1>10, <1>11, <1>12, <1>13, <1>14, <1>15
     DEF Next, Connection, Master, vars

(* Typing of the history. *)
LEMMA HistoryTypeStep ==
  ASSUME UplinkTypeOK, [Next]_vars
  PROVE  HistoryTypeOK'
<1> USE DEF history
<1>1. HistoryTypeOK /\ TapTypeOK /\ WireTypeOK
  BY DEF UplinkTypeOK
<1>2. ASSUME NEW c \in Conns, NEW t \in FrameKinds, Sees(c, t) PROVE Seq1(c) \in Ids
  <2>1. Head(up[c]) \in Up /\ Head(up[c]).type = t
    BY <1>1, <1>2, ChannelReceive DEF WireTypeOK, Sees
  <2> QED
    BY <2>1 DEF Up, FrameKinds, Seq1
<1>3. ASSUME NEW k \in Kinds, Consume(k) PROVE HistoryTypeOK'
  <2>1. [type |-> k, alert |-> 0] \in Frame
    BY UplinkAssumption DEF Frame
  <2> QED
    BY <1>1, <1>3, <2>1, UplinkTypePush DEF Consume
<1>4. ASSUME NEW a \in pending, FlushPcap(a) PROVE HistoryTypeOK'
  <2>1. [type |-> "pcap_upload", alert |-> a] \in Frame
    BY <1>1, UplinkAssumption DEF Frame, FrameKinds, TapTypeOK, Ids
  <2>2. CASE UNCHANGED history
    BY <1>1, <2>2 DEF HistoryTypeOK
  <2> QED
    BY <1>1, <1>4, <2>1, <2>2, UplinkTypePush DEF FlushPcap
<1>5. CASE Disconnect \/ EndBatch
  <2>1. BookSent
    BY <1>5 DEF Disconnect, EndBatch
  <2>2. released' \subseteq Ids
    BY <1>1, <2>1, UplinkTypeBook
  <2> QED
    BY <1>1, <1>5, <2>2 DEF Disconnect, EndBatch, HistoryTypeOK
<1>6. CASE Fallback \/ ZombieWakes
  <2>1. released' \subseteq Ids
    BY <1>1, <1>6, UplinkTypeRelease DEF Fallback, ZombieWakes, TakeForOldMaster, HistoryTypeOK
  <2> QED
    BY <1>1, <1>6, <2>1 DEF Fallback, ZombieWakes, HistoryTypeOK
<1>7. ASSUME NEW c \in Conns, OnMetric(c) PROVE HistoryTypeOK'
  <2>1. Seq1(c) \in Ids
    BY <1>2, <1>7 DEF OnMetric, FrameKinds
  <2> QED
    BY <1>1, <1>7, <2>1 DEF OnMetric, HistoryTypeOK
<1>8. ASSUME NEW c \in Conns, OnPcapOwned(c) \/ OnPcapTooLate(c) PROVE HistoryTypeOK'
  <2>1. Seq1(c) \in Ids
    BY <1>2, <1>8 DEF OnPcapOwned, OnPcapTooLate, FrameKinds
  <2> QED
    BY <1>1, <1>8, <2>1 DEF OnPcapOwned, OnPcapTooLate, HistoryTypeOK
<1>9. CASE MasterRestart
  BY <1>1, <1>9 DEF MasterRestart, HistoryTypeOK
<1>10. CASE UNCHANGED history
  BY <1>1, <1>10 DEF HistoryTypeOK
<1>11. Connect \/ TapRestart \/ Pop \/ Redeliver \/ SendFrame \/ ZombieDies \/ Receiver \/ Clock
         => UNCHANGED history
  BY DEF Connect, TapRestart, Pop, Redeliver, SendFrame, ZombieDies, Receiver,
         ReceiveHelloAck, ReceiveAck, Clock, AckTimeout, RedeliverAfter
<1>12. \A c : OnHello(c) \/ OnAlert(c) \/ OnHostProfile(c) \/ OnMalformed(c) \/ OnPcapEarly(c)
             \/ FlushAcks(c) \/ HandlerEnds(c) \/ MarkRaises(c)
               => UNCHANGED history
  BY DEF OnHello, OnAlert, OnHostProfile, OnMalformed, OnPcapEarly, FlushAcks,
         HandlerEnds, MarkRaises
<1>13. \A r : KafkaReport(r) \/ KafkaError(r) \/ PersistAlert(r) => UNCHANGED history
  BY DEF KafkaReport, KafkaError, PersistAlert
<1> QED
  BY <1>3, <1>4, <1>5, <1>6, <1>7, <1>8, <1>9, <1>10, <1>11, <1>12, <1>13
     DEF Next, Producers, Sender, Zombie, Connection, Master, Serve, vars

(* The state of both ends is well typed, for every instance and through    *)
(* every step of the tap, the wire, the master and its stores.             *)
THEOREM UplinkTypeCorrect == Spec => []UplinkTypeOK
<1>1. UplinkTypeOK /\ [Next]_vars => UplinkTypeOK'
  BY TapTypeStep, WireTypeStep, MasterTypeStep, HistoryTypeStep DEF UplinkTypeOK
<1> QED
  BY <1>1, UplinkTypeInit, PTL DEF Spec

-----------------------------------------------------------------------------
(***************************************************************************)
(* No frame is lost between tap and master.                                *)
(*                                                                         *)
(* NothingLost is not inductive: a row goes when an ack arrives, so that   *)
(* the ack has to have been earned (AcksAreEarned), and an ack is earned   *)
(* for the frame the master looked at only if that frame's seq is the id   *)
(* of its row (CopiesMatch).  The three together are.                      *)
(***************************************************************************)
LossInv == UplinkTypeOK /\ CopiesMatch /\ AcksAreEarned /\ NothingLost

(* A frame that the master handler of c looks at was pushed under its seq. *)
LEMMA SeenWasPushed ==
  ASSUME CopiesMatch, NEW c \in Conns, NEW t \in FrameKinds, Sees(c, t)
  PROVE  /\ Seq1(c) \in DOMAIN pushed
         /\ pushed[Seq1(c)].type = t
         /\ pushed[Seq1(c)].alert = Head(up[c]).alert
<1>1. Head(up[c]) \in MatchingUp
  BY ChannelReceive DEF CopiesMatch, Sees
<1>2. Head(up[c]).type = t /\ t # "hello"
  BY DEF Sees, FrameKinds
<1> QED
  BY <1>1, <1>2 DEF MatchingUp, Seq1

(* What a push does to the history. *)
LEMMA PushHistory ==
  ASSUME UplinkTypeOK, CopiesMatch, NEW f \in Frame, PushFrame(f)
  PROVE  /\ lastId' = lastId + 1 /\ lastId' \notin DOMAIN pushed
         /\ DOMAIN pushed' = DOMAIN pushed \union {lastId'}
         /\ pushed'[lastId'] = f
         /\ \A i \in DOMAIN pushed : pushed'[i] = pushed[i]
         /\ DOMAIN rows' \subseteq DOMAIN rows \union {lastId'}
         /\ \A i \in DOMAIN rows' : rows'[i] = IF i = lastId' THEN f ELSE rows[i]
<1>1. DQ!QueueTypeOK /\ lastId \in Nat /\ DQ!Push(f)
  BY DEF UplinkTypeOK, TapTypeOK, DQ!QueueTypeOK, PushFrame
<1>2. /\ lastId' = lastId + 1
      /\ DOMAIN rows' \subseteq DOMAIN rows \union {lastId'}
      /\ \A i \in DOMAIN rows' : rows'[i] = IF i = lastId' THEN f ELSE rows[i]
  BY <1>1, PushFacts
<1>3. lastId' \notin DOMAIN pushed
  BY <1>1, <1>2 DEF CopiesMatch
<1> QED
  BY <1>2, <1>3 DEF PushFrame

(* The frames the producers push. *)
LEMMA ProducersPush ==
  ASSUME UplinkTypeOK, Producers
  PROVE  (\E f \in Frame : PushFrame(f)) \/ UNCHANGED <<queue, history>>
<1>1. ASSUME NEW k \in Kinds, Consume(k) PROVE \E f \in Frame : PushFrame(f)
  <2>1. [type |-> k, alert |-> 0] \in Frame
    BY UplinkAssumption DEF Frame
  <2> QED
    BY <1>1, <2>1 DEF Consume
<1>2. ASSUME NEW a \in pending, FlushPcap(a)
      PROVE  (\E f \in Frame : PushFrame(f)) \/ UNCHANGED <<queue, history>>
  <2>1. [type |-> "pcap_upload", alert |-> a] \in Frame
    BY UplinkAssumption DEF Frame, FrameKinds, UplinkTypeOK, TapTypeOK, Ids
  <2> QED
    BY <1>2, <2>1 DEF FlushPcap
<1> QED
  BY <1>1, <1>2 DEF Producers

(* The producers touch nothing but the queue and the open windows. *)
LEMMA ProducersSpare ==
  Producers => UNCHANGED <<link, conns, zombie, sender, ackState, up, down, master,
                           faults, stores, released, skipped, abandoned>>
  BY DEF Producers, Consume, FlushPcap, PushFrame, history
-----------------------------------------------------------------------------
(* The stores only grow, and a pushed frame stays what it was. *)
StoresGrew ==
  /\ DOMAIN pushed \subseteq DOMAIN pushed'
  /\ \A i \in DOMAIN pushed : pushed'[i] = pushed[i]
  /\ alertsRaw \subseteq alertsRaw' /\ profiles \subseteq profiles'
  /\ pcaps \subseteq pcaps' /\ skipped \subseteq skipped' /\ abandoned \subseteq abandoned'
  /\ \A i \in Ids : metricCount[i] > 0 => metricCount'[i] > 0

LEMMA StoresGrow ==
  ASSUME UplinkTypeOK, CopiesMatch, [Next]_vars
  PROVE  StoresGrew
<1> USE DEF StoresGrew, stores, history
<1>1. metricCount \in [Ids -> Nat]
  BY DEF UplinkTypeOK, MasterTypeOK
<1>2. CASE UNCHANGED <<stores, pushed, skipped, abandoned>>
  BY <1>2
<1>3. CASE Producers
  BY <1>2, <1>3, ProducersPush, ProducersSpare, PushHistory
<1>4. ASSUME NEW c \in Conns, OnMetric(c) PROVE StoresGrew
  BY <1>1, <1>4 DEF OnMetric
<1>5. ASSUME NEW c \in Conns, OnHostProfile(c) \/ OnPcapOwned(c) \/ OnPcapTooLate(c)
      PROVE  StoresGrew
  BY <1>5 DEF OnHostProfile, OnPcapOwned, OnPcapTooLate
<1>6. ASSUME NEW r, KafkaReport(r) \/ PersistAlert(r) PROVE StoresGrew
  BY <1>6 DEF KafkaReport, PersistAlert
<1>7. CASE MasterRestart
  BY <1>7 DEF MasterRestart
<1>8. Sender \/ Zombie \/ Receiver \/ Connection \/ Clock
        => UNCHANGED <<stores, pushed, skipped, abandoned>>
  BY DEF Sender, Pop, Redeliver, Fallback, SendFrame, EndBatch, Zombie, ZombieWakes,
         ZombieDies, Receiver, ReceiveHelloAck, ReceiveAck, Connection, Connect,
         Disconnect, TapRestart, Clock, AckTimeout, RedeliverAfter
<1>9. \A c : OnHello(c) \/ OnAlert(c) \/ OnMalformed(c) \/ OnPcapEarly(c)
             \/ FlushAcks(c) \/ HandlerEnds(c) \/ MarkRaises(c) \/ KafkaError(c)
               => UNCHANGED <<stores, pushed, skipped, abandoned>>
  BY DEF OnHello, OnAlert, OnMalformed, OnPcapEarly, FlushAcks, HandlerEnds,
         MarkRaises, KafkaError
<1> QED
  BY <1>2, <1>3, <1>4, <1>5, <1>6, <1>7, <1>8, <1>9 DEF Next, Master, Serve, vars

(* So what is done stays done. *)
LEMMA DoneGrows ==
  ASSUME UplinkTypeOK, StoresGrew
  PROVE  Done \subseteq Done'
<1> SUFFICES ASSUME NEW i \in Done PROVE i \in Done'
  OBVIOUS
<1>1. i \in DOMAIN pushed /\ Processed(i) /\ i \in Ids
  BY DEF Done, UplinkTypeOK, HistoryTypeOK
<1>2. i \in DOMAIN pushed' /\ pushed'[i] = pushed[i]
  BY <1>1 DEF StoresGrew
<1>3. Processed(i)'
  BY <1>1, <1>2 DEF StoresGrew, Processed
<1> QED
  BY <1>2, <1>3 DEF Done
-----------------------------------------------------------------------------
(* The tap's steps, by what they do to the queue and its copies.           *)

(* Steps that neither push nor delete. *)
QueueStays ==
  UNCHANGED <<rows, lastId, pushed, trimmed, released>>

(* Steps that delete a set of rows and give them up. *)
QueueReleases ==
  /\ UNCHANGED <<lastId, pushed, trimmed>>
  /\ \E ids : /\ DOMAIN rows' = DOMAIN rows \ ids
              /\ \A i \in DOMAIN rows' : rows'[i] = rows[i]
              /\ released' = released \union (ids \intersect DOMAIN rows)

(* Steps that delete what an ack confirms. *)
QueueConfirms ==
  /\ UNCHANGED <<lastId, pushed, trimmed, released>>
  /\ DOMAIN rows' = DOMAIN rows \ Head(down[link]).seqs
  /\ \A i \in DOMAIN rows' : rows'[i] = rows[i]

LEMMA ReleaseReleases ==
  ASSUME NEW ids, Release(ids), UNCHANGED <<pushed, trimmed>>
  PROVE  QueueReleases
<1>1. /\ lastId' = lastId
      /\ DOMAIN rows' = DOMAIN rows \ ids
      /\ \A i \in DOMAIN rows' : rows'[i] = rows[i]
      /\ released' = released \union (ids \intersect DOMAIN rows)
  BY AckFacts DEF Release
<1> QED
  BY <1>1 DEF QueueReleases

LEMMA QueueSteps ==
  ASSUME UplinkTypeOK, [Next]_vars
  PROVE  \/ \E f \in Frame : PushFrame(f)
         \/ QueueStays \/ QueueReleases
         \/ ReceiveAck /\ QueueConfirms
<1> USE DEF queue, history
<1>1. CASE Producers
  BY <1>1, ProducersPush DEF QueueStays
<1>2. CASE Disconnect \/ EndBatch
  <2>1. BookSent /\ UNCHANGED <<pushed, trimmed>>
    BY <1>2 DEF Disconnect, EndBatch
  <2>2. CASE ackCapable = "no"
    BY <2>1, <2>2, ReleaseReleases DEF BookSent
  <2>3. CASE ackCapable # "no"
    BY <2>1, <2>3 DEF BookSent, QueueStays
  <2> QED
    BY <2>2, <2>3
<1>3. CASE Fallback
  BY <1>3, ReleaseReleases DEF Fallback, TakeForOldMaster
<1>4. CASE ZombieWakes
  BY <1>4, ReleaseReleases DEF ZombieWakes, TakeForOldMaster, QueueStays
<1>5. CASE ReceiveAck
  <2>1. DQ!Ack(Head(down[link]).seqs) /\ UNCHANGED <<pushed, trimmed, released>>
    BY <1>5 DEF ReceiveAck
  <2> QED
    BY <1>5, <2>1, AckFacts DEF QueueConfirms
<1>6. CASE TapRestart
  BY <1>6 DEF TapRestart, DQ!Restart, QueueStays
<1>7. CASE UNCHANGED <<queue, pushed, trimmed, released>>
  BY <1>7 DEF QueueStays
<1>8. Connect \/ Pop \/ Redeliver \/ SendFrame \/ ZombieDies \/ ReceiveHelloAck \/ Clock
         => UNCHANGED <<queue, pushed, trimmed, released>>
  BY DEF Connect, Pop, Redeliver, SendFrame, ZombieDies, ReceiveHelloAck, Clock,
         AckTimeout, RedeliverAfter
<1>9. Master => UNCHANGED <<pushed, trimmed, released>>
  BY DEF Master, Serve, OnHello, OnAlert, OnMetric, OnHostProfile, OnMalformed,
         OnPcapOwned, OnPcapEarly, OnPcapTooLate, FlushAcks, HandlerEnds, MarkRaises,
         KafkaReport, KafkaError, MasterRestart, PersistAlert
<1> QED
  BY <1>1, <1>2, <1>3, <1>4, <1>5, <1>6, <1>7, <1>8, <1>9, MasterSparesTap
     DEF Next, Sender, Zombie, Receiver, Connection, vars

(* The ids an arriving ack confirms are done. *)
LEMMA ArrivingAckEarned ==
  ASSUME UplinkTypeOK, AcksAreEarned, ReceiveAck
  PROVE  Head(down[link]).seqs \subseteq Done
<1>1. conns \in 0..MaxConns /\ link \in 0..conns /\ link # 0 /\ down[link] # <<>>
  BY DEF UplinkTypeOK, TapTypeOK, ReceiveAck, Arrives
<1>2. link \in Conns
  BY <1>1, UplinkAssumption DEF Conns
<1>3. down[link] \in Seq({m \in Down : m.seqs \subseteq Done})
  BY <1>2 DEF AcksAreEarned
<1>4. Head(down[link]) \in {m \in Down : m.seqs \subseteq Done}
  BY <1>1, <1>3, HeadTailProperties
<1> QED
  BY <1>4

(* A frame only leaves the queue as trimmed, released or done. *)
LEMMA NothingLostStep ==
  ASSUME LossInv, [Next]_vars, StoresGrew
  PROVE  NothingLost'
<1> SUFFICES ASSUME NEW i \in Confirmed' PROVE i \in Done'
  BY DEF NothingLost
<1>1. UplinkTypeOK /\ CopiesMatch /\ AcksAreEarned /\ NothingLost /\ Done \subseteq Done'
  BY DoneGrows DEF LossInv
<1>2. i \in Confirmed => i \in Done'
  BY <1>1 DEF NothingLost
<1>3. i \in DOMAIN pushed' /\ i \notin DOMAIN rows' /\ i \notin trimmed' /\ i \notin released'
  BY DEF Confirmed
<1>4. ASSUME NEW f \in Frame, PushFrame(f) PROVE i \in Confirmed
  <2>1. DOMAIN pushed' = DOMAIN pushed \union {lastId'}
    BY <1>1, <1>4, PushHistory
  <2>2. /\ trimmed' = trimmed \union ((DOMAIN rows \union {lastId'}) \ DOMAIN rows')
        /\ released' = released
    BY <1>4 DEF PushFrame
  <2> QED
    BY <1>3, <2>1, <2>2 DEF Confirmed
<1>5. CASE QueueStays
  BY <1>2, <1>3, <1>5 DEF QueueStays, Confirmed
<1>6. CASE QueueReleases
  BY <1>2, <1>3, <1>6 DEF QueueReleases, Confirmed
<1>7. CASE ReceiveAck /\ QueueConfirms
  <2>1. Head(down[link]).seqs \subseteq Done
    BY <1>1, <1>7, ArrivingAckEarned
  <2> QED
    BY <1>1, <1>2, <1>3, <1>7, <2>1 DEF QueueConfirms, Confirmed
<1> QED
  BY <1>1, <1>2, <1>4, <1>5, <1>6, <1>7, QueueSteps
-----------------------------------------------------------------------------
EarnedAck == {m \in Down : m.seqs \subseteq Done}

(* The handlers of the master confirm what they have done. *)
LEMMA ServeEarns ==
  ASSUME LossInv, StoresGrew, NEW c \in Conns, Serve(c)
  PROVE  acked' = acked \/ (Confirm(c, Seq1(c)) /\ Seq1(c) \in Done')
<1>1. UplinkTypeOK /\ CopiesMatch /\ Done \subseteq Done'
  BY DoneGrows DEF LossInv
<1>2. ASSUME NEW t \in FrameKinds, Sees(c, t)
      PROVE  /\ Seq1(c) \in DOMAIN pushed' /\ pushed'[Seq1(c)].type = t
             /\ pushed'[Seq1(c)].alert = Head(up[c]).alert
  BY <1>1, <1>2, SeenWasPushed DEF StoresGrew
<1>3. CASE OnHello(c) \/ OnAlert(c) \/ OnPcapEarly(c)
  BY <1>3 DEF OnHello, OnAlert, OnPcapEarly, master
<1>4. CASE OnMetric(c)
  <2>1. Seq1(c) \in DOMAIN pushed' /\ pushed'[Seq1(c)].type = "metric"
    BY <1>2, <1>4 DEF OnMetric, FrameKinds
  <2>2. acked' = acked \/ (Confirm(c, Seq1(c)) /\ Seq1(c) \in skipped')
    BY <1>4 DEF OnMetric
  <2> QED
    BY <2>1, <2>2 DEF Done, Processed
<1>5. CASE OnHostProfile(c)
  <2>1. Seq1(c) \in DOMAIN pushed' /\ pushed'[Seq1(c)].type = "host_profile"
    BY <1>2, <1>5 DEF OnHostProfile, FrameKinds
  <2>2. acked' = acked \/ (Confirm(c, Seq1(c)) /\ Seq1(c) \in profiles')
    BY <1>5 DEF OnHostProfile
  <2> QED
    BY <2>1, <2>2 DEF Done, Processed
<1>6. CASE OnMalformed(c)
  <2>1. Seq1(c) \in DOMAIN pushed' /\ pushed'[Seq1(c)].type = "malformed"
    BY <1>2, <1>6 DEF OnMalformed, FrameKinds
  <2> QED
    BY <1>6, <2>1 DEF OnMalformed, Done, Processed
<1>7. CASE OnPcapOwned(c) \/ OnPcapTooLate(c)
  <2>1. /\ Seq1(c) \in DOMAIN pushed' /\ pushed'[Seq1(c)].type = "pcap_upload"
        /\ pushed'[Seq1(c)].alert = Head(up[c]).alert
    BY <1>2, <1>7 DEF OnPcapOwned, OnPcapTooLate, FrameKinds
  <2>2. /\ Confirm(c, Seq1(c))
        /\ Head(up[c]).alert \in pcaps' \/ Seq1(c) \in abandoned'
    BY <1>7 DEF OnPcapOwned, OnPcapTooLate
  <2> QED
    BY <2>1, <2>2 DEF Done, Processed
<1> QED
  BY <1>3, <1>4, <1>5, <1>6, <1>7 DEF Serve

(* Of what the master has noted for the next ack. *)
LEMMA AckedEarnedStep ==
  ASSUME LossInv, [Next]_vars, StoresGrew
  PROVE  \A c \in Conns : acked'[c] \subseteq Done'
<1>1. /\ UplinkTypeOK /\ CopiesMatch /\ AcksAreEarned /\ Done \subseteq Done'
      /\ acked \in [Conns -> SUBSET Ids]
  BY DoneGrows DEF LossInv, UplinkTypeOK, MasterTypeOK
<1>2. \A c \in Conns : acked[c] \subseteq Done'
  BY <1>1 DEF AcksAreEarned
<1>3. CASE acked' = acked
  BY <1>2, <1>3
<1>4. ASSUME NEW c, NEW i \in Done', Confirm(c, i) PROVE \A d \in Conns : acked'[d] \subseteq Done'
  BY <1>1, <1>2, <1>4 DEF Confirm
<1>5. ASSUME NEW c \in Conns, Serve(c) PROVE \A d \in Conns : acked'[d] \subseteq Done'
  <2>1. acked' = acked \/ (Confirm(c, Seq1(c)) /\ Seq1(c) \in Done')
    BY <1>5, ServeEarns
  <2> QED
    BY <1>1, <1>2, <2>1 DEF Confirm
<1>6. ASSUME NEW r \in outstanding, KafkaReport(r)
      PROVE  \A d \in Conns : acked'[d] \subseteq Done'
  <2>1. /\ r.seq \in DOMAIN pushed /\ pushed[r.seq].type = r.type
        /\ r.type = "metric" => Processed(r.seq)
        /\ r.type \in {"alert", "metric"}
    BY <1>1 DEF CopiesMatch, UplinkTypeOK, MasterTypeOK, Records
  <2>2. r.seq \in Done'
    <3>1. CASE r.type = "metric"
      BY <1>1, <2>1, <3>1 DEF Done
    <3>2. CASE r.type = "alert"
      <4>1. r.seq \in alertsRaw' /\ r.seq \in DOMAIN pushed' /\ pushed'[r.seq].type = "alert"
        BY <1>6, <2>1, <3>2 DEF KafkaReport, StoresGrew
      <4> QED
        BY <4>1 DEF Done, Processed
    <3> QED
      BY <2>1, <3>1, <3>2
  <2>3. acked' = acked \/ Confirm(r.conn, r.seq)
    BY <1>6 DEF KafkaReport
  <2> QED
    BY <1>1, <1>2, <2>2, <2>3 DEF Confirm
<1>7. ASSUME NEW c \in Conns, FlushAcks(c) PROVE \A d \in Conns : acked'[d] \subseteq Done'
  BY <1>1, <1>2, <1>7 DEF FlushAcks
<1>8. ASSUME NEW C, ForgetConn(C) PROVE \A d \in Conns : acked'[d] \subseteq Done'
  BY <1>2, <1>8 DEF ForgetConn
<1>9. ASSUME NEW c \in Conns, HandlerEnds(c) \/ MarkRaises(c)
      PROVE  \A d \in Conns : acked'[d] \subseteq Done'
  BY <1>8, <1>9 DEF HandlerEnds, MarkRaises
<1>10. CASE MasterRestart
  BY <1>8, <1>10 DEF MasterRestart
<1>11. \A r : KafkaError(r) \/ PersistAlert(r) => acked' = acked
  BY DEF KafkaError, PersistAlert, master
<1>12. Producers \/ Sender \/ Zombie \/ Receiver \/ Connection \/ Clock => acked' = acked
  BY ProducersSpare
     DEF Sender, Pop, Redeliver, Fallback, SendFrame, EndBatch, Zombie, ZombieWakes,
         ZombieDies, Receiver, ReceiveHelloAck, ReceiveAck, Connection, Connect,
         Disconnect, TapRestart, Clock, AckTimeout, RedeliverAfter, master
<1> QED
  BY <1>3, <1>5, <1>6, <1>7, <1>9, <1>10, <1>11, <1>12 DEF Next, Master, vars, master

(* Of the acks under way. *)
LEMMA DownEarnedStep ==
  ASSUME LossInv, [Next]_vars, StoresGrew
  PROVE  \A c \in Conns : down'[c] \in Seq(EarnedAck')
<1>1. /\ TapTypeOK /\ UplinkTypeOK /\ AcksAreEarned /\ Done \subseteq Done'
      /\ down \in [Conns -> Seq(Down)]
  BY DoneGrows DEF LossInv, UplinkTypeOK, WireTypeOK
<1>2. down \in [Conns -> Seq(EarnedAck)]
  BY <1>1 DEF AcksAreEarned, EarnedAck
<1>3. EarnedAck \subseteq EarnedAck'
  BY <1>1 DEF EarnedAck, Down
<1>4. SUFFICES down' \in [Conns -> Seq(EarnedAck)]
  BY <1>3, SeqMonotonic
<1>5. \A c : \A m \in EarnedAck : [down EXCEPT ![c] = Append(@, m)] \in [Conns -> Seq(EarnedAck)]
  BY <1>2, ChannelSend
<1>6. ASSUME NEW c \in Conns, Serve(c) PROVE down' \in [Conns -> Seq(EarnedAck)]
  <2>1. HelloAck \in EarnedAck
    BY DEF HelloAck, EarnedAck, Down
  <2>2. down' = down \/ down' = [down EXCEPT ![c] = Append(@, HelloAck)]
    BY <1>6 DEF Serve, OnHello, OnAlert, OnMetric, OnHostProfile, OnMalformed,
                OnPcapOwned, OnPcapEarly, OnPcapTooLate, ToTap
  <2> QED
    <3>1. [down EXCEPT ![c] = Append(@, HelloAck)] \in [Conns -> Seq(EarnedAck)]
      BY <1>5, <2>1
    <3> QED
      BY <1>2, <2>2, <3>1
<1>7. ASSUME NEW c \in Conns, FlushAcks(c) PROVE down' \in [Conns -> Seq(EarnedAck)]
  <2>1. acked[c] \subseteq Done /\ acked[c] \subseteq Ids
    BY <1>1 DEF AcksAreEarned, UplinkTypeOK, MasterTypeOK
  <2>2. AckMsg(acked[c]) \in EarnedAck
    BY <2>1 DEF AckMsg, EarnedAck, Down
  <2>3. down' = down \/ down' = [down EXCEPT ![c] = Append(@, AckMsg(acked[c]))]
    BY <1>7 DEF FlushAcks, ToTap
  <2> QED
    <3>1. [down EXCEPT ![c] = Append(@, AckMsg(acked[c]))] \in [Conns -> Seq(EarnedAck)]
      BY <1>5, <2>2
    <3> QED
      BY <1>2, <2>3, <3>1
<1>8. CASE Receiver
  <2>1. link # 0 /\ down[link] # <<>>
    BY <1>8 DEF Receiver, ReceiveHelloAck, ReceiveAck, Arrives
  <2>2. conns \in 0..MaxConns /\ link \in 0..conns
    BY <1>1 DEF TapTypeOK
  <2>3. link \in Conns
    BY <2>1, <2>2, UplinkAssumption DEF Conns
  <2>4. down' = [down EXCEPT ![link] = Tail(@)]
    BY <1>8 DEF Receiver, ReceiveHelloAck, ReceiveAck, Received
  <2> QED
    BY <1>2, <2>1, <2>3, <2>4, ChannelReceive
<1>9. CASE Disconnect \/ TapRestart
  <2>1. down' = down \/ down' = [down EXCEPT ![link] = <<>>]
    BY <1>9 DEF Disconnect, TapRestart
  <2>2. [down EXCEPT ![link] = <<>>] \in [Conns -> Seq(EarnedAck)]
    BY <1>2, ChannelClear
  <2> QED
    BY <1>2, <2>1, <2>2
<1>10. CASE UNCHANGED down
  BY <1>2, <1>10
<1>11. Producers \/ Sender \/ Zombie \/ Connect \/ Clock => UNCHANGED down
  BY ProducersSpare
     DEF Sender, Pop, Redeliver, Fallback, SendFrame, EndBatch, Zombie, ZombieWakes,
         ZombieDies, Connect, Clock, AckTimeout, RedeliverAfter
<1>12. \A r : HandlerEnds(r) \/ MarkRaises(r) \/ KafkaReport(r) \/ KafkaError(r)
             \/ PersistAlert(r) \/ MasterRestart
               => UNCHANGED down
  BY DEF HandlerEnds, MarkRaises, KafkaReport, KafkaError, PersistAlert, MasterRestart
<1> QED
  BY <1>6, <1>7, <1>8, <1>9, <1>10, <1>11, <1>12 DEF Next, Connection, Master, vars
-----------------------------------------------------------------------------
(* CopiesMatch, one kind of copy after the other. *)

PushedNumbered == DOMAIN pushed \subseteq 1..lastId
Pushed(f) == \A i \in DOMAIN f : i \in DOMAIN pushed /\ f[i] = pushed[i]

LEMMA RowsMatchStep ==
  ASSUME LossInv, [Next]_vars
  PROVE  PushedNumbered' /\ Pushed(rows)'
<1> USE DEF PushedNumbered, Pushed
<1>1. /\ UplinkTypeOK /\ CopiesMatch /\ lastId \in Nat
      /\ DOMAIN pushed \subseteq 1..lastId
      /\ \A i \in DOMAIN rows : i \in DOMAIN pushed /\ rows[i] = pushed[i]
  BY DEF LossInv, CopiesMatch, UplinkTypeOK, TapTypeOK, DQ!QueueTypeOK
<1>2. ASSUME NEW f \in Frame, PushFrame(f) PROVE PushedNumbered' /\ Pushed(rows)'
  <2>1. /\ lastId' = lastId + 1 /\ lastId' \notin DOMAIN pushed
        /\ DOMAIN pushed' = DOMAIN pushed \union {lastId'}
        /\ pushed'[lastId'] = f
        /\ \A i \in DOMAIN pushed : pushed'[i] = pushed[i]
        /\ DOMAIN rows' \subseteq DOMAIN rows \union {lastId'}
        /\ \A i \in DOMAIN rows' : rows'[i] = IF i = lastId' THEN f ELSE rows[i]
    BY <1>1, <1>2, PushHistory
  <2>2. PushedNumbered'
    BY <1>1, <2>1
  <2>3. Pushed(rows)'
    BY <1>1, <2>1
  <2> QED
    BY <2>2, <2>3
<1>3. CASE QueueStays
  BY <1>1, <1>3 DEF QueueStays
<1>4. CASE QueueReleases
  BY <1>1, <1>4 DEF QueueReleases
<1>5. CASE QueueConfirms
  BY <1>1, <1>5 DEF QueueConfirms
<1> QED
  BY <1>1, <1>2, <1>3, <1>4, <1>5, QueueSteps

LEMMA PoppedMatches ==
  ASSUME NEW r, NEW from, StoresGrew,
         \A i \in DOMAIN r : i \in DOMAIN pushed /\ r[i] = pushed[i],
         StartBatch(Popped(r, from))
  PROVE  Pushed(batch)'
BY PoppedFacts DEF StartBatch, StoresGrew, Pushed

LEMMA BatchMatchesStep ==
  ASSUME LossInv, [Next]_vars, StoresGrew
  PROVE  Pushed(batch)'
<1>1. /\ \A i \in DOMAIN batch : i \in DOMAIN pushed /\ batch[i] = pushed[i]
      /\ \A i \in DOMAIN rows : i \in DOMAIN pushed /\ rows[i] = pushed[i]
  BY DEF LossInv, CopiesMatch
<1>2. CASE Pop
  BY <1>1, <1>2, PoppedMatches DEF Pop
<1>3. CASE Redeliver
  BY <1>1, <1>3, PoppedMatches DEF Redeliver
<1>4. CASE Fallback
  <2>1. StartBatch(Popped(rows', cursor)) /\ UNCHANGED pushed
    BY <1>4 DEF Fallback
  <2>2. Pushed(rows)'
    BY RowsMatchStep
  <2>3. \A i \in DOMAIN rows' : i \in DOMAIN pushed /\ rows'[i] = pushed[i]
    BY <2>1, <2>2 DEF Pushed
  <2> QED
    BY <2>1, <2>3, PoppedMatches
<1>5. CASE SendFrame
  <2>1. PICK i \in First(batch) : batch' = Restrict(batch, DOMAIN batch \ {i})
    BY <1>5 DEF SendFrame
  <2> QED
    BY <1>1, <2>1 DEF StoresGrew, Restrict, Pushed
<1>6. CASE Resting
  BY <1>6 DEF Resting, Empty, Pushed
<1>7. CASE UNCHANGED batch
  BY <1>1, <1>7 DEF StoresGrew, Pushed
<1>8. EndBatch \/ Connection => Resting
  BY DEF EndBatch, Connection, Connect, Disconnect, TapRestart
<1>9. Producers \/ Zombie \/ Receiver \/ Clock => UNCHANGED batch
  BY ProducersSpare
     DEF Zombie, ZombieWakes, ZombieDies, Receiver, ReceiveHelloAck, ReceiveAck,
         Clock, AckTimeout, RedeliverAfter, sender
<1> QED
  BY <1>2, <1>3, <1>4, <1>5, <1>6, <1>7, <1>8, <1>9, MasterSparesTap
     DEF Next, Sender, vars, tap, sender

LEMMA WireMatchesStep ==
  ASSUME LossInv, [Next]_vars, StoresGrew
  PROVE  up' \in [Conns -> Seq(MatchingUp')]
<1>1. /\ UplinkTypeOK /\ CopiesMatch
      /\ up \in [Conns -> Seq(MatchingUp)]
  BY DEF LossInv, CopiesMatch
<1>2. MatchingUp \subseteq MatchingUp'
  BY DEF MatchingUp, StoresGrew, Up
<1>3. SUFFICES up' \in [Conns -> Seq(MatchingUp)]
  BY <1>2, SeqMonotonic
<1>4. CASE Connect
  <2>1. Msg("hello", 0, 0) \in MatchingUp
    BY DEF Msg, MatchingUp, Up
  <2>2. <<Msg("hello", 0, 0)>> \in Seq(MatchingUp)
    BY <2>1
  <2> QED
    BY <1>1, <1>4, <2>2 DEF Connect
<1>5. CASE SendFrame
  <2>1. PICK i \in First(batch) :
          up' = IF handler[link] = "open"
                THEN [up EXCEPT ![link] = Append(@, Msg(batch[i].type, i, batch[i].alert))]
                ELSE up
    BY <1>5 DEF SendFrame
  <2>2. /\ i \in DOMAIN pushed /\ batch[i] = pushed[i]
        /\ i \in Ids /\ batch[i] \in Frame
    BY <1>1, <2>1 DEF First, CopiesMatch, UplinkTypeOK, TapTypeOK
  <2>3. Msg(batch[i].type, i, batch[i].alert) \in MatchingUp
    BY <2>2 DEF Frame, Msg, Up, MatchingUp
  <2> QED
    <3>1. \A m \in MatchingUp :
            [up EXCEPT ![link] = Append(@, m)] \in [Conns -> Seq(MatchingUp)]
      BY <1>1, ChannelSend
    <3> QED
      BY <1>1, <2>1, <2>3, <3>1
<1>6. ASSUME NEW c \in Conns, Serve(c) PROVE up' \in [Conns -> Seq(MatchingUp)]
  <2>1. Taken(c) /\ up[c] # <<>>
    BY <1>6 DEF Serve, OnHello, OnAlert, OnMetric, OnHostProfile, OnMalformed,
                OnPcapOwned, OnPcapEarly, OnPcapTooLate, Sees
  <2> QED
    BY <1>1, <2>1, ChannelReceive DEF Taken
<1>7. ASSUME NEW C, ForgetConn(C) PROVE up' \in [Conns -> Seq(MatchingUp)]
  BY <1>1, <1>7, EmptySeq DEF ForgetConn
<1>8. ASSUME NEW c \in Conns, HandlerEnds(c) \/ MarkRaises(c)
      PROVE  up' \in [Conns -> Seq(MatchingUp)]
  BY <1>7, <1>8 DEF HandlerEnds, MarkRaises
<1>9. CASE MasterRestart
  BY <1>7, <1>9 DEF MasterRestart
<1>10. CASE UNCHANGED up
  BY <1>1, <1>10
<1>11. Producers \/ Pop \/ Redeliver \/ Fallback \/ EndBatch \/ Zombie \/ Receiver
         \/ Disconnect \/ TapRestart \/ Clock => UNCHANGED up
  BY ProducersSpare
     DEF Pop, Redeliver, Fallback, EndBatch, Zombie, ZombieWakes, ZombieDies,
         Receiver, ReceiveHelloAck, ReceiveAck, Disconnect, TapRestart, Clock,
         AckTimeout, RedeliverAfter
<1>12. \A r : FlushAcks(r) \/ KafkaReport(r) \/ KafkaError(r) \/ PersistAlert(r)
                => UNCHANGED up
  BY DEF FlushAcks, KafkaReport, KafkaError, PersistAlert
<1> QED
  BY <1>4, <1>5, <1>6, <1>8, <1>9, <1>10, <1>11, <1>12
     DEF Next, Sender, Connection, Master, vars

(* A record with the producer. *)
RecordMatches(r) ==
  /\ r.seq \in DOMAIN pushed /\ pushed[r.seq].type = r.type
  /\ r.type = "metric" => Processed(r.seq)

LEMMA RecordsMatchStep ==
  ASSUME LossInv, [Next]_vars, StoresGrew, NEW r \in outstanding'
  PROVE  RecordMatches(r)'
<1>1. /\ UplinkTypeOK /\ CopiesMatch /\ Done \subseteq Done'
      /\ metricCount \in [Ids -> Nat] /\ DOMAIN pushed \subseteq Ids
  BY DoneGrows DEF LossInv, UplinkTypeOK, MasterTypeOK, HistoryTypeOK
<1>2. ASSUME r \in outstanding PROVE RecordMatches(r)'
  <2>1. RecordMatches(r)
    BY <1>1, <1>2 DEF CopiesMatch, RecordMatches
  <2>2. r.type = "metric" => Processed(r.seq)'
    BY <1>1, <2>1 DEF RecordMatches, Done
  <2> QED
    BY <2>1, <2>2 DEF RecordMatches, StoresGrew
<1>3. ASSUME NEW c \in Conns, OnAlert(c) PROVE RecordMatches(r)'
  <2>1. r \in outstanding \/ r = Record(c, Seq1(c), "alert")
    BY <1>3 DEF OnAlert
  <2>2. Seq1(c) \in DOMAIN pushed /\ pushed[Seq1(c)].type = "alert"
    BY <1>1, <1>3, SeenWasPushed DEF OnAlert, FrameKinds
  <2> QED
    BY <1>2, <2>1, <2>2 DEF Record, RecordMatches, StoresGrew
<1>4. ASSUME NEW c \in Conns, OnMetric(c) PROVE RecordMatches(r)'
  <2>1. \/ r \in outstanding
        \/ /\ r = Record(c, Seq1(c), "metric")
           /\ metricCount' = [metricCount EXCEPT ![Seq1(c)] = @ + 1]
    BY <1>4 DEF OnMetric
  <2>2. Seq1(c) \in DOMAIN pushed /\ pushed[Seq1(c)].type = "metric"
    BY <1>1, <1>4, SeenWasPushed DEF OnMetric, FrameKinds
  <2>3. CASE r \notin outstanding
    <3>1. metricCount'[Seq1(c)] > 0
      BY <1>1, <2>1, <2>2, <2>3
    <3>2. pushed'[Seq1(c)].type = "metric" /\ Seq1(c) \in DOMAIN pushed'
      BY <2>2 DEF StoresGrew
    <3> QED
      BY <2>1, <2>3, <3>1, <3>2 DEF Record, RecordMatches, Processed
  <2> QED
    BY <1>2, <2>3
<1>5. ASSUME NEW c \in Conns, Serve(c), ~OnAlert(c), ~OnMetric(c) PROVE outstanding' = outstanding
  BY <1>5 DEF Serve, OnHello, OnHostProfile, OnMalformed, OnPcapOwned, OnPcapEarly,
              OnPcapTooLate, master
<1>6. ASSUME NEW c \in Conns, FlushAcks(c) \/ HandlerEnds(c) \/ MarkRaises(c)
      PROVE  outstanding' = outstanding
  BY <1>6 DEF FlushAcks, HandlerEnds, MarkRaises
<1>7. ASSUME NEW s, KafkaReport(s) \/ KafkaError(s) \/ PersistAlert(s)
      PROVE  outstanding' \subseteq outstanding
  BY <1>7 DEF KafkaReport, KafkaError, PersistAlert, master
<1>8. MasterRestart => outstanding' \subseteq outstanding
  BY DEF MasterRestart
<1>9. Producers \/ Sender \/ Zombie \/ Receiver \/ Connection \/ Clock
        => outstanding' = outstanding
  BY ProducersSpare
     DEF Sender, Pop, Redeliver, Fallback, SendFrame, EndBatch, Zombie, ZombieWakes,
         ZombieDies, Receiver, ReceiveHelloAck, ReceiveAck, Connection, Connect,
         Disconnect, TapRestart, Clock, AckTimeout, RedeliverAfter, master
<1>10. ASSUME NEW c \in Conns, Serve(c) PROVE RecordMatches(r)'
  BY <1>2, <1>3, <1>4, <1>5, <1>10
<1> QED
  BY <1>2, <1>6, <1>7, <1>8, <1>9, <1>10 DEF Next, Master, vars, master
-----------------------------------------------------------------------------
(* The initial state. *)
LEMMA LossInit == Init => LossInv
<1> SUFFICES ASSUME Init PROVE LossInv
  OBVIOUS
<1>1. UplinkTypeOK
  BY UplinkTypeInit
<1>2. DOMAIN pushed = {} /\ DOMAIN batch = {} /\ DOMAIN rows = {} /\ outstanding = {}
  BY DEF Init, Empty, DQ!QueueInit
<1>3. up \in [Conns -> Seq(MatchingUp)] /\ down \in [Conns -> Seq(EarnedAck)]
  BY EmptySeq DEF Init
<1>4. CopiesMatch
  BY <1>2, <1>3 DEF CopiesMatch
<1>5. AcksAreEarned
  BY <1>3 DEF Init, AcksAreEarned, EarnedAck
<1>6. NothingLost
  BY <1>2 DEF NothingLost, Confirmed
<1> QED
  BY <1>1, <1>4, <1>5, <1>6 DEF LossInv

(* Every step. *)
LEMMA LossStep ==
  ASSUME LossInv, [Next]_vars
  PROVE  LossInv'
<1>1. UplinkTypeOK /\ CopiesMatch
  BY DEF LossInv
<1>2. StoresGrew
  BY <1>1, StoresGrow
<1>3. UplinkTypeOK'
  BY <1>1, TapTypeStep, WireTypeStep, MasterTypeStep, HistoryTypeStep DEF UplinkTypeOK
<1>4. NothingLost'
  BY <1>2, NothingLostStep
<1>5. AcksAreEarned'
  BY <1>2, AckedEarnedStep, DownEarnedStep DEF AcksAreEarned, EarnedAck
<1>6. CopiesMatch'
  <2>1. \A r \in outstanding' : RecordMatches(r)'
    BY <1>2, RecordsMatchStep
  <2> QED
    BY <1>2, <2>1, RowsMatchStep, BatchMatchesStep, WireMatchesStep
       DEF CopiesMatch, PushedNumbered, Pushed, RecordMatches
<1> QED
  BY <1>3, <1>4, <1>5, <1>6 DEF LossInv

LEMMA LossInvariant == Spec => []LossInv
BY LossInit, LossStep, PTL DEF Spec

(* No frame is lost between tap and master: a row that has left the tap's  *)
(* queue other than through the size cap or the Alt-Master mode has been   *)
(* processed by handle_tap.                                                *)
THEOREM NoFrameIsLost == Spec => []NothingLost
<1>1. LossInv => NothingLost
  BY DEF LossInv
<1> QED
  BY <1>1, LossInvariant, PTL

(* handle_tap only ever confirms frames it has processed.                  *)
THEOREM AcksEarned == Spec => []AcksAreEarned
<1>1. LossInv => AcksAreEarned
  BY DEF LossInv
<1> QED
  BY <1>1, LossInvariant, PTL

(* Every copy of a frame carries the id of its row.                        *)
THEOREM CopiesAlwaysMatch == Spec => []CopiesMatch
<1>1. LossInv => CopiesMatch
  BY DEF LossInv
<1> QED
  BY <1>1, LossInvariant, PTL

-----------------------------------------------------------------------------
(***************************************************************************)
(* The refinement of AtLeastOnce, which needs all of LossInv: that an ack  *)
(* forgets only what was processed rests on AcksAreEarned, that a new      *)
(* frame is a new one for the abstract queue on CopiesMatch.               *)
(***************************************************************************)
LEMMA DeliveryInit == Init => ALO!AInit
<1> SUFFICES ASSUME Init PROVE ALO!AInit
  OBVIOUS
<1>1. DOMAIN pushed = {} /\ DOMAIN rows = {} /\ lastId = 0
  BY DEF Init, Empty, DQ!QueueInit
<1>2. Done = {}
  BY <1>1 DEF Done
<1>3. trimmed = {} /\ released = {}
  BY DEF Init
<1> QED
  BY <1>1, <1>2, <1>3 DEF ALO!AInit

(* What is done depends on the stores and on the frame alone. *)
LEMMA ProcessedSame ==
  ASSUME UNCHANGED <<stores, skipped, abandoned>>,
         NEW i, pushed'[i] = pushed[i]
  PROVE  Processed(i)' <=> Processed(i)
  BY DEF stores, Processed

LEMMA DoneSame ==
  ASSUME UNCHANGED <<stores, pushed, skipped, abandoned>>
  PROVE  Done' = Done
<1>1. \A i : Processed(i)' <=> Processed(i)
  BY ProcessedSame
<1> QED
  BY <1>1 DEF Done

(* A push is the acceptance of a frame. *)
LEMMA PushAccepts ==
  ASSUME UplinkTypeOK, CopiesMatch, UNCHANGED <<stores, skipped, abandoned>>,
         NEW f \in Frame, PushFrame(f)
  PROVE  ALO!Accept
<1> DEFINE D == (DOMAIN rows \union {lastId + 1}) \ DOMAIN rows'
<1>1. /\ lastId' = lastId + 1 /\ lastId' \notin DOMAIN pushed
      /\ DOMAIN pushed' = DOMAIN pushed \union {lastId'}
      /\ \A i \in DOMAIN pushed : pushed'[i] = pushed[i]
      /\ DOMAIN rows' \subseteq DOMAIN rows \union {lastId'}
  BY PushHistory
<1>2. lastId < MaxId
  BY PushFacts DEF PushFrame, UplinkTypeOK, TapTypeOK
<1>3. DOMAIN rows' = (DOMAIN rows \union {lastId + 1}) \ D
  BY <1>1
<1>4. trimmed' \union released' = (trimmed \union released) \union D
  BY <1>1 DEF PushFrame
<1>5. \A i \in DOMAIN pushed : Processed(i)' <=> Processed(i)
  BY <1>1, ProcessedSame
<1>6. Done' \in {Done, Done \union {lastId + 1}}
  <2>1. CASE lastId' \in Done'
    <3>1. \A i : i \in Done' <=> i \in Done \/ i = lastId'
      BY <1>1, <1>5, <2>1 DEF Done
    <3>2. Done' = Done \union {lastId + 1}
      BY <1>1, <3>1
    <3> QED
      BY <3>2, Zenon
  <2>2. CASE lastId' \notin Done'
    <3>1. \A i : i \in Done' <=> i \in Done
      BY <1>1, <1>5, <2>2 DEF Done
    <3>2. Done' = Done
      BY <3>1
    <3> QED
      BY <3>2, Zenon
  <2> QED
    BY <2>1, <2>2
<1>7. D \in SUBSET (DOMAIN rows \union {lastId + 1})
  OBVIOUS
<1> HIDE DEF D
<1> QED
  BY <1>1, <1>2, <1>3, <1>4, <1>6, <1>7 DEF ALO!Accept

(* A step of the tap that is no push: what leaves the queue is given up or *)
(* forgotten, and nothing is processed.                                    *)
LEMMA TapKeepsPromise ==
  ASSUME LossInv, [Next]_vars, UNCHANGED <<stores, pushed, skipped, abandoned>>
  PROVE  [ALO!ANext]_(ALO!aloVars)
<1>1. UplinkTypeOK /\ CopiesMatch /\ AcksAreEarned
  BY DEF LossInv
<1>2. Done' = Done
  BY DoneSame
<1>3. ~ \E f \in Frame : PushFrame(f)
  BY <1>1, PushHistory
<1>4. CASE QueueStays
  BY <1>2, <1>4 DEF QueueStays, ALO!aloVars
<1>5. CASE QueueReleases
  <2>1. PICK ids : /\ DOMAIN rows' = DOMAIN rows \ ids
                   /\ released' = released \union (ids \intersect DOMAIN rows)
    BY <1>5 DEF QueueReleases
  <2> DEFINE S == ids \intersect DOMAIN rows
  <2>2. S \in SUBSET DOMAIN rows /\ DOMAIN rows' = DOMAIN rows \ S
    BY <2>1
  <2>3. trimmed' \union released' = (trimmed \union released) \union S /\ lastId' = lastId
    BY <1>5, <2>1 DEF QueueReleases
  <2> HIDE DEF S
  <2>4. ALO!GiveUp
    BY <1>2, <2>2, <2>3 DEF ALO!GiveUp
  <2> QED
    BY <2>4 DEF ALO!ANext
<1>6. CASE ReceiveAck /\ QueueConfirms
  <2> DEFINE S == Head(down[link]).seqs \intersect DOMAIN rows
  <2>1. Head(down[link]).seqs \subseteq Done
    BY <1>1, <1>6, ArrivingAckEarned
  <2>2. S \in SUBSET (DOMAIN rows \intersect Done)
    BY <2>1
  <2>3. DOMAIN rows' = DOMAIN rows \ S /\ UNCHANGED <<lastId, trimmed, released>>
    BY <1>6 DEF QueueConfirms
  <2> HIDE DEF S
  <2>4. ALO!Forget
    BY <1>2, <2>2, <2>3 DEF ALO!Forget
  <2> QED
    BY <2>4 DEF ALO!ANext
<1> QED
  BY <1>1, <1>3, <1>4, <1>5, <1>6, QueueSteps

(* A step of the master processes frames, and does nothing else. *)
LEMMA MasterProcesses ==
  ASSUME LossInv, Master
  PROVE  ALO!Process
<1>1. UplinkTypeOK /\ CopiesMatch
  BY DEF LossInv
<1>2. UNCHANGED <<rows, lastId>>
  BY MasterSparesTap DEF queue
<1>3. UNCHANGED <<pushed, trimmed, released>>
  BY DEF Master, Serve, OnHello, OnAlert, OnMetric, OnHostProfile, OnMalformed,
         OnPcapOwned, OnPcapEarly, OnPcapTooLate, FlushAcks, HandlerEnds, MarkRaises,
         KafkaReport, KafkaError, MasterRestart, PersistAlert, history
<1>4. Done \subseteq Done'
  BY <1>1, StoresGrow, DoneGrows DEF Next
<1>5. Done' \subseteq 1..lastId
  BY <1>1, <1>3 DEF Done, CopiesMatch
<1>6. Done' = Done \union (Done' \ Done) /\ Done' \ Done \in SUBSET (1..lastId)
  BY <1>4, <1>5
<1> QED
  BY <1>2, <1>3, <1>6 DEF ALO!Process

LEMMA DeliveryStep ==
  ASSUME LossInv, [Next]_vars
  PROVE  [ALO!ANext]_(ALO!aloVars)
<1>1. UplinkTypeOK /\ CopiesMatch
  BY DEF LossInv
<1>2. CASE Producers
  <2>1. UNCHANGED <<stores, skipped, abandoned>>
    BY <1>2, ProducersSpare
  <2>2. ASSUME NEW f \in Frame, PushFrame(f) PROVE ALO!Accept
    BY <1>1, <2>1, <2>2, PushAccepts
  <2>3. CASE UNCHANGED <<queue, history>>
    <3>1. UNCHANGED <<stores, pushed, skipped, abandoned>>
      BY <2>1, <2>3 DEF history
    <3> QED
      BY <3>1, TapKeepsPromise
  <2> QED
    BY <1>1, <1>2, <2>2, <2>3, ProducersPush DEF ALO!ANext
<1>3. CASE Sender \/ Zombie \/ Receiver \/ Connection \/ Clock
  <2>1. UNCHANGED <<stores, pushed, skipped, abandoned>>
    BY <1>3
       DEF Sender, Pop, Redeliver, Fallback, SendFrame, EndBatch, Zombie, ZombieWakes,
           ZombieDies, Receiver, ReceiveHelloAck, ReceiveAck, Connection, Connect,
           Disconnect, TapRestart, Clock, AckTimeout, RedeliverAfter, history
  <2> QED
    BY <2>1, TapKeepsPromise
<1>4. CASE Master
  BY <1>4, MasterProcesses DEF ALO!ANext
<1>5. CASE UNCHANGED vars
  <2>1. UNCHANGED <<stores, pushed, skipped, abandoned>>
    BY <1>5 DEF vars, history
  <2> QED
    BY <2>1, TapKeepsPromise
<1> QED
  BY <1>2, <1>3, <1>4, <1>5 DEF Next

(* The tap's queue and the master's handlers implement at-least-once       *)
(* delivery: whatever the sender, the receiver, the zombies, the size cap, *)
(* handle_tap, Kafka and MinIO do, a frame is accepted, processed once or  *)
(* more, and forgotten only then, or given up by the cap or the Alt-Master *)
(* mode.                                                                   *)
THEOREM UplinkDelivers == Spec => DeliversAtLeastOnce
<1>1. Init => ALO!AInit
  BY DeliveryInit
<1>2. LossInv /\ [Next]_vars => [ALO!ANext]_(ALO!aloVars)
  BY DeliveryStep
<1> QED
  BY <1>1, <1>2, LossInvariant, PTL DEF Spec, DeliversAtLeastOnce, ALO!ASpec
-----------------------------------------------------------------------------
(* A metric above the high-water mark was not produced in this life of the *)
(* master, and one below it once.                                          *)
MetricInv ==
  \A i \in Ids : metricCount[i] <= restarts + (IF i <= metricHw THEN 1 ELSE 0)

LEMMA MetricInit == Init => MetricInv
  BY DEF Init, MetricInv, Ids

(* Only OnMetric and a restart of the master touch the counters. *)
LEMMA MetricStep ==
  ASSUME LossInv, MetricInv, [Next]_vars
  PROVE  MetricInv'
<1>1. /\ UplinkTypeOK /\ CopiesMatch
      /\ metricCount \in [Ids -> Nat] /\ metricHw \in Nat /\ restarts \in Nat
      /\ Ids \subseteq Nat
  BY UplinkAssumption DEF LossInv, UplinkTypeOK, MasterTypeOK, HistoryTypeOK, Ids
<1>2. CASE UNCHANGED <<metricCount, metricHw, restarts>>
  BY <1>2 DEF MetricInv
<1>3. ASSUME NEW c \in Conns, OnMetric(c) PROVE MetricInv'
  <2>1. Seq1(c) \in Ids
    BY <1>1, <1>3, SeenWasPushed DEF OnMetric, FrameKinds, UplinkTypeOK, HistoryTypeOK
  <2>2. restarts' = restarts
    BY <1>3 DEF OnMetric
  <2>3. CASE UNCHANGED <<metricCount, metricHw>>
    BY <1>2, <2>2, <2>3
  <2>4. CASE /\ Seq1(c) > metricHw
             /\ metricCount' = [metricCount EXCEPT ![Seq1(c)] = @ + 1]
             /\ metricHw' = Seq1(c)
    <3> SUFFICES ASSUME NEW i \in Ids
                 PROVE  metricCount'[i] <= restarts + (IF i <= metricHw' THEN 1 ELSE 0)
      BY <2>2 DEF MetricInv
    <3>1. /\ metricCount[i] <= restarts + (IF i <= metricHw THEN 1 ELSE 0)
          /\ metricCount'[i] = IF i = Seq1(c) THEN metricCount[i] + 1 ELSE metricCount[i]
          /\ metricCount[i] \in Nat /\ i \in Nat /\ Seq1(c) \in Nat
      BY <1>1, <2>1, <2>4 DEF MetricInv
    <3> QED
      BY <1>1, <2>4, <3>1
  <2> QED
    BY <1>3, <2>3, <2>4 DEF OnMetric
<1>4. CASE MasterRestart
  <2>1. metricCount' = metricCount /\ restarts' = restarts + 1 /\ metricHw' = 0
    BY <1>4 DEF MasterRestart
  <2> SUFFICES ASSUME NEW i \in Ids
               PROVE  metricCount'[i] <= restarts' + (IF i <= metricHw' THEN 1 ELSE 0)
    BY DEF MetricInv
  <2>2. metricCount[i] <= restarts + (IF i <= metricHw THEN 1 ELSE 0) /\ metricCount[i] \in Nat
    BY <1>1 DEF MetricInv
  <2> QED
    BY <1>1, <2>1, <2>2
<1>5. Producers \/ Sender \/ Zombie \/ Receiver \/ Connection \/ Clock
        => UNCHANGED <<metricCount, metricHw, restarts>>
  BY DEF Producers, Consume, FlushPcap, PushFrame, Sender, Pop, Redeliver, Fallback,
         SendFrame, EndBatch, Zombie, ZombieWakes, ZombieDies, Receiver, ReceiveHelloAck,
         ReceiveAck, Connection, Connect, Disconnect, TapRestart, Clock, AckTimeout,
         RedeliverAfter, master, stores, history
<1>6. \A c : \/ OnHello(c) \/ OnAlert(c) \/ OnHostProfile(c) \/ OnMalformed(c)
            \/ OnPcapOwned(c) \/ OnPcapEarly(c) \/ OnPcapTooLate(c) \/ FlushAcks(c)
            \/ HandlerEnds(c) \/ MarkRaises(c) \/ KafkaReport(c) \/ KafkaError(c)
            \/ PersistAlert(c)
              => UNCHANGED <<metricCount, metricHw, restarts>>
  BY DEF OnHello, OnAlert, OnHostProfile, OnMalformed, OnPcapOwned, OnPcapEarly,
         OnPcapTooLate, FlushAcks, HandlerEnds, MarkRaises, KafkaReport, KafkaError,
         PersistAlert, master, stores, history
<1>7. UNCHANGED vars => UNCHANGED <<metricCount, metricHw, restarts>>
  BY DEF vars, master, stores, history
<1> QED
  BY <1>2, <1>3, <1>4, <1>5, <1>6, <1>7 DEF Next, Master, Serve

(* The high-water mark of handle_tap keeps redelivered metrics from being  *)
(* produced twice in one life of the master: one that is counted twice has *)
(* met a restart.                                                          *)
THEOREM MetricsCountOnce == Spec => []MetricOncePerLife
<1>1. LossInv /\ MetricInv => MetricOncePerLife
  <2> SUFFICES ASSUME LossInv, MetricInv, NEW i \in Ids PROVE metricCount[i] <= 1 + restarts
    BY DEF MetricOncePerLife
  <2>1. /\ metricCount[i] \in Nat /\ restarts \in Nat
        /\ metricCount[i] <= restarts + (IF i <= metricHw THEN 1 ELSE 0)
    BY DEF LossInv, UplinkTypeOK, MasterTypeOK, HistoryTypeOK, MetricInv
  <2> QED
    BY <2>1
<1> QED
  BY <1>1, MetricInit, MetricStep, LossInvariant, PTL DEF Spec

-----------------------------------------------------------------------------
(***************************************************************************)
(* The send window of a tap: it is overshot by no more than a batch, and   *)
(* the cursor leaves no frame behind.                                      *)
(*                                                                         *)
(* Neither holds of a step alone.  The bound needs the length of what is   *)
(* left of the batch, and that Alt-Master mode books nothing; the cursor   *)
(* needs the batch to be a gapless stretch of the table just above it, and *)
(* new ids to come after it.                                               *)
(***************************************************************************)
(* The queue counts its ids with the same Cardinality. *)
LEMMA OldestMembers ==
  \A S, n, i : i \in DQ!Oldest(S, n) <=> i \in S /\ Cardinality({j \in S : j < i}) < n
<1>1. \A S : DQ!Cardinality(S) = Cardinality(S)
  BY DEF DQ!Cardinality, Cardinality
<1> QED
  BY <1>1 DEF DQ!Oldest

(* The ids below an id: how many they are tells the ids apart. *)
LEMMA BelowFacts ==
  ASSUME NEW m \in Nat, NEW S \in SUBSET (1..m), NEW i \in S, NEW k \in S, i < k
  PROVE  LET Below(x) == {l \in S : l < x}
         IN  /\ Cardinality(Below(i)) \in Nat /\ Cardinality(Below(k)) \in Nat
             /\ Cardinality(Below(i)) < Cardinality(Below(k))
<1> DEFINE Below(x) == {l \in S : l < x}
<1>1. IsFiniteSet(1..m)
  BY FS_Interval
<1>2. Below(i) \in SUBSET (1..m) /\ Below(k) \in SUBSET (1..m)
  OBVIOUS
<1>3. Below(i) \in SUBSET Below(k) /\ i \in Below(k) /\ i \notin Below(i)
  <2>1. \A l \in S : l \in Nat
    OBVIOUS
  <2>2. \A l \in S : l < i => l < k
    BY <2>1
  <2>3. i \in Below(k) /\ i \notin Below(i)
    BY <2>1
  <2>4. Below(i) \in SUBSET Below(k)
    BY <2>2
  <2> QED
    BY <2>3, <2>4
<1> HIDE DEF Below
<1>4. IsFiniteSet(Below(i)) /\ IsFiniteSet(Below(k))
  BY <1>1, <1>2, FS_Subset
<1>5. Cardinality(Below(i)) \in Nat /\ Cardinality(Below(k)) \in Nat
  BY <1>4, FS_CardinalityType
<1>6. Cardinality(Below(i)) <= Cardinality(Below(k))
  BY <1>3, <1>4, FS_Subset
<1>7. Cardinality(Below(k)) = Cardinality(Below(i)) => Below(k) = Below(i)
  BY <1>3, <1>4, FS_Subset
<1>8. Cardinality(Below(i)) < Cardinality(Below(k))
  BY <1>3, <1>5, <1>6, <1>7
<1> QED
  BY <1>5, <1>8 DEF Below

(* A row that comes before one of the oldest is one of them. *)
LEMMA OldestIsHead ==
  ASSUME NEW m \in Nat, NEW S \in SUBSET (1..m), NEW n \in Nat,
         NEW i \in DQ!Oldest(S, n), NEW j \in S, j < i
  PROVE  j \in DQ!Oldest(S, n)
<1>1. i \in S /\ Cardinality({l \in S : l < i}) < n
  BY OldestMembers
<1>2. /\ Cardinality({l \in S : l < i}) \in Nat /\ Cardinality({l \in S : l < j}) \in Nat
      /\ Cardinality({l \in S : l < j}) < Cardinality({l \in S : l < i})
  BY <1>1, BelowFacts
<1>3. Cardinality({l \in S : l < j}) < n
  BY <1>1, <1>2
<1> QED
  BY <1>3, OldestMembers

(* The n oldest are n at most: each of them has a place below n, its own.  *)
LEMMA OldestAreFew ==
  ASSUME NEW m \in Nat, NEW S \in SUBSET (1..m), NEW n \in Nat
  PROVE  IsFiniteSet(DQ!Oldest(S, n)) /\ Cardinality(DQ!Oldest(S, n)) <= n
<1> DEFINE O == DQ!Oldest(S, n)
           place(k) == Cardinality({l \in S : l < k})
           Place == [k \in O |-> place(k)]
<1>1. IsFiniteSet(1..m)
  BY FS_Interval
<1>2. \A k : {l \in S : l < k} \in SUBSET (1..m)
  OBVIOUS
<1>3. \A k : place(k) \in Nat
  BY <1>1, <1>2, FS_Subset, FS_CardinalityType
<1>4. \A k \in O : k \in S /\ k \in Nat /\ place(k) < n
  <2>1. \A k \in O : k \in S /\ place(k) < n
    BY OldestMembers
  <2>2. \A k \in S : k \in Nat
    OBVIOUS
  <2> QED
    BY <2>1, <2>2
<1>5. \A i, k \in O : i < k => place(i) < place(k)
  BY <1>4, BelowFacts
<1> HIDE DEF O, place
<1>6. \A i, k \in O : i # k => place(i) # place(k)
  <2> SUFFICES ASSUME NEW i \in O, NEW k \in O, i # k PROVE place(i) # place(k)
    OBVIOUS
  <2>1. i < k \/ k < i
    BY <1>4
  <2> QED
    BY <1>3, <1>5, <2>1
<1>7. Place \in [O -> 0..(n - 1)]
  BY <1>3, <1>4
<1>8. Place \in Injection(O, 0..(n - 1))
  BY <1>6, <1>7 DEF Injection, IsInjective
<1>9. IsFiniteSet(0..(n - 1)) /\ Cardinality(0..(n - 1)) = n
  BY FS_Interval
<1>10. IsFiniteSet(O) /\ Cardinality(O) <= n
  BY <1>8, <1>9, FS_Injection
<1> QED
  BY <1>10 DEF O

(* A popped batch is the stretch of the table that follows on from. *)
LEMMA PoppedIsStretch ==
  ASSUME NEW m \in Nat, NEW r, DOMAIN r \subseteq 1..m, NEW from \in Nat
  PROVE  /\ \A b \in DOMAIN Popped(r, from) : from < b
         /\ \A b \in DOMAIN Popped(r, from) : \A j \in DOMAIN r :
              from < j /\ j < b => j \in DOMAIN Popped(r, from)
         /\ IsFiniteSet(DOMAIN Popped(r, from))
         /\ Cardinality(DOMAIN Popped(r, from)) <= BatchSize
<1> DEFINE S == {i \in DOMAIN r : i > from}
<1>1. BatchSize \in Nat /\ S \in SUBSET (1..m)
  BY UplinkAssumption
<1>2. DOMAIN Popped(r, from) = DQ!Oldest(S, BatchSize)
  BY DEF Popped, Restrict
<1>3. DQ!Oldest(S, BatchSize) \subseteq S
  BY DEF DQ!Oldest
<1>4. \A j \in DOMAIN r : from < j => j \in S
  BY <1>1
<1>5. \A b \in S : from < b
  BY <1>1
<1> HIDE DEF S
<1>6. \A b \in DQ!Oldest(S, BatchSize), j \in S : j < b => j \in DQ!Oldest(S, BatchSize)
  BY <1>1, OldestIsHead
<1>7. IsFiniteSet(DQ!Oldest(S, BatchSize)) /\ Cardinality(DQ!Oldest(S, BatchSize)) <= BatchSize
  BY <1>1, OldestAreFew
<1> QED
  BY <1>2, <1>3, <1>4, <1>5, <1>6, <1>7
-----------------------------------------------------------------------------
(* The cursor. *)

(* The batch is the stretch of the table that follows on from the cursor. *)
BatchFollows ==
  /\ \A b \in DOMAIN batch : cursor < b
  /\ \A b \in DOMAIN batch : \A j \in DOMAIN rows :
       cursor < j /\ j < b => j \in DOMAIN batch

CursorInv ==
  /\ cursor <= lastId
  /\ pc = "top" => DOMAIN batch = {} /\ idsSent = {}
  /\ BatchFollows
  /\ BehindCursorBooked

LEMMA CursorInit == Init => CursorInv
<1> SUFFICES ASSUME Init PROVE CursorInv
  OBVIOUS
<1>1. cursor = 0 /\ lastId = 0 /\ DOMAIN batch = {} /\ idsSent = {} /\ link = 0
  BY DEF Init, DQ!QueueInit, Empty
<1> QED
  BY <1>1 DEF CursorInv, BatchFollows, BehindCursorBooked

(* The typing the proofs about the sender need. *)
LEMMA SenderTypes ==
  ASSUME LossInv
  PROVE  /\ lastId \in Nat /\ lastId <= MaxId /\ cursor \in Nat
         /\ DOMAIN rows \subseteq 1..lastId /\ DOMAIN batch \subseteq 1..lastId
         /\ inflight \subseteq Ids /\ idsSent \subseteq Ids /\ DOMAIN batch \subseteq Ids
<1>1. TapTypeOK /\ CopiesMatch
  BY DEF LossInv, UplinkTypeOK
<1>2. lastId \in Nat /\ DOMAIN rows \subseteq 1..lastId /\ cursor \in Nat
  BY <1>1, UplinkAssumption DEF TapTypeOK, DQ!QueueTypeOK
<1>3. DOMAIN batch \subseteq 1..lastId
  BY <1>1 DEF CopiesMatch
<1> QED
  BY <1>1, <1>2, <1>3 DEF TapTypeOK

(* Steps that leave the sender alone, and of a frame in flight either its  *)
(* row or its booking.                                                     *)
SenderRests ==
  /\ UNCHANGED <<link, sender, lastId>>
  /\ DOMAIN rows' \subseteq DOMAIN rows
  /\ \A i \in DOMAIN rows' : i \in inflight => i \in inflight'

LEMMA CursorRests ==
  ASSUME CursorInv, SenderRests
  PROVE  CursorInv'
  BY DEF CursorInv, BatchFollows, BehindCursorBooked, SenderRests, sender

(* A new frame comes after the cursor and after the batch. *)
LEMMA CursorPush ==
  ASSUME LossInv, CursorInv, UNCHANGED <<link, sender, inflight>>,
         NEW f \in Frame, PushFrame(f)
  PROVE  CursorInv'
<1>1. UplinkTypeOK /\ CopiesMatch
  BY DEF LossInv
<1>2. /\ lastId \in Nat /\ cursor \in Nat /\ DOMAIN batch \subseteq 1..lastId
      /\ lastId' = lastId + 1 /\ DOMAIN rows' \subseteq DOMAIN rows \union {lastId'}
  BY <1>1, SenderTypes, PushHistory
<1>3. cursor <= lastId
  BY DEF CursorInv
<1>4. \A b \in DOMAIN batch : b \in Nat /\ ~(lastId' < b)
  BY <1>2
<1>5. ~(lastId' <= cursor) /\ cursor <= lastId'
  BY <1>2, <1>3
<1>6. BatchFollows'
  BY <1>2, <1>4 DEF CursorInv, BatchFollows, sender
<1>7. BehindCursorBooked'
  BY <1>2, <1>5 DEF CursorInv, BehindCursorBooked, sender
<1> QED
  BY <1>5, <1>6, <1>7 DEF CursorInv, sender

(* A batch popped behind the cursor. *)
LEMMA CursorPopped ==
  ASSUME LossInv, lastId' = lastId, DOMAIN rows' \subseteq DOMAIN rows,
         cursor' \in Nat, cursor' <= lastId,
         StartBatch(Popped(rows', cursor')), BehindCursorBooked'
  PROVE  CursorInv'
<1>1. lastId \in Nat /\ DOMAIN rows' \subseteq 1..lastId
  BY SenderTypes
<1>2. batch' = Popped(rows', cursor') /\ idsSent' = {}
      /\ (pc' = "top" => DOMAIN batch' = {})
  BY DEF StartBatch, Empty
<1>3. BatchFollows'
  BY <1>1, <1>2, PoppedIsStretch DEF BatchFollows
<1> QED
  BY <1>2, <1>3 DEF CursorInv

(* Rows that were deleted without a confirmation. *)
LEMMA ReleaseFacts ==
  ASSUME NEW ids, Release(ids)
  PROVE  lastId' = lastId /\ DOMAIN rows' = DOMAIN rows \ ids
  BY AckFacts DEF Release

(* What the sender books, or deletes, leaves nothing behind the cursor. *)
LEMMA BookSentFacts ==
  ASSUME BookSent
  PROVE  /\ lastId' = lastId /\ DOMAIN rows' \subseteq DOMAIN rows
         /\ \A i \in DOMAIN rows' : i \in inflight \union idsSent => i \in inflight'
<1>1. CASE ackCapable = "no"
  BY <1>1, ReleaseFacts DEF BookSent
<1>2. CASE ackCapable # "no"
  BY <1>2 DEF BookSent, queue
<1> QED
  BY <1>1, <1>2

LEMMA CursorStep ==
  ASSUME LossInv, CursorInv, [Next]_vars
  PROVE  CursorInv'
<1>1. /\ UplinkTypeOK /\ lastId \in Nat /\ cursor \in Nat
      /\ DOMAIN rows \subseteq 1..lastId /\ DOMAIN batch \subseteq 1..lastId
  BY SenderTypes DEF LossInv
<1>2. \A i \in DOMAIN rows : ~(i <= 0)
  BY <1>1
<1>3. CASE Producers
  <2>1. UNCHANGED <<link, sender, inflight>>
    BY <1>3, ProducersSpare DEF ackState
  <2>2. CASE UNCHANGED <<queue, history>>
    BY <2>1, <2>2, CursorRests DEF SenderRests, queue
  <2> QED
    BY <1>1, <1>3, <2>1, <2>2, ProducersPush, CursorPush
<1>4. CASE Connect \/ TapRestart
  <2>1. /\ lastId' = lastId /\ cursor' = 0 /\ rows' = rows
        /\ pc' = "top" /\ DOMAIN batch' = {} /\ idsSent' = {}
    BY <1>4 DEF Connect, TapRestart, Resting, Empty, DQ!Restart, queue
  <2>2. BatchFollows' /\ BehindCursorBooked'
    BY <1>2, <2>1 DEF BatchFollows, BehindCursorBooked
  <2> QED
    BY <1>1, <2>1, <2>2 DEF CursorInv
<1>5. CASE Disconnect
  <2>1. /\ lastId' = lastId /\ cursor' = 0 /\ link' = 0
        /\ pc' = "top" /\ DOMAIN batch' = {} /\ idsSent' = {}
    BY <1>5, BookSentFacts DEF Disconnect, Resting, Empty
  <2>2. BatchFollows' /\ BehindCursorBooked'
    BY <2>1 DEF BatchFollows, BehindCursorBooked
  <2> QED
    BY <1>1, <2>1, <2>2 DEF CursorInv
<1>6. CASE Pop
  <2>1. UNCHANGED <<rows, lastId, cursor, link, inflight>> /\ idsSent = {}
    BY <1>6 DEF Pop, AtTop, CursorInv, queue, ackState
  <2>2. StartBatch(Popped(rows', cursor'))
    BY <1>6, <2>1 DEF Pop
  <2>3. BehindCursorBooked'
    BY <2>1 DEF CursorInv, BehindCursorBooked
  <2>4. cursor' \in Nat /\ cursor' <= lastId /\ DOMAIN rows' \subseteq DOMAIN rows
    BY <1>1, <2>1 DEF CursorInv
  <2> QED
    BY <2>1, <2>2, <2>3, <2>4, CursorPopped
<1>7. CASE Redeliver
  <2>1. UNCHANGED <<rows, lastId>> /\ cursor' = 0
    BY <1>7 DEF Redeliver, queue
  <2>2. StartBatch(Popped(rows', cursor'))
    BY <1>7, <2>1 DEF Redeliver
  <2>3. BehindCursorBooked'
    BY <1>2, <2>1 DEF BehindCursorBooked
  <2>4. cursor' \in Nat /\ cursor' <= lastId /\ DOMAIN rows' \subseteq DOMAIN rows
    BY <1>1, <2>1
  <2> QED
    BY <2>1, <2>2, <2>3, <2>4, CursorPopped
<1>8. CASE Fallback
  <2>1. /\ lastId' = lastId /\ DOMAIN rows' = DOMAIN rows \ inflight
        /\ UNCHANGED <<cursor, link>> /\ idsSent = {}
    BY <1>8, ReleaseFacts DEF Fallback, AtTop, TakeForOldMaster, CursorInv
  <2>2. StartBatch(Popped(rows', cursor'))
    BY <1>8, <2>1 DEF Fallback
  <2>3. BehindCursorBooked'
    BY <2>1 DEF CursorInv, BehindCursorBooked
  <2>4. cursor' \in Nat /\ cursor' <= lastId
    BY <1>1, <2>1 DEF CursorInv
  <2> QED
    BY <2>1, <2>2, <2>3, <2>4, CursorPopped
<1>9. CASE SendFrame
  <2>1. PICK i \in First(batch) :
          /\ batch' = Restrict(batch, DOMAIN batch \ {i})
          /\ idsSent' = idsSent \union {i} /\ cursor' = i
    BY <1>9 DEF SendFrame
  <2>2. UNCHANGED <<rows, lastId, link, pc, inflight>> /\ pc = "batch"
    BY <1>9 DEF SendFrame, queue, ackState
  <2>3. /\ i \in DOMAIN batch /\ i \in Nat /\ i <= lastId
        /\ \A j \in DOMAIN batch : i <= j
    BY <1>1, <2>1 DEF First
  <2>4. DOMAIN batch' = DOMAIN batch \ {i}
    BY <2>1 DEF Restrict
  <2>5. \A j \in DOMAIN rows : j \in Nat /\ (j < i => j <= cursor)
    BY <1>1, <2>3 DEF CursorInv, BatchFollows
  <2>6. cursor < i
    BY <2>3 DEF CursorInv, BatchFollows
  <2>7. BatchFollows'
    <3>1. \A b \in DOMAIN batch \ {i} : i < b /\ b \in Nat
      BY <1>1, <2>3
    <3>2. ASSUME NEW b \in DOMAIN batch \ {i}, NEW j \in DOMAIN rows, i < j, j < b
          PROVE  j \in DOMAIN batch \ {i}
      <4>1. cursor < j /\ j # i
        BY <1>1, <2>3, <2>5, <2>6, <3>2
      <4> QED
        BY <3>2, <4>1 DEF CursorInv, BatchFollows
    <3> QED
      BY <2>1, <2>2, <2>4, <3>1, <3>2 DEF BatchFollows
  <2>8. BehindCursorBooked'
    <3> SUFFICES ASSUME link # 0, NEW j \in DOMAIN rows, j <= i
                 PROVE  j \in inflight \union (idsSent \union {i})
      BY <2>1, <2>2 DEF BehindCursorBooked
    <3>1. j = i \/ j <= cursor
      BY <2>3, <2>5
    <3> QED
      BY <3>1 DEF CursorInv, BehindCursorBooked
  <2> QED
    BY <2>1, <2>2, <2>3, <2>7, <2>8 DEF CursorInv
<1>10. CASE EndBatch
  <2>1. /\ lastId' = lastId /\ DOMAIN rows' \subseteq DOMAIN rows
        /\ \A i \in DOMAIN rows' : i \in inflight \union idsSent => i \in inflight'
        /\ UNCHANGED <<cursor, link>>
        /\ pc' = "top" /\ DOMAIN batch' = {} /\ idsSent' = {}
    BY <1>10, BookSentFacts DEF EndBatch, Resting, Empty
  <2>2. BatchFollows' /\ BehindCursorBooked'
    BY <2>1 DEF CursorInv, BatchFollows, BehindCursorBooked
  <2> QED
    BY <2>1, <2>2 DEF CursorInv
<1>11. CASE ZombieWakes
  <2>1. CASE TakeForOldMaster
    <3>1. lastId' = lastId /\ DOMAIN rows' = DOMAIN rows \ inflight
      BY <2>1, ReleaseFacts DEF TakeForOldMaster
    <3>2. UNCHANGED <<link, sender>>
      BY <1>11 DEF ZombieWakes
    <3> QED
      BY <3>1, <3>2, CursorRests DEF SenderRests
  <2>2. CASE UNCHANGED <<queue, inflight, ackCapable, released>>
    BY <1>11, <2>2, CursorRests DEF ZombieWakes, SenderRests, queue
  <2> QED
    BY <1>11, <2>1, <2>2 DEF ZombieWakes
<1>12. CASE ReceiveAck
  <2>1. PICK ids : inflight' = inflight \ ids /\ DQ!Ack(ids)
    BY <1>12 DEF ReceiveAck
  <2>2. lastId' = lastId /\ DOMAIN rows' = DOMAIN rows \ ids
    BY <2>1, AckFacts
  <2>3. UNCHANGED <<link, sender>>
    BY <1>12 DEF ReceiveAck
  <2> QED
    BY <2>1, <2>2, <2>3, CursorRests DEF SenderRests
<1>13. CASE UNCHANGED <<queue, link, sender, inflight>>
  BY <1>13, CursorRests DEF SenderRests, queue
<1>14. ZombieDies \/ ReceiveHelloAck \/ Clock => UNCHANGED <<queue, link, sender, inflight>>
  BY DEF ZombieDies, ReceiveHelloAck, Clock, AckTimeout, RedeliverAfter, ackState
<1>15. Master \/ UNCHANGED vars => UNCHANGED <<queue, link, sender, inflight>>
  BY MasterSparesTap DEF vars, tap, ackState
<1> QED
  BY <1>3, <1>4, <1>5, <1>6, <1>7, <1>8, <1>9, <1>10, <1>11, <1>12, <1>13, <1>14, <1>15
     DEF Next, Sender, Zombie, Receiver, Connection

(* The cursor of _send_loop leaves no frame behind: a row it has passed on *)
(* this connection is in flight or in the running batch, whatever acks,    *)
(* the fallback, redeliveries, pushes and trims do to the table meanwhile. *)
THEOREM CursorBooks == Spec => []BehindCursorBooked
<1>1. CursorInv => BehindCursorBooked
  BY DEF CursorInv
<1> QED
  BY <1>1, CursorInit, CursorStep, LossInvariant, PTL DEF Spec
-----------------------------------------------------------------------------
(* The window. *)

SizeInv ==
  /\ Cardinality(DOMAIN batch) + Cardinality(idsSent) <= BatchSize
  /\ ackCapable = "no" => inflight = {}
  /\ InflightBound

LEMMA IdSetsFinite ==
  ASSUME NEW S \in SUBSET Ids
  PROVE  IsFiniteSet(S) /\ Cardinality(S) \in Nat
<1>1. IsFiniteSet(Ids)
  BY FS_Interval, UplinkAssumption DEF Ids
<1> QED
  BY <1>1, FS_Subset, FS_CardinalityType

LEMMA SizeInit == Init => SizeInv
<1> SUFFICES ASSUME Init PROVE SizeInv
  OBVIOUS
<1>1. DOMAIN batch = {} /\ idsSent = {} /\ inflight = {} /\ inflight \union idsSent = {}
  BY DEF Init, Empty
<1>2. Cardinality({}) = 0
  BY FS_EmptySet
<1>3. BatchSize \in Nat /\ MaxInflight \in Nat \ {0}
  BY UplinkAssumption
<1>4. 0 + 0 <= BatchSize /\ 0 <= (MaxInflight - 1) + BatchSize
  BY <1>3
<1> QED
  BY <1>1, <1>2, <1>4 DEF SizeInv, InflightBound

(* What is booked or sent grows with SendFrame only. *)
LEMMA BookedShrinks ==
  ASSUME LossInv, [Next]_vars, ~SendFrame
  PROVE  inflight' \union idsSent' \subseteq inflight \union idsSent
<1>1. CASE Disconnect \/ EndBatch
  <2>1. idsSent' = {} /\ BookSent
    BY <1>1 DEF Disconnect, EndBatch, Resting
  <2> QED
    BY <2>1 DEF BookSent
<1>2. CASE Pop \/ Redeliver \/ Fallback
  BY <1>2 DEF Pop, Redeliver, Fallback, TakeForOldMaster, StartBatch, ackState
<1>3. CASE Connect \/ TapRestart
  BY <1>3 DEF Connect, TapRestart, Resting
<1>4. CASE Zombie \/ Receiver \/ Clock
  BY <1>4 DEF Zombie, ZombieWakes, ZombieDies, TakeForOldMaster, Receiver, ReceiveHelloAck,
              ReceiveAck, Clock, AckTimeout, RedeliverAfter, sender, ackState
<1>5. CASE Producers
  BY <1>5, ProducersSpare DEF sender, ackState
<1>6. CASE Master \/ UNCHANGED vars
  BY <1>6, MasterSparesTap DEF vars, tap, sender, ackState
<1> QED
  BY <1>1, <1>2, <1>3, <1>4, <1>5, <1>6 DEF Next, Sender, Connection

(* In Alt-Master mode nothing is booked. *)
LEMMA AltMasterStep ==
  ASSUME ackCapable = "no" => inflight = {}, [Next]_vars
  PROVE  ackCapable' = "no" => inflight' = {}
<1>1. CASE Disconnect \/ EndBatch
  BY <1>1 DEF Disconnect, EndBatch, BookSent
<1>2. CASE Pop \/ Redeliver \/ Fallback \/ SendFrame
  BY <1>2 DEF Pop, Redeliver, Fallback, TakeForOldMaster, SendFrame, ackState
<1>3. CASE Connect \/ TapRestart
  BY <1>3 DEF Connect, TapRestart
<1>4. CASE Zombie \/ Receiver \/ Clock
  BY <1>4 DEF Zombie, ZombieWakes, ZombieDies, TakeForOldMaster, Receiver, ReceiveHelloAck,
              ReceiveAck, Clock, AckTimeout, RedeliverAfter, ackState
<1>5. CASE Producers
  BY <1>5, ProducersSpare DEF ackState
<1>6. CASE Master \/ UNCHANGED vars
  BY <1>6, MasterSparesTap DEF vars, tap, ackState
<1> QED
  BY <1>1, <1>2, <1>3, <1>4, <1>5, <1>6 DEF Next, Sender, Connection

(* What is left of a batch and what was sent of it are a batch at most. *)
LEMMA BatchSizeStep ==
  ASSUME LossInv, [Next]_vars,
         Cardinality(DOMAIN batch) + Cardinality(idsSent) <= BatchSize
  PROVE  Cardinality(DOMAIN batch') + Cardinality(idsSent') <= BatchSize
<1>1. /\ lastId \in Nat /\ DOMAIN rows \subseteq 1..lastId /\ cursor \in Nat
      /\ idsSent \in SUBSET Ids /\ DOMAIN batch \in SUBSET Ids
      /\ BatchSize \in Nat
  BY SenderTypes, UplinkAssumption
<1>2. Cardinality({}) = 0
  BY FS_EmptySet
<1>3. CASE UNCHANGED <<batch, idsSent>>
  BY <1>3
<1>4. CASE DOMAIN batch' = {} /\ idsSent' = {}
  BY <1>1, <1>2, <1>4
<1>5. ASSUME NEW r, DOMAIN r \subseteq DOMAIN rows, NEW from \in Nat,
             StartBatch(Popped(r, from))
      PROVE  Cardinality(DOMAIN batch') + Cardinality(idsSent') <= BatchSize
  <2>1. batch' = Popped(r, from) /\ idsSent' = {}
    BY <1>5 DEF StartBatch
  <2>2. IsFiniteSet(DOMAIN Popped(r, from)) /\ Cardinality(DOMAIN Popped(r, from)) <= BatchSize
    BY <1>1, <1>5, PoppedIsStretch
  <2>3. Cardinality(DOMAIN Popped(r, from)) \in Nat
    BY <2>2, FS_CardinalityType
  <2> QED
    BY <1>1, <1>2, <2>1, <2>2, <2>3
<1>6. CASE Pop \/ Redeliver
  BY <1>1, <1>5, <1>6 DEF Pop, Redeliver
<1>7. CASE Fallback
  <2>1. DOMAIN rows' \subseteq DOMAIN rows /\ StartBatch(Popped(rows', cursor))
    BY <1>7, ReleaseFacts DEF Fallback, TakeForOldMaster
  <2> QED
    BY <1>1, <1>5, <2>1
<1>8. CASE SendFrame
  <2>1. PICK i \in DOMAIN batch : /\ batch' = Restrict(batch, DOMAIN batch \ {i})
                                  /\ idsSent' = idsSent \union {i}
    BY <1>8 DEF SendFrame, First
  <2>2. DOMAIN batch' = DOMAIN batch \ {i}
    BY <2>1 DEF Restrict
  <2>3. IsFiniteSet(DOMAIN batch) /\ IsFiniteSet(idsSent)
    BY <1>1, IdSetsFinite
  <2>4. Cardinality(DOMAIN batch \ {i}) = Cardinality(DOMAIN batch) - 1
    BY <2>3, FS_RemoveElement
  <2>5. Cardinality(idsSent \union {i}) =
          IF i \in idsSent THEN Cardinality(idsSent) ELSE Cardinality(idsSent) + 1
    BY <2>3, FS_AddElement
  <2>6. Cardinality(DOMAIN batch) \in Nat /\ Cardinality(idsSent) \in Nat
    BY <1>1, IdSetsFinite
  <2>7. (Cardinality(DOMAIN batch) - 1) + Cardinality(idsSent \union {i}) <= BatchSize
    BY <1>1, <2>5, <2>6
  <2> QED
    BY <2>1, <2>2, <2>4, <2>7
<1>9. EndBatch \/ Connection => DOMAIN batch' = {} /\ idsSent' = {}
  BY DEF EndBatch, Connection, Connect, Disconnect, TapRestart, Resting, Empty
<1>10. Producers \/ Zombie \/ Receiver \/ Clock => UNCHANGED <<batch, idsSent>>
  BY ProducersSpare
     DEF Zombie, ZombieWakes, ZombieDies, Receiver, ReceiveHelloAck, ReceiveAck,
         Clock, AckTimeout, RedeliverAfter, sender
<1>11. Master \/ UNCHANGED vars => UNCHANGED <<batch, idsSent>>
  BY MasterSparesTap DEF vars, tap, sender
<1> QED
  BY <1>3, <1>4, <1>6, <1>7, <1>8, <1>9, <1>10, <1>11 DEF Next, Sender

(* One more frame sent into the window. *)
LEMMA SendStaysInWindow ==
  ASSUME LossInv, SizeInv, SendFrame, [Next]_vars
  PROVE  InflightBound'
<1>1. PICK i \in DOMAIN batch : ~WindowFull(i) /\ idsSent' = idsSent \union {i}
  BY DEF SendFrame, First
<1>2. inflight' = inflight
  BY DEF SendFrame, ackState
<1>3. /\ inflight \in SUBSET Ids /\ idsSent' \in SUBSET Ids
      /\ DOMAIN batch' \in SUBSET Ids /\ inflight \union idsSent' \in SUBSET Ids
  <2>1. inflight \subseteq Ids /\ idsSent \subseteq Ids /\ DOMAIN batch \subseteq Ids
    BY SenderTypes
  <2>2. DOMAIN batch' \subseteq DOMAIN batch
    BY DEF SendFrame, Restrict
  <2> QED
    BY <1>1, <2>1, <2>2
<1>4. MaxInflight \in Nat \ {0} /\ BatchSize \in Nat
  BY UplinkAssumption
<1>5. /\ Cardinality(inflight) \in Nat /\ Cardinality(idsSent') \in Nat
      /\ Cardinality(DOMAIN batch') \in Nat /\ Cardinality(inflight \union idsSent') \in Nat
  BY <1>3, IdSetsFinite
<1>6. Cardinality(idsSent') <= BatchSize
  <2>1. Cardinality(DOMAIN batch') + Cardinality(idsSent') <= BatchSize
    BY BatchSizeStep DEF SizeInv
  <2> QED
    BY <1>4, <1>5, <2>1
<1>7. CASE ackCapable = "no"
  <2>1. inflight \union idsSent' = idsSent'
    BY <1>7 DEF SizeInv
  <2>2. Cardinality(inflight \union idsSent') <= (MaxInflight - 1) + BatchSize
    BY <1>4, <1>5, <1>6, <2>1
  <2> QED
    BY <1>2, <2>2 DEF InflightBound
<1>8. CASE i \in inflight
  <2>1. inflight \union idsSent' = inflight \union idsSent
    BY <1>1, <1>8
  <2> QED
    BY <1>2, <2>1 DEF SizeInv, InflightBound
<1>9. CASE Cardinality(inflight) < MaxInflight
  <2>1. IsFiniteSet(inflight) /\ IsFiniteSet(idsSent') /\ IsFiniteSet(inflight \intersect idsSent')
    <3>1. inflight \intersect idsSent' \in SUBSET Ids
      BY <1>3
    <3> QED
      BY <1>3, <3>1, IdSetsFinite
  <2>2. Cardinality(inflight \union idsSent') =
          Cardinality(inflight) + Cardinality(idsSent') - Cardinality(inflight \intersect idsSent')
    BY <2>1, FS_Union
  <2>3. Cardinality(inflight \intersect idsSent') \in Nat
    BY <2>1, FS_CardinalityType
  <2>4. Cardinality(inflight \union idsSent') <= (MaxInflight - 1) + BatchSize
    BY <1>4, <1>5, <1>6, <1>9, <2>2, <2>3
  <2> QED
    BY <1>2, <2>4 DEF InflightBound
<1> QED
  <2>1. ackCapable = "no" \/ i \in inflight \/ ~(Cardinality(inflight) >= MaxInflight)
    BY <1>1 DEF WindowFull
  <2> QED
    BY <1>4, <1>5, <1>7, <1>8, <1>9, <2>1

LEMMA SizeStep ==
  ASSUME LossInv, SizeInv, [Next]_vars
  PROVE  SizeInv'
<1>1. Cardinality(DOMAIN batch') + Cardinality(idsSent') <= BatchSize
  BY BatchSizeStep DEF SizeInv
<1>2. ackCapable' = "no" => inflight' = {}
  BY AltMasterStep DEF SizeInv
<1>3. CASE SendFrame
  BY <1>1, <1>2, <1>3, SendStaysInWindow DEF SizeInv
<1>4. CASE ~SendFrame
  <2>1. inflight' \union idsSent' \subseteq inflight \union idsSent
    BY <1>4, BookedShrinks
  <2>2. inflight \union idsSent \in SUBSET Ids
    BY SenderTypes
  <2>3. IsFiniteSet(inflight \union idsSent)
    BY <2>2, IdSetsFinite
  <2>4. Cardinality(inflight' \union idsSent') <= Cardinality(inflight \union idsSent)
    BY <2>1, <2>3, FS_Subset
  <2>5. Cardinality(inflight \union idsSent) \in Nat /\ Cardinality(inflight' \union idsSent') \in Nat
    BY <2>1, <2>2, IdSetsFinite
  <2>6. Cardinality(inflight \union idsSent) <= (MaxInflight - 1) + BatchSize
    BY DEF SizeInv, InflightBound
  <2>7. Cardinality(inflight' \union idsSent') <= (MaxInflight - 1) + BatchSize
    BY <2>4, <2>5, <2>6, UplinkAssumption
  <2> QED
    BY <1>1, <1>2, <2>7 DEF SizeInv, InflightBound
<1> QED
  BY <1>3, <1>4

(* _send_loop never has more frames out than MAX_INFLIGHT allows and one   *)
(* batch can overshoot: not after a redelivery, a fallback, or a break in  *)
(* the middle of a batch.                                                  *)
THEOREM WindowBounds == Spec => []InflightBound
<1>1. SizeInv => InflightBound
  BY DEF SizeInv
<1> QED
  BY <1>1, SizeInit, SizeStep, LossInvariant, PTL DEF Spec

=============================================================================
