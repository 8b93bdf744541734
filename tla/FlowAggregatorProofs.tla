------------------------- MODULE FlowAggregatorProofs -------------------------
(***************************************************************************)
(* What flow-aggregator accounts for, for every capture, every set of      *)
(* connections, every batch size and bound of the buffer, and any number   *)
(* of outages and restarts.                                                *)
(*                                                                         *)
(* The counts of EachPacketInOneFlow are not inductive: that a packet is   *)
(* in one flow is proved as "in some flow" (AllRead) and "in no two"       *)
(* (RecordsApart, and of the live flows that each holds packets of its     *)
(* connection and none that was published).  CommittedAccounted needs that *)
(* everything read is accounted for, because a commit takes whatever       *)
(* position the process has reached; OldestGivenUp that the buffer is in   *)
(* the order of publication.                                               *)
(***************************************************************************)
EXTENDS FlowAggregator, SequenceTheorems, FiniteSetTheorems, TLAPS

States == {"NEW", "SYN_ONLY", "ESTABLISHED", "FIN_WAIT", "RESET", "CLOSED"}

(* A packet has the protocol of its connection, wherever it stands. *)
TopicOK(tp) ==
  \A o, q \in 1..Len(tp) :
    tp[o].conn = tp[q].conn /\ "junk" \notin {tp[o].proto, tp[q].proto}
      => tp[o].proto = tp[q].proto

(* What a flow says of itself is true of its packets. *)
Holds(tp, f, flag) == \E o \in f.packets : flag \in tp[o].flags
TwoFins(tp, f) ==
  \E o, q \in f.packets : o # q /\ "FIN" \in tp[o].flags /\ "FIN" \in tp[q].flags
FirstOf(f, o) == o \in f.packets /\ \A q \in f.packets : o <= q
FlowOn(tp) == [conn: FlowKeys, client: Ends, packets: SUBSET (1..Len(tp)), state: States]
Honest(tp, f) ==
  /\ f \in FlowOn(tp)
  /\ \A o \in f.packets : tp[o].conn = f.conn /\ tp[o].proto # "junk"
  /\ \E o \in f.packets : FirstOf(f, o) /\ f.client = Client(tp[o])
  /\ f.state \in {"SYN_ONLY", "FIN_WAIT", "CLOSED"} => Holds(tp, f, "SYN")
  /\ f.state = "ESTABLISHED" =>
       Holds(tp, f, "SYN") \/ \E o \in f.packets : tp[o].proto \in {"udp", "icmp"}
  /\ f.state \in {"FIN_WAIT", "CLOSED"} => Holds(tp, f, "FIN")
  /\ f.state = "CLOSED" => TwoFins(tp, f)

(* The flows in memory (lv) and those published (rs), of which the records *)
(* from f0 on are of this run, which has read from st + 1 to ps.           *)
Published(o, rs, from) == \E i \in from..Len(rs) : o \in rs[i].packets
InFlow(o, lv) == \E c \in DOMAIN lv : o \in lv[c].packets
MemoryOK(tp, lv, rs, f0, st, ps) ==
  /\ DOMAIN lv \subseteq FlowKeys
  /\ \A c \in DOMAIN lv : Honest(tp, lv[c])
  /\ \A c \in DOMAIN lv : lv[c].conn = c /\ lv[c].packets \subseteq (st + 1)..ps
  /\ \A i \in 1..Len(rs) : Honest(tp, rs[i])
  /\ \A i \in f0..Len(rs) : rs[i].packets \subseteq (st + 1)..ps
  /\ \A i, j \in f0..Len(rs) : i # j => rs[i].packets \cap rs[j].packets = {}
  /\ \A i \in f0..Len(rs), c \in DOMAIN lv : rs[i].packets \cap lv[c].packets = {}

Accounted(o) == Published(o, records, 1) \/ InFlow(o, live) \/ o \in crashed \cup skipped
AllRead ==
  up => \A o \in (start + 1)..pos :
          topic[o].proto # "junk" => Published(o, records, first) \/ InFlow(o, live)
AllAccounted ==
  /\ \A o \in Offsets :
       topic[o].proto # "junk" /\ (o <= committed \/ (up /\ o <= start)) => Accounted(o)
  /\ up => committed <= pos

MemoryInv ==
  TopicOK(topic) /\ MemoryOK(topic, live, records, first, start, pos) /\ AllRead /\ AllAccounted

(* The buffer and the table, over the ids of the published records. *)
DbOK(s, n) ==
  /\ s.pending \in Seq(1..n) /\ \A k, m \in DOMAIN s.pending : k < m => s.pending[k] < s.pending[m]
  /\ DOMAIN s.stored \subseteq 1..n /\ \A i \in DOMAIN s.stored : s.stored[i] = 1
  /\ s.conn \in BOOLEAN /\ s.backoff \in BOOLEAN
  /\ s.overflowed \subseteq 1..n /\ s.discarded \subseteq 1..n
  /\ \A g \in s.overflowed \ DOMAIN s.stored, k \in DOMAIN s.pending : g < s.pending[k]
IsDb(s) ==
  s = [pending |-> s.pending, stored |-> s.stored, conn |-> s.conn, backoff |-> s.backoff,
       overflowed |-> s.overflowed, discarded |-> s.discarded]
Kept(s) == DOMAIN s.stored \cup ToSet(s.pending) \cup s.overflowed \cup s.discarded
WithinBound(s) == Len(s.pending) < BatchSize \/ Len(s.pending) <= MaxPending
StoreInv ==
  /\ DbOK(DbState, Len(records)) /\ WithinBound(DbState)
  /\ gone \subseteq RecordIds /\ RecordIds \subseteq Kept(DbState) \cup gone
  /\ kafka \subseteq RecordIds /\ failed \subseteq RecordIds /\ RecordIds \subseteq kafka \cup failed
  /\ mishaps \in Nat

(* The types of what these two do not speak of. *)
AnyFlow == [conn: FlowKeys, client: Ends, packets: SUBSET Nat, state: States]
BaseInv ==
  /\ topic \in Seq(Packet) /\ up \in BOOLEAN /\ pos \in 0..Len(topic)
  /\ committed \in {NoOffset} \cup 0..Len(topic) /\ start \in 0..pos
  /\ records \in Seq(AnyFlow) /\ first \in 1..(Len(records) + 1) /\ dbUp \in BOOLEAN
  /\ crashed \cup skipped \subseteq Offsets
  /\ ~up => live = <<>> /\ pending = <<>> /\ ~conn

FlowInv == BaseInv /\ MemoryInv /\ StoreInv

-----------------------------------------------------------------------------
(* The database half.                                                      *)

(* What a flush has to keep: no record is forgotten, and the buffer is     *)
(* within its bound.                                                       *)
Flushed(s, t, n) ==
  IsDb(t) /\ DbOK(t, n) /\ Kept(s) \subseteq Kept(t) /\ Len(t.pending) <= MaxPending

LEMMA BoundPendingKeeps ==
  ASSUME FlowAssumption, NEW n \in Nat, NEW s, IsDb(s), DbOK(s, n)
  PROVE  Flushed(s, BoundPending(s), n)
<1> DEFINE over == Len(s.pending) - MaxPending
           kept == IF over > 0 THEN SubSeq(s.pending, over + 1, Len(s.pending)) ELSE s.pending
           t == BoundPending(s)
<1>1. /\ s.pending \in Seq(1..n) /\ Len(s.pending) \in Nat /\ MaxPending \in Nat \ {0}
      /\ DOMAIN s.pending = 1..Len(s.pending)
  BY DEF DbOK, FlowAssumption
<1>2. /\ kept \in Seq(1..n) /\ Len(kept) <= MaxPending /\ DOMAIN kept = 1..Len(kept)
      /\ \A k \in DOMAIN kept : k + (Len(s.pending) - Len(kept)) \in DOMAIN s.pending
                                /\ kept[k] = s.pending[k + (Len(s.pending) - Len(kept))]
      /\ Len(kept) \in Nat /\ Len(kept) <= Len(s.pending)
  <2>1. CASE over > 0
    <3> DEFINE q == SubSeq(s.pending, over + 1, Len(s.pending))
    <3>1. /\ over + 1 \in Int /\ Len(s.pending) \in Int /\ over + 1 <= Len(s.pending)
          /\ Len(s.pending) - (over + 1) + 1 = MaxPending
          /\ \A i \in (over + 1)..Len(s.pending) : s.pending[i] \in 1..n
          /\ \A i \in 1..MaxPending : over + 1 + i - 1 = i + over
      BY <1>1, <2>1
    <3>2. kept = q
      BY <2>1
    <3> HIDE DEF over, kept
    <3>3. /\ q \in Seq(1..n) /\ Len(q) = MaxPending
          /\ \A k \in 1..MaxPending : q[k] = s.pending[over + 1 + k - 1]
      BY <3>1, SubSeqProperties
    <3> HIDE DEF q
    <3>4. DOMAIN q = 1..MaxPending /\ \A k \in 1..MaxPending : q[k] = s.pending[k + over]
      BY <3>1, <3>3
    <3>5. /\ over = Len(s.pending) - MaxPending /\ over \in Nat /\ over <= Len(s.pending)
          /\ \A k \in 1..MaxPending : k + over \in 1..Len(s.pending)
      BY <1>1, <2>1 DEF over
    <3>6. Len(kept) = MaxPending /\ Len(s.pending) - Len(kept) = over /\ MaxPending \in Nat
      BY <1>1, <3>2, <3>3, <3>5
    <3>7. Len(kept) <= Len(s.pending)
      BY <1>1, <3>5, <3>6
    <3>8. /\ DOMAIN kept = 1..MaxPending /\ kept \in Seq(1..n)
          /\ \A k \in 1..MaxPending : kept[k] = s.pending[k + over]
      BY <3>2, <3>3, <3>4
    <3>9. \A k \in DOMAIN kept : k + over \in DOMAIN s.pending /\ kept[k] = s.pending[k + over]
      BY <1>1, <3>5, <3>8
    <3> QED
      BY <3>6, <3>7, <3>8, <3>9
  <2>2. CASE ~(over > 0)
    <3>1. kept = s.pending
      BY <2>2
    <3>2. Len(s.pending) <= MaxPending
      BY <1>1, <2>2
    <3> HIDE DEF kept, over
    <3> QED
      BY <1>1, <3>1, <3>2
  <2> QED
    BY <2>1, <2>2
<1> DEFINE d == Len(s.pending) - Len(kept)
<1>3. d \in Nat
  BY <1>1, <1>2
<1>4. t = [s EXCEPT !.pending = kept, !.overflowed = @ \cup (ToSet(s.pending) \ ToSet(kept))]
  BY DEF BoundPending
<1> HIDE DEF kept, t, over
<1>5. /\ IsDb(t) /\ t.pending = kept /\ t.stored = s.stored /\ t.conn = s.conn
      /\ t.backoff = s.backoff /\ t.discarded = s.discarded
      /\ t.overflowed = s.overflowed \cup (ToSet(s.pending) \ ToSet(kept))
  BY <1>4 DEF IsDb
<1>6. ToSet(kept) \subseteq ToSet(s.pending)
  BY <1>2 DEF ToSet
<1>7. \A g \in ToSet(s.pending) \ ToSet(kept), k \in DOMAIN kept : g < kept[k]
  <2> SUFFICES ASSUME NEW g \in ToSet(s.pending) \ ToSet(kept), NEW k \in DOMAIN kept
               PROVE  g < kept[k]
    OBVIOUS
  <2>1. PICK m \in DOMAIN s.pending : g = s.pending[m]
    BY DEF ToSet
  <2>2. ~(m > d)
    <3> SUFFICES ASSUME m > d PROVE FALSE
      OBVIOUS
    <3>1. m \in Nat /\ m <= Len(s.pending) /\ m - d \in 1..Len(kept) /\ (m - d) + d = m
      <4>1. Len(s.pending) \in Nat /\ Len(kept) \in Nat /\ m \in 1..Len(s.pending)
        BY <1>1, <1>2
      <4> QED
        BY <1>3, <4>1
    <3>2. m - d \in DOMAIN kept /\ kept[m - d] = s.pending[m]
      BY <1>2, <3>1
    <3> QED
      BY <2>1, <3>2 DEF ToSet
  <2>3. m < k + d /\ k + d \in DOMAIN s.pending
    BY <1>1, <1>2, <1>3, <2>2
  <2> QED
    BY <1>2, <2>1, <2>3 DEF DbOK
<1>8. DbOK(t, n)
  <2>1. ASSUME NEW k \in DOMAIN kept, NEW m \in DOMAIN kept, k < m
        PROVE  kept[k] < kept[m]
    <3>1. k + d \in DOMAIN s.pending /\ m + d \in DOMAIN s.pending /\ k + d < m + d
      BY <1>1, <1>2, <1>3, <2>1
    <3> QED
      BY <1>2, <3>1 DEF DbOK
  <2>2. t.overflowed \subseteq 1..n
    BY <1>1, <1>5 DEF DbOK, ToSet
  <2>3. \A g \in t.overflowed \ DOMAIN t.stored, k \in DOMAIN t.pending : g < t.pending[k]
    BY <1>2, <1>3, <1>5, <1>7 DEF DbOK
  <2> QED
    BY <1>2, <1>5, <2>1, <2>2, <2>3 DEF DbOK
<1>9. Kept(s) \subseteq Kept(t)
  BY <1>5 DEF Kept
<1>10. Len(t.pending) <= MaxPending
  BY <1>2, <1>5
<1> QED
  BY <1>5, <1>8, <1>9, <1>10 DEF Flushed, t

LEMMA ReconnectKeeps ==
  ASSUME NEW n \in Nat, NEW s, IsDb(s), DbOK(s, n), dbUp \in BOOLEAN
  PROVE  LET t == Reconnect(s)
         IN  /\ IsDb(t) /\ DbOK(t, n) /\ t.pending = s.pending /\ t.stored = s.stored
             /\ t.overflowed = s.overflowed /\ t.discarded = s.discarded
<1> DEFINE t == Reconnect(s)
<1>1. /\ IsDb(t) /\ t.pending = s.pending /\ t.stored = s.stored
      /\ t.overflowed = s.overflowed /\ t.discarded = s.discarded
      /\ t.conn \in BOOLEAN /\ t.backoff \in BOOLEAN
  BY DEF Reconnect, IsDb, DbOK
<1> HIDE DEF t
<1>2. DbOK(t, n)
  BY <1>1 DEF DbOK
<1> QED
  BY <1>1, <1>2 DEF t

LEMMA ConnectionErrorKeeps ==
  ASSUME FlowAssumption, NEW n \in Nat, NEW s, IsDb(s), DbOK(s, n), dbUp \in BOOLEAN,
         NEW table, DOMAIN s.stored \subseteq DOMAIN table, DOMAIN table \subseteq 1..n,
         \A i \in DOMAIN table : table[i] = 1
  PROVE  Flushed(s, AfterConnectionError(s, table), n)
<1> DEFINE r == [s EXCEPT !.stored = table, !.conn = FALSE]
           t == Reconnect(r)
<1>1. /\ IsDb(r) /\ r.stored = table /\ r.conn = FALSE /\ r.pending = s.pending
      /\ r.backoff = s.backoff /\ r.overflowed = s.overflowed /\ r.discarded = s.discarded
  <2>1. r = [s EXCEPT !.stored = table, !.conn = FALSE]
    OBVIOUS
  <2> HIDE DEF r
  <2> QED
    BY <2>1 DEF IsDb
<1>2. AfterConnectionError(s, table) = BoundPending(t)
  BY DEF AfterConnectionError
<1> HIDE DEF r
<1>3. DbOK(r, n)
  BY <1>1 DEF DbOK
<1>4. /\ IsDb(t) /\ DbOK(t, n) /\ t.pending = r.pending /\ t.stored = r.stored
      /\ t.overflowed = r.overflowed /\ t.discarded = r.discarded
  BY <1>1, <1>3, ReconnectKeeps
<1> HIDE DEF t
<1>5. Flushed(t, BoundPending(t), n)
  BY <1>4, BoundPendingKeeps
<1>6. Kept(s) \subseteq Kept(t)
  BY <1>1, <1>4 DEF Kept
<1> QED
  BY <1>2, <1>5, <1>6 DEF Flushed

LEMMA FlushDbKeeps ==
  ASSUME FlowAssumption, NEW n \in Nat, NEW s, IsDb(s), DbOK(s, n), dbUp \in BOOLEAN,
         NEW outcome, NEW published
  PROVE  Flushed(s, FlushDb(s, outcome, published), n)
<1> DEFINE t == IF s.conn THEN s ELSE Reconnect(s)
           ids == ToSet(s.pending)
           Emptied(u) == [u EXCEPT !.pending = <<>>]
<1>1. /\ IsDb(t) /\ DbOK(t, n) /\ t.pending = s.pending /\ t.stored = s.stored
      /\ t.overflowed = s.overflowed /\ t.discarded = s.discarded
  BY ReconnectKeeps
<1>2. MaxPending \in Nat /\ s.pending \in Seq(1..n) /\ ids \subseteq 1..n
  BY DEF FlowAssumption, DbOK, ToSet
<1>3. FlushDb(s, outcome, published) =
        IF s.pending = <<>> THEN s
        ELSE IF ~t.conn THEN BoundPending(t)
        ELSE IF ~dbUp \/ outcome = "torn" THEN AfterConnectionError(t, t.stored)
        ELSE IF Poisoned(t, published)
               THEN [t EXCEPT !.pending = <<>>, !.discarded = @ \cup ids]
        ELSE IF outcome = "lost" THEN AfterConnectionError(t, Insert(t.stored, ids))
        ELSE [t EXCEPT !.pending = <<>>, !.stored = Insert(@, ids)]
  BY DEF FlushDb
<1> HIDE DEF t
<1>4. Kept(t) = Kept(s)
  BY <1>1 DEF Kept
<1>5. CASE s.pending = <<>>
  BY <1>2, <1>3, <1>5 DEF Flushed
<1>6. Flushed(s, BoundPending(t), n)
  BY <1>1, <1>4, BoundPendingKeeps DEF Flushed
<1>7. Flushed(s, AfterConnectionError(t, t.stored), n)
  <2>1. DOMAIN t.stored \subseteq 1..n /\ \A i \in DOMAIN t.stored : t.stored[i] = 1
    BY <1>1 DEF DbOK
  <2>2. Flushed(t, AfterConnectionError(t, t.stored), n)
    BY <1>1, <2>1, ConnectionErrorKeeps
  <2> QED
    BY <1>4, <2>2 DEF Flushed
<1>8. /\ DOMAIN Insert(t.stored, ids) = DOMAIN t.stored \cup ids
      /\ \A i \in DOMAIN Insert(t.stored, ids) : Insert(t.stored, ids)[i] = 1
      /\ DOMAIN t.stored \cup ids \subseteq 1..n
  <2>1. DOMAIN t.stored \subseteq 1..n /\ \A i \in DOMAIN t.stored : t.stored[i] = 1
    BY <1>1 DEF DbOK
  <2>2. DOMAIN t.stored \cup ids \subseteq 1..n /\ ids \in SUBSET (1..n)
    BY <1>2, <2>1
  <2> QED
    BY <2>1, <2>2 DEF Insert
<1>9. Flushed(s, AfterConnectionError(t, Insert(t.stored, ids)), n)
  <2>1. Flushed(t, AfterConnectionError(t, Insert(t.stored, ids)), n)
    BY <1>1, <1>8, ConnectionErrorKeeps
  <2> QED
    BY <1>4, <2>1 DEF Flushed
<1>10. Flushed(s, [t EXCEPT !.pending = <<>>, !.discarded = @ \cup ids], n)
  <2> DEFINE u == [t EXCEPT !.pending = <<>>, !.discarded = @ \cup ids]
  <2>1. /\ IsDb(u) /\ u.pending = <<>> /\ u.stored = t.stored /\ u.conn = t.conn
        /\ u.backoff = t.backoff /\ u.overflowed = t.overflowed
        /\ u.discarded = t.discarded \cup ids
    <3>1. u = [t EXCEPT !.pending = <<>>, !.discarded = @ \cup ids]
      OBVIOUS
    <3> HIDE DEF u
    <3> QED
      BY <1>1, <3>1 DEF IsDb
  <2> HIDE DEF u
  <2>2. DbOK(u, n)
    BY <1>1, <1>2, <2>1 DEF DbOK
  <2>3. Kept(s) \subseteq Kept(u)
    BY <1>1, <2>1 DEF Kept
  <2> QED
    BY <1>2, <2>1, <2>2, <2>3 DEF Flushed, u
<1>11. Flushed(s, [t EXCEPT !.pending = <<>>, !.stored = Insert(@, ids)], n)
  <2> DEFINE u == [t EXCEPT !.pending = <<>>, !.stored = Insert(@, ids)]
  <2>1. /\ IsDb(u) /\ u.pending = <<>> /\ u.stored = Insert(t.stored, ids) /\ u.conn = t.conn
        /\ u.backoff = t.backoff /\ u.overflowed = t.overflowed
        /\ u.discarded = t.discarded
    <3>1. u = [t EXCEPT !.pending = <<>>, !.stored = Insert(@, ids)]
      OBVIOUS
    <3> HIDE DEF u
    <3> QED
      BY <1>1, <3>1 DEF IsDb
  <2> HIDE DEF u
  <2>2. DbOK(u, n)
    BY <1>1, <1>2, <1>8, <2>1 DEF DbOK
  <2>3. Kept(s) \subseteq Kept(u)
    BY <1>1, <1>8, <2>1 DEF Kept
  <2> QED
    BY <1>2, <2>1, <2>2, <2>3 DEF Flushed, u
<1> QED
  BY <1>3, <1>5, <1>6, <1>7, <1>9, <1>10, <1>11

(* What the buffer and the table keep when flows are published. *)
LEMMA BufferedKeeps ==
  ASSUME NEW S, records \in Seq(S), NEW flows \in Seq(S), DbOK(DbState, Len(records))
  PROVE  LET s == Buffered(flows)
             m == Len(records) + Len(flows)
         IN  /\ IsDb(s) /\ DbOK(s, m) /\ m \in Nat
             /\ Kept(DbState) \cup ((Len(records) + 1)..m) \subseteq Kept(s)
             /\ flows = <<>> => s.pending = pending
<1> DEFINE s == Buffered(flows)
           n == Len(records)
           m == n + Len(flows)
           ids == [i \in 1..Len(flows) |-> n + i]
<1>1. n \in Nat /\ Len(flows) \in Nat /\ m \in Nat
  OBVIOUS
<1>2. /\ DbState.pending = pending /\ DbState.stored = stored /\ DbState.conn = conn
      /\ DbState.backoff = backoff /\ DbState.overflowed = overflowed
      /\ DbState.discarded = discarded
  BY DEF DbState
<1>3. s = [DbState EXCEPT !.pending = pending \o ids]
  BY <1>2 DEF Buffered
<1>4. /\ IsDb(s) /\ s.pending = pending \o ids /\ s.stored = stored /\ s.conn = conn
      /\ s.backoff = backoff /\ s.overflowed = overflowed /\ s.discarded = discarded
  <2> HIDE DEF s, ids
  <2> QED
    BY <1>3 DEF IsDb, DbState
<1>5. /\ pending \in Seq(1..n) /\ DOMAIN pending = 1..Len(pending) /\ Len(pending) \in Nat
      /\ \A k \in DOMAIN pending : pending[k] \in 1..n
  BY <1>2 DEF DbOK
<1>6. /\ ids \in Seq(1..m) /\ Len(ids) = Len(flows)
      /\ \A k \in 1..Len(flows) : ids[k] = n + k
  BY <1>1
<1>7. pending \in Seq(1..m)
  <2>1. 1..n \subseteq 1..m
    BY <1>1
  <2> QED
    BY <1>5, <2>1, SeqMonotonic
<1> HIDE DEF ids, s
<1> DEFINE both == pending \o ids
<1>8. /\ both \in Seq(1..m) /\ Len(both) = Len(pending) + Len(flows)
      /\ \A k \in 1..(Len(pending) + Len(flows)) :
           both[k] = IF k <= Len(pending) THEN pending[k] ELSE ids[k - Len(pending)]
  <2>1. /\ both \in Seq(1..m) /\ Len(both) = Len(pending) + Len(ids)
        /\ \A k \in 1..(Len(pending) + Len(ids)) :
             both[k] = IF k <= Len(pending) THEN pending[k] ELSE ids[k - Len(pending)]
    <3> HIDE DEF m
    <3> QED
      BY <1>6, <1>7, ConcatProperties
  <2> QED
    BY <1>6, <2>1
<1> HIDE DEF both
<1>9. DOMAIN both = 1..(Len(pending) + Len(flows))
  BY <1>8
<1>10. \A k \in 1..Len(pending) : k \in DOMAIN both /\ both[k] = pending[k]
  BY <1>1, <1>5, <1>8, <1>9
<1>11. \A k \in 1..Len(flows) :
         Len(pending) + k \in DOMAIN both /\ both[Len(pending) + k] = n + k
  <2> SUFFICES ASSUME NEW k \in 1..Len(flows)
               PROVE  Len(pending) + k \in DOMAIN both /\ both[Len(pending) + k] = n + k
    OBVIOUS
  <2>1. /\ Len(pending) + k \in 1..(Len(pending) + Len(flows))
        /\ ~(Len(pending) + k <= Len(pending)) /\ (Len(pending) + k) - Len(pending) = k
    BY <1>1, <1>5
  <2> QED
    BY <1>6, <1>8, <1>9, <2>1
<1>12. \A k \in DOMAIN both : \/ k \in DOMAIN pending /\ both[k] = pending[k] /\ both[k] <= n
                              \/ ~(k \in DOMAIN pending) /\ k > Len(pending)
                                 /\ both[k] = n + (k - Len(pending)) /\ both[k] > n
  <2> SUFFICES ASSUME NEW k \in DOMAIN both
               PROVE  \/ k \in DOMAIN pending /\ both[k] = pending[k] /\ both[k] <= n
                      \/ ~(k \in DOMAIN pending) /\ k > Len(pending)
                         /\ both[k] = n + (k - Len(pending)) /\ both[k] > n
    OBVIOUS
  <2>1. k \in 1..(Len(pending) + Len(flows))
    BY <1>9
  <2>2. CASE k <= Len(pending)
    <3>1. k \in DOMAIN pending /\ both[k] = pending[k]
      BY <1>5, <1>8, <2>1, <2>2
    <3> QED
      BY <1>1, <1>5, <3>1
  <2>3. CASE ~(k <= Len(pending))
    <3>1. k - Len(pending) \in 1..Len(flows) /\ k > Len(pending) /\ k \notin 1..Len(pending)
      BY <1>1, <1>5, <2>1, <2>3
    <3>2. both[k] = n + (k - Len(pending))
      BY <1>6, <1>8, <2>1, <2>3, <3>1
    <3> QED
      BY <1>1, <1>5, <3>1, <3>2
  <2> QED
    BY <2>2, <2>3
<1>13. DbOK(s, m)
  <2>1. \A k, l \in DOMAIN both : k < l => both[k] < both[l]
    <3> SUFFICES ASSUME NEW k \in DOMAIN both, NEW l \in DOMAIN both, k < l
                 PROVE  both[k] < both[l]
      OBVIOUS
    <3>1. /\ k \in Nat /\ l \in Nat /\ both[k] \in Nat /\ both[l] \in Nat
      BY <1>8, <1>9
    <3>2. CASE l \in DOMAIN pending
      <4>1. k \in DOMAIN pending
        BY <1>5, <3>1, <3>2, <1>9
      <4> QED
        BY <1>2, <1>10, <1>5, <3>2, <4>1 DEF DbOK
    <3>3. CASE l \notin DOMAIN pending
      BY <1>1, <1>5, <1>12, <3>1, <3>3
    <3> QED
      BY <3>2, <3>3
  <2>2. /\ DOMAIN stored \subseteq 1..m /\ \A i \in DOMAIN stored : stored[i] = 1
        /\ conn \in BOOLEAN /\ backoff \in BOOLEAN
        /\ overflowed \subseteq 1..m /\ discarded \subseteq 1..m
    <3>1. 1..n \subseteq 1..m
      BY <1>1
    <3> QED
      BY <1>2, <3>1 DEF DbOK
  <2>3. \A g \in overflowed \ DOMAIN stored, k \in DOMAIN both : g < both[k]
    <3> SUFFICES ASSUME NEW g \in overflowed \ DOMAIN stored, NEW k \in DOMAIN both
                 PROVE  g < both[k]
      OBVIOUS
    <3>1. g \in 1..n
      BY <1>2 DEF DbOK
    <3>2. CASE k \in DOMAIN pending
      BY <1>2, <1>12, <3>2 DEF DbOK
    <3>3. CASE k \notin DOMAIN pending
      <4>1. both[k] > n /\ both[k] \in Nat
        BY <1>8, <1>9, <1>12, <3>3
      <4> QED
        BY <1>1, <3>1, <4>1
    <3> QED
      BY <3>2, <3>3
  <2> QED
    BY <1>4, <1>8, <2>1, <2>2, <2>3 DEF DbOK, both
<1>14. Kept(DbState) \cup ((n + 1)..m) \subseteq Kept(s)
  <2>1. ToSet(pending) \subseteq ToSet(both)
    BY <1>5, <1>10 DEF ToSet
  <2>2. (n + 1)..m \subseteq ToSet(both)
    <3> SUFFICES ASSUME NEW i \in (n + 1)..m PROVE i \in ToSet(both)
      OBVIOUS
    <3>1. i - n \in 1..Len(flows) /\ n + (i - n) = i
      BY <1>1
    <3> QED
      BY <1>11, <3>1 DEF ToSet
  <2> QED
    BY <1>2, <1>4, <2>1, <2>2 DEF Kept, both
<1>15. flows = <<>> => s.pending = pending
  <2> SUFFICES ASSUME flows = <<>> PROVE both = pending
    BY <1>4 DEF both
  <2>1. Len(both) = Len(pending) /\ \A k \in 1..Len(both) : both[k] = pending[k]
    BY <1>5, <1>8, <1>10
  <2> QED
    BY <1>7, <1>8, <2>1, SeqEqual
<1> QED
  BY <1>1, <1>4, <1>13, <1>14, <1>15 DEF s

LEMMA WrittenKeeps ==
  ASSUME FlowAssumption, dbUp \in BOOLEAN, NEW S, records \in Seq(S), NEW flows \in Seq(S),
         NEW outcome, DbOK(DbState, Len(records)), WithinBound(DbState)
  PROVE  LET t == Written(flows, outcome)
             m == Len(records) + Len(flows)
         IN  /\ IsDb(t) /\ DbOK(t, m) /\ m \in Nat /\ WithinBound(t)
             /\ Kept(DbState) \cup ((Len(records) + 1)..m) \subseteq Kept(t)
<1> DEFINE s == Buffered(flows)
           t == Written(flows, outcome)
           m == Len(records) + Len(flows)
<1>1. /\ IsDb(s) /\ DbOK(s, m) /\ m \in Nat
      /\ Kept(DbState) \cup ((Len(records) + 1)..m) \subseteq Kept(s)
      /\ flows = <<>> => s.pending = pending
  BY BufferedKeeps
<1>2. t = IF flows # <<>> /\ Len(s.pending) >= BatchSize
            THEN FlushDb(s, outcome, records \o flows) ELSE s
  BY DEF Written
<1>3. s.pending \in Seq(1..m) /\ BatchSize \in Nat /\ Len(s.pending) \in Nat
  BY <1>1 DEF DbOK, FlowAssumption
<1> HIDE DEF s, t, m
<1>4. Flushed(s, FlushDb(s, outcome, records \o flows), m)
  BY <1>1, FlushDbKeeps
<1>5. CASE flows # <<>> /\ Len(s.pending) >= BatchSize
  BY <1>1, <1>2, <1>4, <1>5 DEF Flushed, WithinBound, t, m
<1>6. CASE flows = <<>>
  <2>1. t = s /\ s.pending = DbState.pending
    BY <1>1, <1>2, <1>6 DEF DbState
  <2> QED
    BY <1>1, <2>1 DEF WithinBound, t, m
<1>7. CASE ~(Len(s.pending) >= BatchSize)
  <2>1. t = s /\ Len(s.pending) < BatchSize
    BY <1>2, <1>3, <1>7
  <2> QED
    BY <1>1, <2>1 DEF WithinBound, t, m
<1> QED
  BY <1>5, <1>6, <1>7 DEF t, m

LEMMA DbStateSet == ASSUME NEW t, IsDb(t), SetDb(t) PROVE DbState' = t
BY DEF SetDb, IsDb, DbState

LEMMA RefusedIsFinite ==
  ASSUME NEW a \in Int, NEW b \in Int, NEW refused \in SUBSET (a..b)
  PROVE  Cardinality(refused) \in Nat
BY FS_Interval, FS_Subset, FS_CardinalityType

(* A turn that publishes and leaves the process alive. *)
LEMMA StoreAfterPublish ==
  ASSUME FlowAssumption, FlowTypeOK, StoreInv, NEW S, records \in Seq(S), NEW flows \in Seq(S),
         NEW outcome, NEW refused, Publish(flows, outcome, refused), gone' = gone
  PROVE  StoreInv'
<1> DEFINE t == Written(flows, outcome)
           n == Len(records)
           m == n + Len(flows)
<1>1. dbUp \in BOOLEAN /\ DbOK(DbState, n) /\ WithinBound(DbState) /\ mishaps \in Nat
  BY DEF FlowTypeOK, StoreInv
<1>2. /\ IsDb(t) /\ DbOK(t, m) /\ m \in Nat /\ WithinBound(t)
      /\ Kept(DbState) \cup ((n + 1)..m) \subseteq Kept(t)
  BY <1>1, WrittenKeeps
<1>3. n \in Nat /\ Len(flows) \in Nat /\ records' = records \o flows /\ Len(records') = m
  BY ConcatProperties DEF Publish
<1> HIDE DEF t, m, n
<1>4. DbState' = t
  BY <1>2, DbStateSet DEF Publish, t
<1>5. /\ refused \subseteq (n + 1)..m /\ kafka' = kafka \cup (((n + 1)..m) \ refused)
      /\ failed' = failed \cup refused
  BY <1>3 DEF Publish, SendKafka, n
<1>6. 1..n \subseteq 1..m /\ (n + 1)..m \subseteq 1..m /\ 1..m \subseteq (1..n) \cup ((n + 1)..m)
  BY <1>3 DEF m
<1>7. mishaps' \in Nat
  <2>1. Cardinality(refused) \in Nat
    <3>1. n + 1 \in Int /\ m \in Int /\ refused \in SUBSET ((n + 1)..m)
      BY <1>2, <1>3, <1>5
    <3> QED
      BY <3>1, RefusedIsFinite
  <2>2. mishaps' = mishaps + (IF outcome # "fine" THEN 1 ELSE 0) + Cardinality(refused)
    BY DEF Publish, Charge
  <2> QED
    BY <1>1, <2>1, <2>2
<1>8. /\ gone \subseteq 1..n /\ 1..n \subseteq Kept(DbState) \cup gone
      /\ kafka \subseteq 1..n /\ failed \subseteq 1..n /\ 1..n \subseteq kafka \cup failed
  BY DEF StoreInv, RecordIds, n
<1>9. DbOK(DbState', Len(records')) /\ WithinBound(DbState')
  BY <1>2, <1>3, <1>4
<1>10. /\ gone' \subseteq 1..m /\ 1..m \subseteq Kept(DbState') \cup gone'
       /\ kafka' \subseteq 1..m /\ failed' \subseteq 1..m /\ 1..m \subseteq kafka' \cup failed'
  BY <1>2, <1>4, <1>5, <1>6, <1>8
<1> QED
  BY <1>3, <1>7, <1>9, <1>10 DEF StoreInv, RecordIds, DbOK, WithinBound, Kept

(* The end of the process empties the buffer, into "gone". *)
LEMMA StoreAtEnd ==
  ASSUME FlowAssumption, NEW n \in Nat, NEW m \in Nat, n <= m, NEW u, IsDb(u), DbOK(u, m),
         (1..n) \ gone \subseteq Kept(u), (n + 1)..m \subseteq Kept(u),
         gone \subseteq 1..n, gone' = gone \cup ToSet(u.pending),
         SetDb([u EXCEPT !.pending = <<>>, !.conn = FALSE])
  PROVE  /\ DbOK(DbState', m) /\ WithinBound(DbState')
         /\ gone' \subseteq 1..m /\ 1..m \subseteq Kept(DbState') \cup gone'
<1> DEFINE e == [u EXCEPT !.pending = <<>>, !.conn = FALSE]
<1>1. /\ IsDb(e) /\ e.pending = <<>> /\ e.stored = u.stored /\ e.conn = FALSE
      /\ e.backoff = u.backoff /\ e.overflowed = u.overflowed /\ e.discarded = u.discarded
  <2>1. e = [u EXCEPT !.pending = <<>>, !.conn = FALSE]
    OBVIOUS
  <2> HIDE DEF e
  <2> QED
    BY <2>1 DEF IsDb
<1>2. SetDb(e)
  OBVIOUS
<1> HIDE DEF e
<1>3. DbState' = e
  BY <1>1, <1>2, DbStateSet
<1>4. BatchSize \in Nat \ {0}
  BY DEF FlowAssumption
<1>5. DbOK(e, m) /\ WithinBound(e)
  <2>1. <<>> \in Seq(1..m) /\ Len(<<>>) = 0 /\ DOMAIN <<>> = {}
    OBVIOUS
  <2>2. DbOK(e, m)
    BY <1>1, <2>1 DEF DbOK
  <2>3. WithinBound(e)
    BY <1>1, <1>4, <2>1 DEF WithinBound
  <2> QED
    BY <2>2, <2>3
<1>6. ToSet(u.pending) \subseteq 1..m
  BY DEF DbOK, ToSet
<1>7. 1..n \subseteq 1..m /\ 1..m \subseteq (1..n) \cup ((n + 1)..m)
  OBVIOUS
<1>8. Kept(u) \subseteq Kept(e) \cup ToSet(u.pending)
  BY <1>1 DEF Kept
<1> QED
  BY <1>3, <1>5, <1>6, <1>7, <1>8

LEMMA StoreAfterStop ==
  ASSUME FlowAssumption, FlowTypeOK, StoreInv, NEW S, records \in Seq(S), NEW flows \in Seq(S),
         NEW outcome, NEW last, NEW refused,
         records' = records \o flows,
         SendKafka((Len(records) + 1)..Len(records'), refused),
         LET u == Closed(Written(flows, outcome), last, records \o flows)
         IN  /\ SetDb([u EXCEPT !.pending = <<>>, !.conn = FALSE])
             /\ gone' = gone \cup ToSet(u.pending),
         mishaps' \in Nat
  PROVE  StoreInv'
<1> DEFINE t == Written(flows, outcome)
           u == Closed(t, last, records \o flows)
           n == Len(records)
           m == n + Len(flows)
<1>1. dbUp \in BOOLEAN /\ DbOK(DbState, n) /\ WithinBound(DbState)
  BY DEF FlowTypeOK, StoreInv
<1>2. /\ IsDb(t) /\ DbOK(t, m) /\ m \in Nat
      /\ Kept(DbState) \cup ((n + 1)..m) \subseteq Kept(t)
  BY <1>1, WrittenKeeps
<1>3. n \in Nat /\ Len(flows) \in Nat /\ Len(records') = m /\ n <= m
  BY ConcatProperties
<1>4. /\ SetDb([u EXCEPT !.pending = <<>>, !.conn = FALSE])
      /\ gone' = gone \cup ToSet(u.pending)
      /\ u = FlushDb(t, last, records \o flows)
  BY DEF Closed
<1>5. /\ refused \subseteq (n + 1)..m /\ kafka' = kafka \cup (((n + 1)..m) \ refused)
      /\ failed' = failed \cup refused
  BY <1>3 DEF SendKafka
<1>6. 1..n \subseteq 1..m /\ (n + 1)..m \subseteq 1..m /\ 1..m \subseteq (1..n) \cup ((n + 1)..m)
  BY <1>3
<1>7. /\ gone \subseteq 1..n /\ 1..n \subseteq Kept(DbState) \cup gone
      /\ kafka \subseteq 1..n /\ failed \subseteq 1..n /\ 1..n \subseteq kafka \cup failed
  BY DEF StoreInv, RecordIds
<1> HIDE DEF u, t, m, n
<1>8. Flushed(t, u, m)
  BY <1>1, <1>2, <1>4, FlushDbKeeps
<1>9. /\ IsDb(u) /\ DbOK(u, m) /\ (1..n) \ gone \subseteq Kept(u) /\ (n + 1)..m \subseteq Kept(u)
  BY <1>2, <1>7, <1>8 DEF Flushed
<1>10. /\ DbOK(DbState', m) /\ WithinBound(DbState')
       /\ gone' \subseteq 1..m /\ 1..m \subseteq Kept(DbState') \cup gone'
  BY <1>2, <1>3, <1>4, <1>7, <1>9, StoreAtEnd
<1>11. kafka' \subseteq 1..m /\ failed' \subseteq 1..m /\ 1..m \subseteq kafka' \cup failed'
  BY <1>5, <1>6, <1>7
<1> QED
  BY <1>3, <1>10, <1>11 DEF StoreInv, RecordIds, DbOK, WithinBound, Kept

LEMMA StoreAfterCrash ==
  ASSUME FlowAssumption, FlowTypeOK, StoreInv, Crash
  PROVE  StoreInv'
<1> DEFINE n == Len(records)
           u == DbState
<1>1. n \in Nat /\ mishaps \in Nat /\ u.pending = pending
  BY DEF FlowTypeOK, StoreInv, DbState
<1>2. IsDb(u) /\ DbOK(u, n) /\ gone \subseteq 1..n /\ (1..n) \ gone \subseteq Kept(u)
  BY DEF StoreInv, RecordIds, IsDb, DbState
<1>3. /\ SetDb([u EXCEPT !.pending = <<>>, !.conn = FALSE]) /\ gone' = gone \cup ToSet(u.pending)
      /\ records' = records /\ kafka' = kafka /\ failed' = failed /\ mishaps' = mishaps + 1
  BY <1>1 DEF Crash
<1>4. (n + 1)..n \subseteq Kept(u) /\ n <= n
  BY <1>1
<1> HIDE DEF u
<1>5. /\ DbOK(DbState', n) /\ WithinBound(DbState')
      /\ gone' \subseteq 1..n /\ 1..n \subseteq Kept(DbState') \cup gone'
  <2> HIDE DEF n
  <2> QED
    BY <1>1, <1>2, <1>3, <1>4, StoreAtEnd
<1>6. kafka \subseteq 1..n /\ failed \subseteq 1..n /\ 1..n \subseteq kafka \cup failed
  BY DEF StoreInv, RecordIds
<1> QED
  BY <1>1, <1>3, <1>5, <1>6 DEF StoreInv, RecordIds, DbOK, WithinBound, Kept

(* A step that touches nothing of the store but the connection. *)
LEMMA StoreUntouched ==
  ASSUME StoreInv, UNCHANGED <<records, kafka, failed, gone, pending, stored, overflowed, discarded>>,
         conn' \in BOOLEAN, backoff' \in BOOLEAN, mishaps' \in Nat
  PROVE  StoreInv'
<1>1. /\ DbState'.pending = DbState.pending /\ DbState'.stored = DbState.stored
      /\ DbState'.conn = conn' /\ DbState'.backoff = backoff'
      /\ DbState'.overflowed = DbState.overflowed /\ DbState'.discarded = DbState.discarded
  BY DEF DbState
<1>2. DbOK(DbState', Len(records)) /\ WithinBound(DbState') /\ Kept(DbState') = Kept(DbState)
  BY <1>1 DEF StoreInv, DbOK, WithinBound, Kept
<1> QED
  BY <1>2 DEF StoreInv, RecordIds, DbOK, WithinBound, Kept

-----------------------------------------------------------------------------
(* One packet in its flow.                                                 *)

LEMMA ClientFacts ==
  ASSUME FlowAssumption, NEW p \in Packet
  PROVE  /\ Client(p) \in Ends
         /\ "SYN" \notin p.flags /\ p.icmp = "none" => Client(p) \in Initiator(p.conn)
<1> DEFINE s == p.from
           o == Other(s)
           private == Private[p.conn]
           port == Port[p.conn]
           wellKnown == [e \in Ends |-> port[e] < WellKnown]
<1>1. /\ p.conn \in FlowKeys /\ s \in Ends /\ p.icmp \in {"none", "request", "reply", "error"}
      /\ private \in [Ends -> BOOLEAN] /\ port \in [Ends -> Nat \cup {NoPort}]
      /\ (port["a"] = NoPort <=> port["b"] = NoPort)
  BY DEF FlowAssumption, Packet
<1>2. o \in Ends /\ o # s /\ Ends = {s, o} /\ Other(o) = s
  BY <1>1 DEF Other, Ends
<1>3. \A e \in Ends : port[e] \in Int /\ wellKnown[e] = (port[e] < WellKnown) /\ WellKnown \in Int
  BY <1>1 DEF NoPort, WellKnown
<1> DEFINE rest == IF private[s] # private[o] THEN CHOOSE e \in Ends : private[e]
                   ELSE IF NoPort \in {port[s], port[o]} THEN s
                   ELSE IF wellKnown[s] # wellKnown[o] THEN CHOOSE e \in Ends : ~wellKnown[e]
                   ELSE IF port[s] < port[o] THEN o ELSE s
<1>4. Client(p) = CASE "SYN" \in p.flags -> IF "ACK" \in p.flags THEN o ELSE s
                    [] "SYN" \notin p.flags /\ p.icmp = "reply" -> o
                    [] p.icmp \in {"request", "error"} -> s
                    [] OTHER -> rest
  BY DEF Client
<1>5. rest \in Ends /\ rest \in Initiator(p.conn)
  <2> DEFINE chosen == CHOOSE e \in Ends : private[e]
             unknown == CHOOSE e \in Ends : ~wellKnown[e]
  <2>1. Initiator(p.conn) = IF private["a"] # private["b"] THEN {e \in Ends : private[e]}
                            ELSE IF port["a"] # port["b"]
                              THEN {e \in Ends : port[e] > port[Other(e)]} ELSE Ends
    BY DEF Initiator
  <2>2. (private["a"] # private["b"] <=> private[s] # private[o])
        /\ (port["a"] # port["b"] <=> port[s] # port[o])
    BY <1>2 DEF Ends
  <2>3. CASE private[s] # private[o]
    <3>1. \E e \in Ends : private[e]
      BY <1>1, <1>2, <2>3
    <3>2. chosen \in Ends /\ private[chosen]
      BY <3>1
    <3>3. rest = chosen
      BY <2>3
    <3> HIDE DEF chosen, rest
    <3> QED
      BY <2>1, <2>2, <2>3, <3>2, <3>3
  <2>4. CASE private[s] = private[o] /\ NoPort \in {port[s], port[o]}
    <3>1. port[s] = port[o]
      BY <1>1, <1>2, <2>4 DEF Ends
    <3> QED
      BY <1>1, <2>1, <2>2, <2>4, <3>1
  <2>5. CASE private[s] = private[o] /\ ~(NoPort \in {port[s], port[o]})
             /\ wellKnown[s] # wellKnown[o]
    <3>1. \E e \in Ends : ~wellKnown[e]
      BY <1>2, <1>3, <2>5
    <3>2. unknown \in Ends /\ ~wellKnown[unknown]
      BY <3>1
    <3>3. rest = unknown
      BY <2>5
    <3> HIDE DEF unknown, rest
    <3>4. wellKnown[Other(unknown)] /\ Other(unknown) \in Ends
      <4>1. Other(o) = s
        BY <1>1, <1>2 DEF Other, Ends
      <4>2. wellKnown[s] \in BOOLEAN /\ wellKnown[o] \in BOOLEAN
        BY <1>2
      <4> HIDE DEF wellKnown
      <4>3. CASE unknown = s
        BY <1>2, <2>5, <3>2, <4>2, <4>3
      <4>4. CASE unknown = o
        <5>1. wellKnown[s]
          BY <2>5, <3>2, <4>2, <4>4
        <5> QED
          BY <1>2, <4>1, <4>4, <5>1
      <4> QED
        BY <1>2, <3>2, <4>3, <4>4
    <3>5. port[unknown] > port[Other(unknown)]
      <4>1. ~(port[unknown] < WellKnown) /\ port[Other(unknown)] < WellKnown
        BY <1>3, <3>2, <3>4
      <4> QED
        BY <1>3, <3>2, <3>4, <4>1
    <3>6. port[s] # port[o]
      BY <1>2, <1>3, <2>5
    <3> QED
      BY <2>1, <2>2, <2>5, <3>2, <3>3, <3>5, <3>6
  <2>6. CASE private[s] = private[o] /\ ~(NoPort \in {port[s], port[o]})
             /\ wellKnown[s] = wellKnown[o]
    <3>1. rest = IF port[s] < port[o] THEN o ELSE s
      BY <2>6
    <3> HIDE DEF rest
    <3>2. CASE port[s] = port[o]
      BY <1>2, <1>3, <2>1, <2>2, <2>6, <3>1, <3>2
    <3>3. CASE port[s] < port[o]
      <4>1. rest = o /\ port[o] > port[Other(o)] /\ port[s] # port[o]
        BY <1>2, <1>3, <3>1, <3>3
      <4> QED
        BY <1>2, <2>1, <2>2, <2>6, <4>1
    <3>4. CASE port[s] > port[o]
      <4>1. rest = s /\ port[s] > port[Other(s)] /\ port[s] # port[o]
        BY <1>2, <1>3, <3>1, <3>4
      <4> QED
        BY <1>2, <2>1, <2>2, <2>6, <4>1
    <3> QED
      BY <1>2, <1>3, <3>2, <3>3, <3>4
  <2> QED
    BY <2>3, <2>4, <2>5, <2>6
<1> HIDE DEF rest
<1> QED
  BY <1>1, <1>2, <1>4, <1>5

LEMMA ConnStateFacts ==
  ASSUME NEW state \in States, NEW p \in Packet
  PROVE  LET next == ConnState(state, p)
         IN  /\ next \in States
             /\ next = "SYN_ONLY" => "SYN" \in p.flags \/ state = "SYN_ONLY"
             /\ next = "ESTABLISHED" => \/ p.proto \in {"udp", "icmp"} \/ "SYN" \in p.flags
                                        \/ state \in {"SYN_ONLY", "ESTABLISHED"}
             /\ next = "FIN_WAIT" =>
                  \/ state = "FIN_WAIT"
                  \/ p.proto = "tcp" /\ "FIN" \in p.flags /\ state = "ESTABLISHED"
             /\ next = "CLOSED" => state = "CLOSED" \/ ("FIN" \in p.flags /\ state = "FIN_WAIT")
<1> DEFINE fin == IF state = "ESTABLISHED" THEN "FIN_WAIT"
                  ELSE IF state = "FIN_WAIT" THEN "CLOSED" ELSE state
           ack == IF {"SYN", "ACK"} \subseteq p.flags THEN "ESTABLISHED"
                  ELSE IF "SYN" \in p.flags /\ state = "NEW" THEN "SYN_ONLY"
                  ELSE IF "ACK" \in p.flags /\ state = "SYN_ONLY" THEN "ESTABLISHED"
                  ELSE state
           tcpFin == p.proto = "tcp" /\ "RST" \notin p.flags /\ "FIN" \in p.flags
<1>1. \/ ConnState(state, p) = "ESTABLISHED" /\ p.proto \in {"udp", "icmp"}
      \/ ConnState(state, p) = "RESET"
      \/ ConnState(state, p) = fin /\ tcpFin
      \/ ConnState(state, p) = ack
  BY DEF ConnState
<1>2. /\ fin \in States
      /\ fin = "SYN_ONLY" => state = "SYN_ONLY"
      /\ fin = "FIN_WAIT" => state = "ESTABLISHED"
      /\ fin = "CLOSED" => state \in {"FIN_WAIT", "CLOSED"}
      /\ fin # "ESTABLISHED"
  BY DEF States
<1>3. /\ ack \in States
      /\ ack = "SYN_ONLY" => "SYN" \in p.flags \/ state = "SYN_ONLY"
      /\ ack = "ESTABLISHED" => "SYN" \in p.flags \/ state \in {"SYN_ONLY", "ESTABLISHED"}
      /\ ack \in {"FIN_WAIT", "CLOSED"} => state = ack
  BY DEF States
<1> DEFINE next == ConnState(state, p)
<1>4. CASE next = "ESTABLISHED" /\ p.proto \in {"udp", "icmp"}
  BY <1>4 DEF States
<1>5. CASE next = "RESET"
  BY <1>5 DEF States
<1>6. CASE next = fin /\ tcpFin
  <2> HIDE DEF fin, next
  <2> QED
    BY <1>2, <1>6 DEF next
<1>7. CASE next = ack
  <2> HIDE DEF ack, next
  <2> QED
    BY <1>3, <1>7 DEF next
<1> QED
  BY <1>1, <1>4, <1>5, <1>6, <1>7

(* A packet read joins the flow of its connection. *)
LEMMA PacketJoins ==
  ASSUME FlowAssumption, FlowTypeOK, MemoryInv, pos < Len(topic), topic[pos + 1].proto # "junk"
  PROVE  LET p == topic[pos + 1]
             old == IF p.conn \in DOMAIN live THEN live[p.conn].packets ELSE {}
             flow == WithPacket(p, pos + 1)
         IN  /\ Honest(topic, flow) /\ flow.conn = p.conn
             /\ flow.packets = old \cup {pos + 1}
<1> DEFINE p == topic[pos + 1]
           known == p.conn \in DOMAIN live
           base == IF known THEN live[p.conn]
                   ELSE [conn |-> p.conn, client |-> Client(p), state |-> "NEW", packets |-> {}]
           flow == WithPacket(p, pos + 1)
           next == ConnState(base.state, p)
<1>1. /\ topic \in Seq(Packet) /\ Len(topic) \in Nat /\ pos \in 0..Len(topic) /\ start \in 0..pos
      /\ pos + 1 \in 1..Len(topic) /\ p \in Packet /\ p.conn \in FlowKeys /\ p.proto # "junk"
  <2>1. /\ topic \in Seq(Packet) /\ Len(topic) \in Nat /\ pos \in 0..Len(topic)
        /\ start \in 0..pos /\ DOMAIN topic = 1..Len(topic)
    BY DEF FlowTypeOK
  <2>2. pos + 1 \in 1..Len(topic)
    BY <2>1
  <2>3. p \in Packet
    BY <2>1, <2>2
  <2>4. p.conn \in FlowKeys
    BY <2>3 DEF Packet
  <2> QED
    BY <2>1, <2>2, <2>3, <2>4
<1>2. known => Honest(topic, live[p.conn]) /\ live[p.conn].conn = p.conn
               /\ live[p.conn].packets \subseteq (start + 1)..pos
  BY DEF MemoryInv, MemoryOK
<1>3. base \in [conn: FlowKeys, client: Ends, packets: SUBSET (1..Len(topic)), state: States]
      /\ base.conn = p.conn /\ base.packets \subseteq (start + 1)..pos
  <2>1. Client(p) \in Ends
    BY <1>1, ClientFacts
  <2>2. CASE known
    BY <1>2, <2>2 DEF Honest, FlowOn
  <2>3. CASE ~known
    BY <1>1, <2>1, <2>3 DEF States
  <2> QED
    BY <2>2, <2>3
<1>4. flow = [base EXCEPT !.packets = @ \cup {pos + 1}, !.state = ConnState(@, p)]
  BY DEF WithPacket
<1>5. /\ flow = [conn |-> base.conn, client |-> base.client,
                 packets |-> base.packets \cup {pos + 1}, state |-> next]
  <2> HIDE DEF base, p, flow
  <2> QED
    BY <1>3, <1>4
<1>6. base.packets = IF known THEN live[p.conn].packets ELSE {}
  OBVIOUS
<1>7. /\ next \in States
      /\ next = "SYN_ONLY" => "SYN" \in p.flags \/ base.state = "SYN_ONLY"
      /\ next = "ESTABLISHED" => \/ p.proto \in {"udp", "icmp"} \/ "SYN" \in p.flags
                                 \/ base.state \in {"SYN_ONLY", "ESTABLISHED"}
      /\ next = "FIN_WAIT" =>
           \/ base.state = "FIN_WAIT"
           \/ p.proto = "tcp" /\ "FIN" \in p.flags /\ base.state = "ESTABLISHED"
      /\ next = "CLOSED" =>
           base.state = "CLOSED" \/ ("FIN" \in p.flags /\ base.state = "FIN_WAIT")
  BY <1>1, <1>3, ConnStateFacts
<1>8. known => Honest(topic, base) /\ base = live[p.conn]
  BY <1>2
<1>9. ~known => base.state = "NEW" /\ base.packets = {} /\ base.client = Client(p)
  OBVIOUS
<1>10. p = topic[pos + 1]
  OBVIOUS
<1> HIDE DEF base, known, flow, next, p
<1>11. /\ flow \in FlowOn(topic) /\ flow.conn = p.conn /\ flow.client = base.client
       /\ flow.state = next /\ flow.packets = base.packets \cup {pos + 1}
  BY <1>1, <1>3, <1>5, <1>7 DEF FlowOn
<1>12. \A o \in base.packets : o \in Nat /\ o <= pos /\ o # pos + 1
  BY <1>1, <1>3
<1>13. \A o \in flow.packets : topic[o].conn = flow.conn /\ topic[o].proto # "junk"
  BY <1>1, <1>3, <1>8, <1>9, <1>10, <1>11 DEF Honest
<1>14. \E o \in flow.packets : FirstOf(flow, o) /\ flow.client = Client(topic[o])
  <2>1. CASE known
    <3>1. PICK o \in base.packets : FirstOf(base, o) /\ base.client = Client(topic[o])
      BY <1>8, <2>1 DEF Honest
    <3>2. o <= pos + 1
      BY <1>1, <1>12
    <3> QED
      BY <1>11, <3>1, <3>2 DEF FirstOf
  <2>2. CASE ~known
    <3>1. flow.packets = {pos + 1} /\ pos + 1 <= pos + 1
      BY <1>1, <1>9, <1>11, <2>2
    <3> QED
      BY <1>9, <1>10, <1>11, <2>2, <3>1 DEF FirstOf
  <2> QED
    BY <2>1, <2>2
<1>15. \A flag : Holds(topic, base, flag) \/ flag \in p.flags <=> Holds(topic, flow, flag)
  BY <1>10, <1>11 DEF Holds
<1>16. base.state \in {"SYN_ONLY", "FIN_WAIT", "CLOSED"} => Holds(topic, base, "SYN")
  BY <1>8, <1>9 DEF Honest
<1>17. base.state = "ESTABLISHED" =>
         Holds(topic, base, "SYN") \/ \E o \in base.packets : topic[o].proto \in {"udp", "icmp"}
  BY <1>8, <1>9 DEF Honest
<1>18. p.proto = "tcp" => ~\E o \in base.packets : topic[o].proto \in {"udp", "icmp"}
  <2> SUFFICES ASSUME p.proto = "tcp", NEW o \in base.packets, topic[o].proto \in {"udp", "icmp"}
               PROVE  FALSE
    OBVIOUS
  <2>1. o \in flow.packets /\ topic[o].conn = p.conn /\ topic[o].proto # "junk"
    BY <1>11, <1>13
  <2>2. o \in 1..Len(topic)
    BY <1>3
  <2>3. topic[o].proto = p.proto
    BY <1>1, <1>10, <2>1, <2>2 DEF MemoryInv, TopicOK
  <2> QED
    BY <2>3
<1>19. next \in {"SYN_ONLY", "FIN_WAIT", "CLOSED"} => Holds(topic, flow, "SYN")
  BY <1>7, <1>15, <1>16, <1>17, <1>18
<1>20. next = "ESTABLISHED" =>
         Holds(topic, flow, "SYN") \/ \E o \in flow.packets : topic[o].proto \in {"udp", "icmp"}
  BY <1>7, <1>10, <1>11, <1>15, <1>16, <1>17
<1>21. next \in {"FIN_WAIT", "CLOSED"} => Holds(topic, flow, "FIN")
  <2>1. base.state \in {"FIN_WAIT", "CLOSED"} => Holds(topic, base, "FIN")
    BY <1>8, <1>9 DEF Honest
  <2> QED
    BY <1>7, <1>15, <2>1
<1>22. next = "CLOSED" => TwoFins(topic, flow)
  <2>1. CASE base.state = "CLOSED"
    BY <1>8, <1>9, <1>11, <2>1 DEF Honest, TwoFins
  <2>2. CASE base.state = "FIN_WAIT" /\ "FIN" \in p.flags
    <3>1. Holds(topic, base, "FIN")
      BY <1>8, <1>9, <2>2 DEF Honest
    <3> QED
      BY <1>10, <1>11, <1>12, <2>2, <3>1 DEF Holds, TwoFins
  <2> QED
    BY <1>7, <2>1, <2>2
<1>23. Honest(topic, flow)
  BY <1>11, <1>13, <1>14, <1>19, <1>20, <1>21, <1>22 DEF Honest
<1> QED
  BY <1>6, <1>11, <1>23 DEF flow, p, known

LEMMA AppendedRecords ==
  ASSUME NEW S, NEW rs \in Seq(S), NEW flows \in Seq(S)
  PROVE  /\ Len(rs) \in Nat /\ Len(flows) \in Nat /\ DOMAIN flows = 1..Len(flows)
         /\ Len(rs \o flows) = Len(rs) + Len(flows)
         /\ \A i \in 1..Len(rs) : (rs \o flows)[i] = rs[i]
         /\ \A k \in 1..Len(flows) : (rs \o flows)[Len(rs) + k] = flows[k]
<1>1. Len(rs) \in Nat /\ Len(flows) \in Nat /\ DOMAIN flows = 1..Len(flows)
  OBVIOUS
<1>2. /\ Len(rs \o flows) = Len(rs) + Len(flows)
      /\ \A i \in 1..(Len(rs) + Len(flows)) :
           (rs \o flows)[i] = IF i <= Len(rs) THEN rs[i] ELSE flows[i - Len(rs)]
  BY ConcatProperties
<1>3. \A i \in 1..Len(rs) : i \in 1..(Len(rs) + Len(flows)) /\ i <= Len(rs)
  BY <1>1
<1>4. \A k \in 1..Len(flows) :
        /\ Len(rs) + k \in 1..(Len(rs) + Len(flows)) /\ ~(Len(rs) + k <= Len(rs))
        /\ (Len(rs) + k) - Len(rs) = k
  BY <1>1
<1> QED
  BY <1>1, <1>2, <1>3, <1>4

(* Flows that leave the memory for the records. *)
Split(lv, conns, flows) ==
  /\ flows \in Seq({lv[c] : c \in conns})
  /\ \A c \in conns : \E k \in DOMAIN flows : flows[k] = lv[c]
  /\ \A k, m \in DOMAIN flows : k # m => flows[k].packets \cap flows[m].packets = {}

LEMMA PublishedGrows ==
  ASSUME NEW S, NEW rs \in Seq(S), NEW flows \in Seq(S), NEW from \in Nat \ {0}
  PROVE  /\ \A o : Published(o, rs, from) => Published(o, rs \o flows, from)
         /\ \A k \in DOMAIN flows : \A o \in flows[k].packets :
              from <= Len(rs) + 1 => Published(o, rs \o flows, from)
<1>1. /\ Len(rs) \in Nat /\ Len(flows) \in Nat /\ DOMAIN flows = 1..Len(flows)
      /\ Len(rs \o flows) = Len(rs) + Len(flows)
      /\ \A i \in 1..Len(rs) : (rs \o flows)[i] = rs[i]
      /\ \A k \in 1..Len(flows) : (rs \o flows)[Len(rs) + k] = flows[k]
  BY AppendedRecords
<1>2. \A o : Published(o, rs, from) => Published(o, rs \o flows, from)
  <2>1. \A i \in from..Len(rs) : i \in from..Len(rs \o flows) /\ i \in 1..Len(rs)
    BY <1>1
  <2> QED
    BY <1>1, <2>1 DEF Published
<1>3. ASSUME NEW k \in DOMAIN flows, NEW o \in flows[k].packets, from <= Len(rs) + 1
      PROVE  Published(o, rs \o flows, from)
  <2>1. Len(rs) + k \in from..Len(rs \o flows)
    BY <1>1, <1>3
  <2> QED
    BY <1>1, <1>3, <2>1 DEF Published
<1> QED
  BY <1>2, <1>3

LEMMA SplitKeeps ==
  ASSUME NEW tp, NEW lv, NEW rs, NEW S, rs \in Seq(S), NEW flows \in Seq(S),
         NEW f0 \in Nat \ {0}, f0 <= Len(rs) + 1, NEW st \in Nat, NEW ps \in Nat,
         MemoryOK(tp, lv, rs, f0, st, ps), NEW conns, conns \subseteq DOMAIN lv,
         Split(lv, conns, flows), NEW left, DOMAIN left = DOMAIN lv \ conns,
         \A c \in DOMAIN left : left[c] = lv[c]
  PROVE  /\ MemoryOK(tp, left, rs \o flows, f0, st, ps)
         /\ \A o, from : from \in {1, f0} =>
              (Published(o, rs, from) \/ InFlow(o, lv)
                 => Published(o, rs \o flows, from) \/ InFlow(o, left))
<1> DEFINE all == rs \o flows
           n == Len(rs)
<1>1. /\ n \in Nat /\ Len(flows) \in Nat /\ DOMAIN flows = 1..Len(flows)
      /\ Len(all) = n + Len(flows)
      /\ \A i \in 1..n : all[i] = rs[i]
      /\ \A k \in 1..Len(flows) : all[n + k] = flows[k]
  BY AppendedRecords
<1>2. DOMAIN left = DOMAIN lv \ conns /\ \A c \in DOMAIN left : left[c] = lv[c]
  OBVIOUS
<1>3. \A k \in DOMAIN flows : \E c \in conns : flows[k] = lv[c]
  <2>1. flows \in Seq({lv[c] : c \in conns})
    BY DEF Split
  <2>2. \A k \in DOMAIN flows : flows[k] \in {lv[c] : c \in conns}
    BY <2>1
  <2> QED
    BY <2>2
<1> HIDE DEF all, n
<1>4. \A i \in 1..Len(all) : i \in 1..n \/ (i - n \in DOMAIN flows /\ all[i] = flows[i - n])
  <2> SUFFICES ASSUME NEW i \in 1..Len(all), i \notin 1..n
               PROVE  i - n \in DOMAIN flows /\ all[i] = flows[i - n]
    OBVIOUS
  <2>1. i - n \in 1..Len(flows) /\ n + (i - n) = i
    BY <1>1
  <2> QED
    BY <1>1, <2>1
<1>5. \A i \in f0..Len(all) : i \in 1..Len(all) /\ (i \in 1..n => i \in f0..n)
  BY <1>1 DEF n
<1>6. \A k \in DOMAIN flows, c \in DOMAIN left : flows[k].packets \cap left[c].packets = {}
  <2> SUFFICES ASSUME NEW k \in DOMAIN flows, NEW c \in DOMAIN left,
                      NEW o \in flows[k].packets \cap left[c].packets
               PROVE  FALSE
    OBVIOUS
  <2>1. PICK d \in conns : flows[k] = lv[d]
    BY <1>3
  <2>2. tp[o].conn = lv[d].conn /\ tp[o].conn = lv[c].conn /\ lv[c].conn = c /\ lv[d].conn = d
    BY <1>2, <2>1 DEF MemoryOK, Honest
  <2> QED
    BY <1>2, <2>2
<1>7. \A i \in 1..Len(all) : Honest(tp, all[i])
  <2>1. \A i \in 1..n : Honest(tp, rs[i])
    BY DEF MemoryOK, n
  <2>2. \A k \in DOMAIN flows : Honest(tp, flows[k])
    BY <1>3 DEF MemoryOK
  <2> QED
    BY <1>1, <1>4, <2>1, <2>2
<1>8. \A i \in f0..Len(all) : all[i].packets \subseteq (st + 1)..ps
  <2>1. \A i \in f0..n : rs[i].packets \subseteq (st + 1)..ps
    BY DEF MemoryOK, n
  <2>2. \A k \in DOMAIN flows : flows[k].packets \subseteq (st + 1)..ps
    BY <1>3 DEF MemoryOK
  <2> QED
    BY <1>1, <1>4, <1>5, <2>1, <2>2
<1>9. \A i, j \in f0..Len(all) : i # j => all[i].packets \cap all[j].packets = {}
  <2>1. \A i \in f0..n, k \in DOMAIN flows : rs[i].packets \cap flows[k].packets = {}
    BY <1>3 DEF MemoryOK, n
  <2>2. \A i, j \in f0..n : i # j => rs[i].packets \cap rs[j].packets = {}
    BY DEF MemoryOK, n
  <2>3. ASSUME NEW i \in f0..Len(all), NEW j \in f0..Len(all), i # j
        PROVE  all[i].packets \cap all[j].packets = {}
    <3>0. /\ i \in 1..n => i \in f0..n /\ all[i] = rs[i]
          /\ j \in 1..n => j \in f0..n /\ all[j] = rs[j]
          /\ i \notin 1..n => i - n \in DOMAIN flows /\ all[i] = flows[i - n]
          /\ j \notin 1..n => j - n \in DOMAIN flows /\ all[j] = flows[j - n]
      BY <1>1, <1>4, <1>5
    <3>1. CASE i \in 1..n /\ j \in 1..n
      BY <2>2, <2>3, <3>0, <3>1
    <3>2. CASE i \in 1..n /\ j \notin 1..n
      BY <2>1, <3>0, <3>2
    <3>3. CASE i \notin 1..n /\ j \in 1..n
      <4>1. rs[j].packets \cap flows[i - n].packets = {}
        BY <2>1, <3>0, <3>3
      <4> QED
        BY <3>0, <3>3, <4>1
    <3>4. CASE i \notin 1..n /\ j \notin 1..n
      <4>1. /\ i - n \in DOMAIN flows /\ all[i] = flows[i - n]
            /\ j - n \in DOMAIN flows /\ all[j] = flows[j - n]
        BY <1>4, <1>5, <3>4
      <4>2. i - n # j - n
        BY <1>1, <1>5, <2>3
      <4> QED
        BY <4>1, <4>2 DEF Split
    <3> QED
      BY <3>1, <3>2, <3>3, <3>4
  <2> QED
    BY <2>3
<1>10. \A i \in f0..Len(all), c \in DOMAIN left : all[i].packets \cap left[c].packets = {}
  <2>1. \A i \in f0..n, c \in DOMAIN left : rs[i].packets \cap left[c].packets = {}
    BY <1>2 DEF MemoryOK, n
  <2> QED
    BY <1>1, <1>4, <1>5, <1>6, <2>1
<1>11. MemoryOK(tp, left, all, f0, st, ps)
  <2>1. /\ DOMAIN left \subseteq FlowKeys
        /\ \A c \in DOMAIN left : Honest(tp, left[c])
        /\ \A c \in DOMAIN left : left[c].conn = c /\ left[c].packets \subseteq (st + 1)..ps
    BY <1>2 DEF MemoryOK
  <2> QED
    BY <1>7, <1>8, <1>9, <1>10, <2>1 DEF MemoryOK
<1>12. ASSUME NEW o, NEW from \in {1, f0}, Published(o, rs, from) \/ InFlow(o, lv)
       PROVE  Published(o, all, from) \/ InFlow(o, left)
  <2>1. from \in Nat \ {0} /\ from <= Len(rs) + 1
    BY <1>1 DEF n
  <2>2. /\ Published(o, rs, from) => Published(o, rs \o flows, from)
        /\ \A k \in DOMAIN flows : \A q \in flows[k].packets : Published(q, rs \o flows, from)
    BY <2>1, PublishedGrows
  <2>3. CASE InFlow(o, lv)
    <3>1. PICK c \in DOMAIN lv : o \in lv[c].packets
      BY <2>3 DEF InFlow
    <3>2. CASE c \in conns
      <4>1. PICK k \in DOMAIN flows : flows[k] = lv[c]
        BY <3>2 DEF Split
      <4> QED
        BY <2>2, <3>1, <4>1 DEF all
    <3>3. CASE c \notin conns
      BY <1>2, <3>1, <3>3 DEF InFlow
    <3> QED
      BY <3>2, <3>3
  <2> QED
    BY <1>12, <2>2, <2>3 DEF all
<1> QED
  BY <1>11, <1>12 DEF all

LEMMA PacketInMemory ==
  ASSUME FlowAssumption, FlowTypeOK, MemoryInv, pos < Len(topic), topic[pos + 1].proto # "junk",
         NEW lv,
         LET p == topic[pos + 1]
         IN  lv = [c \in DOMAIN live \cup {p.conn} |->
                     IF c = p.conn THEN WithPacket(p, pos + 1) ELSE live[c]]
  PROVE  /\ MemoryOK(topic, lv, records, first, start, pos + 1)
         /\ InFlow(pos + 1, lv)
         /\ \A o : InFlow(o, live) => InFlow(o, lv)
         /\ \A o : InFlow(o, lv) => InFlow(o, live) \/ o = pos + 1
<1> DEFINE p == topic[pos + 1]
           k == p.conn
           old == IF k \in DOMAIN live THEN live[k].packets ELSE {}
           flow == WithPacket(p, pos + 1)
<1>1. Honest(topic, flow) /\ flow.conn = k /\ flow.packets = old \cup {pos + 1}
  BY PacketJoins
<1>2. /\ start \in Nat /\ pos \in Nat /\ start <= pos /\ k \in FlowKeys
      /\ pos + 1 \in (start + 1)..(pos + 1) /\ pos + 1 \notin (start + 1)..pos
      /\ (start + 1)..pos \subseteq (start + 1)..(pos + 1)
  <2>1. topic \in Seq(Packet) /\ Len(topic) \in Nat /\ pos \in 0..Len(topic) /\ start \in 0..pos
        /\ DOMAIN topic = 1..Len(topic)
    BY DEF FlowTypeOK
  <2>2. pos + 1 \in DOMAIN topic
    BY <2>1
  <2>3. p \in Packet
    BY <2>1, <2>2
  <2>4. k \in FlowKeys
    BY <2>3 DEF Packet
  <2> HIDE DEF k
  <2> QED
    BY <2>1, <2>4
<1>3. /\ DOMAIN lv = DOMAIN live \cup {k} /\ lv[k] = flow
      /\ \A c \in DOMAIN lv : c # k => c \in DOMAIN live /\ lv[c] = live[c]
      /\ k \in DOMAIN live => old = live[k].packets
      /\ k \notin DOMAIN live => old = {}
  OBVIOUS
<1> HIDE DEF p, k, old, flow
<1>4. MemoryOK(topic, live, records, first, start, pos)
  BY DEF MemoryInv
<1>5. old \subseteq (start + 1)..pos
  BY <1>3, <1>4 DEF MemoryOK
<1>6. /\ DOMAIN lv \subseteq FlowKeys
      /\ \A c \in DOMAIN lv : Honest(topic, lv[c])
      /\ \A c \in DOMAIN lv : lv[c].conn = c /\ lv[c].packets \subseteq (start + 1)..(pos + 1)
  <2>1. DOMAIN lv \subseteq FlowKeys
    BY <1>2, <1>3, <1>4 DEF MemoryOK
  <2>2. ASSUME NEW c \in DOMAIN lv
        PROVE  /\ Honest(topic, lv[c]) /\ lv[c].conn = c
               /\ lv[c].packets \subseteq (start + 1)..(pos + 1)
    <3>1. CASE c = k
      BY <1>1, <1>2, <1>3, <1>5, <3>1
    <3>2. CASE c # k
      <4>1. c \in DOMAIN live /\ lv[c] = live[c]
        BY <1>3, <3>2
      <4> QED
        BY <1>2, <1>4, <4>1 DEF MemoryOK
    <3> QED
      BY <3>1, <3>2
  <2> QED
    BY <2>1, <2>2
<1>7. \A i \in first..Len(records) : records[i].packets \subseteq (start + 1)..(pos + 1)
  BY <1>2, <1>4 DEF MemoryOK
<1>8. \A i \in first..Len(records), c \in DOMAIN lv :
        records[i].packets \cap lv[c].packets = {}
  <2> SUFFICES ASSUME NEW i \in first..Len(records), NEW c \in DOMAIN lv
               PROVE  records[i].packets \cap lv[c].packets = {}
    OBVIOUS
  <2>1. /\ records[i].packets \subseteq (start + 1)..pos
        /\ c \in DOMAIN live => records[i].packets \cap live[c].packets = {}
    BY <1>4 DEF MemoryOK
  <2>2. CASE c = k
    BY <1>1, <1>2, <1>3, <2>1, <2>2
  <2>3. CASE c # k
    BY <1>3, <2>1, <2>3
  <2> QED
    BY <2>2, <2>3
<1>9. MemoryOK(topic, lv, records, first, start, pos + 1)
  BY <1>4, <1>6, <1>7, <1>8 DEF MemoryOK
<1>10. \A c \in DOMAIN live : c \in DOMAIN lv /\ live[c].packets \subseteq lv[c].packets
  BY <1>1, <1>3
<1>11. \A o : InFlow(o, live) => InFlow(o, lv)
  BY <1>10 DEF InFlow
<1>12. InFlow(pos + 1, lv)
  BY <1>1, <1>3 DEF InFlow
<1>13. ASSUME NEW o, InFlow(o, lv), o # pos + 1
       PROVE  InFlow(o, live)
  <2>1. PICK c \in DOMAIN lv : o \in lv[c].packets
    BY <1>13 DEF InFlow
  <2>2. c \in DOMAIN live /\ o \in live[c].packets
    BY <1>1, <1>3, <1>13, <2>1
  <2> QED
    BY <2>2 DEF InFlow
<1> QED
  BY <1>9, <1>11, <1>12, <1>13

(* Whatever has expired leaves in an order that repeats and drops nothing. *)
LEMMA ExpiredSplits ==
  ASSUME FlowAssumption, FlowTypeOK, MemoryInv, NEW conns, conns \subseteq DOMAIN live,
         NEW flows \in Expired(conns)
  PROVE  Split(live, conns, flows)
<1> DEFINE of == {live[c] : c \in conns}
           n == Cardinality(conns)
<1>1. n \in Nat
  <2>1. conns \subseteq FlowKeys /\ IsFiniteSet(FlowKeys)
    BY DEF MemoryInv, MemoryOK, FlowAssumption
  <2>2. IsFiniteSet(conns)
    BY <2>1, FS_Subset
  <2> QED
    BY <2>2, FS_CardinalityType
<1>2. /\ flows \in [1..n -> of]
      /\ \A c \in conns : live[c] \in ToSet(flows)
      /\ \A i, j \in DOMAIN flows :
           i < j => \E o \in flows[i].packets : \A q \in flows[j].packets : o < q
  BY DEF Expired
<1>3. \A c \in conns : \A o \in live[c].packets : o \in Nat /\ topic[o].conn = c
  <2>1. \A c \in conns : Honest(topic, live[c]) /\ live[c].conn = c
                         /\ live[c].packets \subseteq (start + 1)..pos
    BY DEF MemoryInv, MemoryOK
  <2>2. start \in Nat /\ pos \in Nat
    BY DEF FlowTypeOK
  <2>3. \A c \in conns : \A o \in live[c].packets : topic[o].conn = c
    BY <2>1 DEF Honest
  <2> QED
    BY <2>1, <2>2, <2>3
<1> HIDE DEF n
<1>4. flows \in Seq(of) /\ DOMAIN flows = 1..n
  BY <1>1, <1>2
<1>5. ASSUME NEW i \in DOMAIN flows, NEW j \in DOMAIN flows, i < j,
             NEW o \in flows[i].packets \cap flows[j].packets
      PROVE  FALSE
  <2>1. PICK c \in conns : flows[i] = live[c]
    BY <1>2
  <2>2. PICK d \in conns : flows[j] = live[d]
    BY <1>2
  <2>3. c = d
    BY <1>3, <1>5, <2>1, <2>2
  <2>4. PICK q \in flows[i].packets : \A r \in flows[j].packets : q < r
    BY <1>2, <1>5
  <2>5. q < q /\ q \in Nat
    BY <1>3, <2>1, <2>2, <2>3, <2>4
  <2> QED
    BY <2>5
<1>6. \A i, j \in DOMAIN flows : i # j => flows[i].packets \cap flows[j].packets = {}
  <2> SUFFICES ASSUME NEW i \in DOMAIN flows, NEW j \in DOMAIN flows, i # j
               PROVE  flows[i].packets \cap flows[j].packets = {}
    OBVIOUS
  <2>1. i < j \/ j < i
    BY <1>1, <1>4
  <2> QED
    BY <1>5, <2>1
<1>7. \A c \in conns : \E k \in DOMAIN flows : flows[k] = live[c]
  BY <1>2 DEF ToSet
<1> QED
  BY <1>4, <1>6, <1>7 DEF Split

(* A turn of the main loop: lv is the memory with what the turn has read,  *)
(* up to ps; some of it is published.                                      *)
LEMMA MemoryAfterTurn ==
  ASSUME FlowTypeOK, MemoryInv, up, NEW lv, NEW ps \in pos..Len(topic),
         MemoryOK(topic, lv, records, first, start, ps),
         \A o : InFlow(o, live) => InFlow(o, lv),
         \A o \in (pos + 1)..ps : topic[o].proto # "junk" => InFlow(o, lv),
         NEW conns, conns \subseteq DOMAIN lv, NEW S, records \in Seq(S), NEW flows \in Seq(S),
         Split(lv, conns, flows),
         DOMAIN live' = DOMAIN lv \ conns, \A c \in DOMAIN live' : live'[c] = lv[c],
         records' = records \o flows, pos' = ps, committed' \in {committed, ps},
         up' \in BOOLEAN, UNCHANGED <<topic, start, first, crashed, skipped>>
  PROVE  MemoryInv'
<1>1. /\ start \in Nat /\ pos \in Nat /\ start <= pos /\ ps \in Nat /\ pos <= ps /\ ps <= Len(topic)
      /\ first \in Nat \ {0} /\ first <= Len(records) + 1 /\ Len(topic) \in Nat
      /\ committed \in Int
  <2>1. /\ topic \in Seq(Packet) /\ pos \in 0..Len(topic) /\ start \in 0..pos
        /\ first \in 1..(Len(records) + 1) /\ records \in Seq(S)
        /\ committed \in {NoOffset} \cup 0..Len(topic)
    BY DEF FlowTypeOK
  <2>2. Len(topic) \in Nat /\ Len(records) \in Nat
    BY <2>1
  <2> QED
    BY <2>1, <2>2 DEF NoOffset
<1>2. /\ MemoryOK(topic, live', records', first, start, ps)
      /\ \A o, from : from \in {1, first} =>
           (Published(o, records, from) \/ InFlow(o, lv)
              => Published(o, records', from) \/ InFlow(o, live'))
  BY ZenonT(60), <1>1, SplitKeeps
<1>3. ASSUME NEW o \in (start + 1)..ps, topic[o].proto # "junk"
      PROVE  Published(o, records', first) \/ InFlow(o, live')
  <2>1. o \in (start + 1)..pos \/ o \in (pos + 1)..ps
    BY <1>1
  <2>2. Published(o, records, first) \/ InFlow(o, lv)
    BY <1>3, <2>1 DEF MemoryInv, AllRead
  <2> QED
    BY <1>2, <2>2
<1>4. \A o : Published(o, records', first) => Published(o, records', 1)
  <2>1. \A i \in first..Len(records') : i \in 1..Len(records')
    BY <1>1
  <2> QED
    BY <2>1 DEF Published
<1>5. \A o : Accounted(o) =>
        Published(o, records', 1) \/ InFlow(o, live') \/ o \in crashed \cup skipped
  BY <1>2 DEF Accounted
<1>6. ASSUME NEW o \in 1..Len(topic), topic[o].proto # "junk", o <= committed' \/ o <= start
      PROVE  Published(o, records', 1) \/ InFlow(o, live') \/ o \in crashed \cup skipped
  <2>1. o <= committed \/ o <= start \/ o \in (start + 1)..ps
    BY <1>1, <1>6
  <2>2. CASE o <= committed \/ o <= start
    BY <1>5, <1>6, <2>2 DEF MemoryInv, AllAccounted, Offsets
  <2>3. CASE o \in (start + 1)..ps
    BY <1>3, <1>4, <1>6, <2>3
  <2> QED
    BY <2>1, <2>2, <2>3
<1>7. committed' <= ps
  BY <1>1 DEF MemoryInv, AllAccounted
<1>8. TopicOK(topic) /\ TopicOK(topic)'
  BY DEF MemoryInv, TopicOK
<1>9. AllRead'
  BY <1>3 DEF AllRead, Published, InFlow
<1>10. AllAccounted'
  BY <1>6, <1>7 DEF AllAccounted, Accounted, Offsets, Published, InFlow
<1>11. MemoryOK(topic, live, records, first, start, pos)'
  BY <1>2
<1> QED
  BY <1>8, <1>9, <1>10, <1>11 DEF MemoryInv

-----------------------------------------------------------------------------
(* The invariant: it implies the types, holds at the start, and every      *)
(* action keeps it.                                                        *)

LEMMA InvTypes == ASSUME FlowInv PROVE FlowTypeOK
<1>1. /\ records \in Seq(AnyFlow) /\ Len(records) \in Nat /\ DOMAIN records = 1..Len(records)
      /\ Len(topic) \in Nat
  BY DEF FlowInv, BaseInv
<1>2. Flow = FlowOn(topic)
  BY DEF Flow, FlowOn, Offsets, States
<1>3. \A i \in 1..Len(records) : records[i] \in Flow
  BY <1>2 DEF FlowInv, MemoryInv, MemoryOK, Honest
<1>4. records \in Seq(Flow)
  BY <1>1, <1>3
<1>5. DOMAIN live \subseteq FlowKeys /\ \A c \in DOMAIN live : live[c] \in Flow
  BY <1>2 DEF FlowInv, MemoryInv, MemoryOK, Honest
<1>6. /\ pending \in Seq(RecordIds) /\ DOMAIN stored \subseteq RecordIds
      /\ \A i \in DOMAIN stored : stored[i] = 1
      /\ conn \in BOOLEAN /\ backoff \in BOOLEAN
      /\ overflowed \subseteq RecordIds /\ discarded \subseteq RecordIds
  BY DEF FlowInv, StoreInv, DbOK, DbState, RecordIds
<1>7. /\ gone \subseteq RecordIds /\ kafka \subseteq RecordIds /\ failed \subseteq RecordIds
  BY DEF FlowInv, StoreInv
<1>8. {dbUp, conn, backoff} \subseteq BOOLEAN
  BY <1>6 DEF FlowInv, BaseInv
<1> QED
  BY <1>4, <1>5, <1>6, <1>7, <1>8 DEF FlowInv, BaseInv, FlowTypeOK

LEMMA InvInit == ASSUME FlowAssumption, FlowInit PROVE FlowInv
<1>1. /\ Len(topic) = 0 /\ Len(records) = 0 /\ topic \in Seq(Packet) /\ records \in Seq(AnyFlow)
      /\ Len(pending) = 0 /\ DOMAIN live = {} /\ DOMAIN stored = {} /\ DOMAIN pending = {}
      /\ pending \in Seq(1..0)
  BY DEF FlowInit
<1>2. BaseInv
  BY <1>1 DEF FlowInit, BaseInv, NoOffset
<1>3. MemoryInv
  <2>1. TopicOK(topic)
    BY <1>1 DEF TopicOK
  <2>2. MemoryOK(topic, live, records, first, start, pos)
    BY <1>1 DEF MemoryOK, FlowInit
  <2>3. AllRead
    BY DEF AllRead, FlowInit
  <2>4. AllAccounted
    BY <1>1 DEF AllAccounted, FlowInit, Offsets, NoOffset
  <2> QED
    BY <2>1, <2>2, <2>3, <2>4 DEF MemoryInv
<1>4. StoreInv
  <2>1. DbState.pending = <<>> /\ DOMAIN DbState.stored = {} /\ DbState.conn = TRUE
        /\ DbState.backoff = FALSE /\ DbState.overflowed = {} /\ DbState.discarded = {}
    BY <1>1 DEF DbState, FlowInit
  <2>2. /\ DbState.pending \in Seq(1..Len(records)) /\ Len(DbState.pending) = 0
        /\ DOMAIN DbState.pending = {} /\ BatchSize \in Nat \ {0}
    BY <1>1, <2>1 DEF FlowAssumption
  <2>3. DbOK(DbState, Len(records))
    BY <2>1, <2>2 DEF DbOK
  <2>4. WithinBound(DbState)
    BY <2>2 DEF WithinBound
  <2> QED
    BY <1>1, <2>3, <2>4 DEF StoreInv, FlowInit, RecordIds
<1> QED
  BY <1>2, <1>3, <1>4 DEF FlowInv

LEMMA HonestGrows ==
  ASSUME NEW tp, NEW tq, Len(tp) \in Nat, Len(tq) \in Nat, Len(tp) <= Len(tq),
         \A i \in 1..Len(tp) : tq[i] = tp[i], NEW f, Honest(tp, f)
  PROVE  Honest(tq, f)
<1>1. 1..Len(tp) \subseteq 1..Len(tq)
  OBVIOUS
<1>2. f \in FlowOn(tq) /\ \A o \in f.packets : tq[o] = tp[o]
  BY <1>1 DEF Honest, FlowOn
<1>3. \A flag : Holds(tp, f, flag) => Holds(tq, f, flag)
  BY <1>2 DEF Holds
<1>4. TwoFins(tp, f) => TwoFins(tq, f)
  BY <1>2 DEF TwoFins
<1>5. \E o \in f.packets : FirstOf(f, o) /\ f.client = Client(tq[o])
  <2>1. PICK o \in f.packets : FirstOf(f, o) /\ f.client = Client(tp[o])
    BY DEF Honest
  <2> QED
    BY <1>2, <2>1
<1>6. (\E o \in f.packets : tp[o].proto \in {"udp", "icmp"})
        => \E o \in f.packets : tq[o].proto \in {"udp", "icmp"}
  BY <1>2
<1>7. \A o \in f.packets : tq[o].conn = f.conn /\ tq[o].proto # "junk"
  BY <1>2 DEF Honest
<1> QED
  BY <1>2, <1>3, <1>4, <1>5, <1>6, <1>7 DEF Honest

LEMMA CaptureKeeps == ASSUME FlowAssumption, FlowInv, Capture PROVE FlowInv'
<1>1. PICK seen \in Sightings :
        IsStrictPrefix(topic, seen) /\ topic' = SubSeq(seen, 1, Len(topic) + 1)
  BY DEF Capture
<1> DEFINE n == Len(topic)
<1>2. /\ topic \in Seq(Packet) /\ n \in Nat /\ seen \in Seq(Packet) /\ Len(seen) \in Nat
      /\ n <= Len(seen) /\ SubSeq(topic, 1, n) = SubSeq(seen, 1, n) /\ topic # seen
  BY <1>1 DEF FlowInv, BaseInv, FlowAssumption, IsStrictPrefix, IsPrefix
<1>3. \A i \in 1..n : topic[i] = seen[i]
  <2>1. SubSeq(topic, 1, n) = [i \in 1..n |-> topic[i]] /\ SubSeq(seen, 1, n) = [i \in 1..n |-> seen[i]]
    BY <1>2
  <2> HIDE DEF n
  <2>2. [i \in 1..n |-> topic[i]] = [i \in 1..n |-> seen[i]]
    BY <1>2, <2>1
  <2>3. ASSUME NEW i \in 1..n PROVE topic[i] = seen[i]
    <3>1. [j \in 1..n |-> topic[j]][i] = [j \in 1..n |-> seen[j]][i]
      BY <2>2
    <3> QED
      BY <3>1
  <2> QED
    BY <2>3
<1>4. n + 1 <= Len(seen)
  <2> SUFFICES ASSUME Len(seen) = n PROVE FALSE
    BY <1>2
  <2>1. topic = seen
    BY <1>2, <1>3
  <2> QED
    BY <1>2, <2>1
<1>5. /\ topic' \in Seq(Packet) /\ Len(topic') = n + 1
      /\ \A i \in 1..(n + 1) : topic'[i] = seen[i] /\ i \in DOMAIN seen
  BY <1>1, <1>2, <1>4
<1>6. /\ Len(topic) <= Len(topic') /\ Len(topic') \in Nat
      /\ \A i \in 1..Len(topic) : topic'[i] = topic[i] /\ i \in 1..Len(topic')
  BY <1>2, <1>3, <1>5
<1>7. UNCHANGED <<up, pos, committed, start, live, records, first, kafka, pending, stored, conn,
                  backoff, overflowed, discarded, dbUp, crashed, skipped, gone, failed, mishaps>>
  BY DEF Capture, dbVars
<1> HIDE DEF n
<1>8. BaseInv'
  <2>1. /\ pos \in 0..n /\ committed \in {NoOffset} \cup 0..n /\ crashed \cup skipped \subseteq 1..n
        /\ pos \in 0..(n + 1) /\ committed \in {NoOffset} \cup 0..(n + 1) /\ 1..n \subseteq 1..(n + 1)
    BY <1>2 DEF FlowInv, BaseInv, Offsets, n
  <2> QED
    BY <1>5, <1>7, <2>1 DEF FlowInv, BaseInv, Offsets
<1>9. TopicOK(topic')
  BY <1>1, <1>5 DEF TopicOK, FlowAssumption
<1>10. MemoryOK(topic', live, records, first, start, pos)
  <2>1. \A f : Honest(topic, f) => Honest(topic', f)
    BY <1>2, <1>6, HonestGrows DEF n
  <2> QED
    BY <2>1 DEF FlowInv, MemoryInv, MemoryOK
<1>11. AllRead'
  <2>1. \A o \in (start + 1)..pos : o \in 1..Len(topic)
    BY DEF FlowInv, BaseInv
  <2> QED
    BY <1>6, <1>7, <2>1 DEF FlowInv, MemoryInv, AllRead
<1>12. AllAccounted'
  <2>1. \A o \in 1..Len(topic') : o <= committed \/ (up /\ o <= start) => o \in 1..Len(topic)
    BY <1>2, <1>5 DEF FlowInv, BaseInv, NoOffset, n
  <2>2. \A o \in 1..Len(topic) :
          topic[o].proto # "junk" /\ (o <= committed \/ (up /\ o <= start)) => Accounted(o)
    BY DEF FlowInv, MemoryInv, AllAccounted, Offsets
  <2>3. \A o \in 1..Len(topic') :
          topic'[o].proto # "junk" /\ (o <= committed \/ (up /\ o <= start)) => Accounted(o)
    BY <1>6, <2>1, <2>2
  <2>4. \A o : Accounted(o)' <=> Accounted(o)
    BY <1>7 DEF Accounted
  <2>5. up => committed <= pos
    BY DEF FlowInv, MemoryInv, AllAccounted
  <2> QED
    BY <1>7, <2>3, <2>4, <2>5 DEF AllAccounted, Offsets
<1>13. MemoryInv'
  BY <1>7, <1>9, <1>10, <1>11, <1>12 DEF MemoryInv
<1>14. StoreInv'
  <2>1. conn \in BOOLEAN /\ backoff \in BOOLEAN /\ mishaps \in Nat
    BY DEF FlowInv, StoreInv, DbOK, DbState
  <2> QED
    BY <1>7, <2>1, StoreUntouched DEF FlowInv
<1> QED
  BY <1>8, <1>13, <1>14 DEF FlowInv

(* The flows that leave are records, whichever memory they leave. *)
LEMMA FlowsAreRecords ==
  ASSUME FlowInv, NEW lv, NEW ps, MemoryOK(topic, lv, records, first, start, ps),
         NEW conns, conns \subseteq DOMAIN lv, NEW flows, Split(lv, conns, flows)
  PROVE  flows \in Seq(AnyFlow)
<1>1. \A c \in conns : lv[c] \in AnyFlow
  <2>1. 1..Len(topic) \subseteq Nat
    BY DEF FlowInv, BaseInv
  <2>2. FlowOn(topic) \subseteq AnyFlow
    BY <2>1 DEF FlowOn, AnyFlow
  <2> QED
    BY <2>2 DEF MemoryOK, Honest
<1>2. flows \in Seq({lv[c] : c \in conns})
  BY DEF Split
<1>3. \A k \in DOMAIN flows : flows[k] \in {lv[c] : c \in conns}
  BY <1>2
<1>4. Len(flows) \in Nat /\ DOMAIN flows = 1..Len(flows) /\ \A k \in DOMAIN flows : flows[k] \in AnyFlow
  BY <1>1, <1>2, <1>3
<1> QED
  BY <1>2, <1>4, SeqDef

LEMMA BaseAfterTurn ==
  ASSUME FlowInv, up, NEW ps \in pos..Len(topic), NEW flows \in Seq(AnyFlow),
         records' = records \o flows, pos' = ps, committed' \in {committed, ps},
         up' \in BOOLEAN, ~up' => live' = <<>> /\ pending' = <<>> /\ ~conn',
         UNCHANGED <<topic, start, first, crashed, skipped, dbUp>>
  PROVE  BaseInv'
<1>1. /\ records' \in Seq(AnyFlow) /\ Len(records') = Len(records) + Len(flows)
      /\ Len(records) \in Nat /\ Len(flows) \in Nat
  BY ConcatProperties DEF FlowInv, BaseInv
<1>2. /\ Len(topic) \in Nat /\ pos \in 0..Len(topic) /\ start \in 0..pos
      /\ first \in 1..(Len(records) + 1) /\ committed \in {NoOffset} \cup 0..Len(topic)
  BY DEF FlowInv, BaseInv
<1>3. /\ ps \in 0..Len(topic) /\ start \in 0..ps /\ first \in 1..(Len(records') + 1)
      /\ committed' \in {NoOffset} \cup 0..Len(topic)
  BY <1>1, <1>2
<1> QED
  BY <1>1, <1>3 DEF FlowInv, BaseInv, Offsets

LEMMA MemoryUntouched ==
  ASSUME MemoryInv,
         UNCHANGED <<topic, up, pos, committed, start, live, records, first, crashed, skipped>>
  PROVE  MemoryInv'
<1>1. \A o : Accounted(o)' <=> Accounted(o)
  BY DEF Accounted
<1>2. AllAccounted'
  BY <1>1 DEF MemoryInv, AllAccounted, Offsets
<1>3. AllRead'
  BY DEF MemoryInv, AllRead
<1> QED
  BY <1>2, <1>3 DEF MemoryInv

LEMMA HandlePacketKeeps == ASSUME FlowAssumption, FlowInv, HandlePacket PROVE FlowInv'
<1> DEFINE p == topic[pos + 1]
           k == p.conn
           ps == pos + 1
           flow == WithPacket(p, ps)
           lv == [c \in DOMAIN live \cup {k} |-> IF c = k THEN flow ELSE live[c]]
<1>1. /\ up /\ pos < Len(topic) /\ pos' = ps
      /\ UNCHANGED <<topic, up, committed, start, first, dbUp, crashed, skipped, gone>>
      /\ IF p.proto = "junk" THEN UNCHANGED <<live, records, kafka, failed, dbVars, mishaps>>
         ELSE IF Finished(flow)
           THEN /\ live' = [c \in DOMAIN live \ {k} |-> live[c]]
                /\ \E outcome \in Outcomes, refused \in SUBSET {Len(records) + 1} :
                     Publish(<<flow>>, outcome, refused)
           ELSE /\ live' = lv
                /\ UNCHANGED <<records, kafka, failed, dbVars, mishaps>>
  BY DEF HandlePacket
<1>2. FlowTypeOK /\ BaseInv /\ MemoryInv /\ StoreInv
  BY InvTypes DEF FlowInv
<1>3. /\ ps \in pos..Len(topic) /\ pos \in Nat /\ start \in Nat
      /\ \A o \in (pos + 1)..ps : o = ps
      /\ records \in Seq(AnyFlow) /\ records \o <<>> = records /\ <<>> \in Seq(AnyFlow)
      /\ conn \in BOOLEAN /\ backoff \in BOOLEAN /\ mishaps \in Nat
  BY <1>1, <1>2 DEF BaseInv, StoreInv, DbOK, DbState
<1>4. \A any : Split(any, {}, <<>>)
  BY DEF Split
<1>5. MemoryOK(topic, live, records, first, start, ps)
  <2>1. (start + 1)..pos \subseteq (start + 1)..ps
    BY <1>3
  <2> QED
    BY <1>2, <2>1 DEF MemoryInv, MemoryOK
<1>6. p.proto # "junk" =>
        /\ MemoryOK(topic, lv, records, first, start, ps) /\ InFlow(ps, lv)
        /\ \A o : InFlow(o, live) => InFlow(o, lv)
  BY <1>1, <1>2, PacketInMemory
<1>7. DOMAIN lv = DOMAIN live \cup {k} /\ lv[k] = flow /\ \A c \in DOMAIN lv \ {k} : lv[c] = live[c]
  OBVIOUS
<1>8. p = topic[ps]
  OBVIOUS
<1> HIDE DEF p, k, flow, lv, ps
<1>9. CASE p.proto = "junk"
  <2>1. UNCHANGED <<live, records, kafka, failed, pending, stored, conn, backoff, overflowed,
                    discarded, mishaps>>
    BY <1>1, <1>9 DEF dbVars
  <2>2. /\ DOMAIN live' = DOMAIN live \ {} /\ \A c \in DOMAIN live' : live'[c] = live[c]
        /\ records' = records \o <<>> /\ {} \subseteq DOMAIN live /\ committed' \in {committed, ps}
        /\ \A o \in (pos + 1)..ps : topic[o].proto # "junk" => InFlow(o, live)
    BY <1>1, <1>3, <1>8, <1>9, <2>1
  <2>3. MemoryInv'
    BY <1>1, <1>2, <1>3, <1>4, <1>5, <2>2, MemoryAfterTurn
  <2>4. BaseInv'
    BY <1>1, <1>3, <2>2, BaseAfterTurn
  <2>5. StoreInv'
    BY <1>1, <1>2, <1>3, <2>1, StoreUntouched
  <2> QED
    BY <2>3, <2>4, <2>5 DEF FlowInv
<1>10. CASE p.proto # "junk" /\ ~Finished(flow)
  <2>1. UNCHANGED <<records, kafka, failed, pending, stored, conn, backoff, overflowed,
                    discarded, mishaps>> /\ live' = lv
    BY <1>1, <1>10 DEF dbVars
  <2>2. /\ DOMAIN live' = DOMAIN lv \ {} /\ \A c \in DOMAIN live' : live'[c] = lv[c]
        /\ records' = records \o <<>> /\ {} \subseteq DOMAIN lv /\ committed' \in {committed, ps}
        /\ \A o \in (pos + 1)..ps : topic[o].proto # "junk" => InFlow(o, lv)
    BY <1>1, <1>3, <1>6, <1>10, <2>1
  <2>3. MemoryInv'
    BY <1>1, <1>2, <1>3, <1>4, <1>6, <1>10, <2>2, MemoryAfterTurn
  <2>4. BaseInv'
    BY <1>1, <1>3, <2>2, BaseAfterTurn
  <2>5. StoreInv'
    BY <1>1, <1>2, <1>3, <2>1, StoreUntouched
  <2> QED
    BY <2>3, <2>4, <2>5 DEF FlowInv
<1>11. CASE p.proto # "junk" /\ Finished(flow)
  <2>1. PICK outcome \in Outcomes, refused \in SUBSET {Len(records) + 1} :
          Publish(<<flow>>, outcome, refused)
    BY <1>1, <1>11
  <2>2. Split(lv, {k}, <<flow>>)
    BY <1>7 DEF Split
  <2>3. {k} \subseteq DOMAIN lv
    BY <1>7
  <2>4. <<flow>> \in Seq(AnyFlow)
    BY <1>6, <1>11, <2>2, <2>3, FlowsAreRecords
  <2>5. /\ DOMAIN live' = DOMAIN lv \ {k} /\ \A c \in DOMAIN live' : live'[c] = lv[c]
        /\ records' = records \o <<flow>> /\ committed' \in {committed, ps}
        /\ \A o \in (pos + 1)..ps : topic[o].proto # "junk" => InFlow(o, lv)
    BY <1>1, <1>3, <1>6, <1>7, <1>11, <2>1 DEF Publish
  <2>6. MemoryInv'
    BY <1>1, <1>2, <1>3, <1>6, <1>11, <2>2, <2>3, <2>4, <2>5, MemoryAfterTurn
  <2>7. BaseInv'
    BY <1>1, <1>3, <2>4, <2>5, BaseAfterTurn
  <2>8. StoreInv'
    BY <1>1, <1>2, <1>3, <2>1, <2>4, StoreAfterPublish
  <2> QED
    BY <2>6, <2>7, <2>8 DEF FlowInv
<1> QED
  BY <1>9, <1>10, <1>11

LEMMA FlushExpiredKeeps ==
  ASSUME FlowAssumption, FlowInv, NEW conns \in SUBSET FlowKeys, FlushExpired(conns)
  PROVE  FlowInv'
<1>1. /\ up /\ conns \subseteq DOMAIN live /\ live' = [c \in DOMAIN live \ conns |-> live[c]]
      /\ committed' \in {committed, pos}
      /\ UNCHANGED <<topic, up, pos, start, first, dbUp, crashed, skipped, gone>>
  BY DEF FlushExpired, LiveWithout, Commit
<1>2. PICK flows \in Expired(conns), outcome \in Outcomes :
        \E refused \in SUBSET ((Len(records) + 1)..(Len(records) + Len(flows))) :
          Publish(flows, outcome, refused)
  BY DEF FlushExpired
<1>3. PICK refused : Publish(flows, outcome, refused)
  BY <1>2
<1>4. /\ FlowTypeOK /\ BaseInv /\ MemoryInv /\ StoreInv
      /\ MemoryOK(topic, live, records, first, start, pos)
  BY InvTypes DEF FlowInv, MemoryInv
<1>5. Split(live, conns, flows)
  BY <1>1, <1>4, ExpiredSplits
<1>6. flows \in Seq(AnyFlow) /\ records \in Seq(AnyFlow)
  BY <1>1, <1>4, <1>5, FlowsAreRecords DEF BaseInv
<1>7. /\ pos \in pos..Len(topic) /\ \A o \in (pos + 1)..pos : InFlow(o, live)
  BY <1>4 DEF BaseInv
<1>8. /\ DOMAIN live' = DOMAIN live \ conns /\ \A c \in DOMAIN live' : live'[c] = live[c]
      /\ records' = records \o flows
  BY <1>1, <1>3 DEF Publish
<1>9. MemoryInv'
  BY <1>1, <1>4, <1>5, <1>6, <1>7, <1>8, MemoryAfterTurn
<1>10. BaseInv'
  BY <1>1, <1>6, <1>7, <1>8, BaseAfterTurn
<1>11. StoreInv'
  BY <1>1, <1>3, <1>4, <1>6, StoreAfterPublish
<1> QED
  BY <1>9, <1>10, <1>11 DEF FlowInv

LEMMA StopKeeps == ASSUME FlowAssumption, FlowInv, Stop PROVE FlowInv'
<1>1. /\ up /\ up' = FALSE /\ live' = <<>>
      /\ UNCHANGED <<topic, pos, committed, start, first, dbUp, crashed, skipped>>
  BY DEF Stop
<1>2. PICK flows \in Expired(DOMAIN live), outcome \in Outcomes, last \in Outcomes :
     \E refused \in SUBSET ((Len(records) + 1)..(Len(records) + Len(flows))) :
       LET u == Closed(Written(flows, outcome), last, records \o flows)
       IN  /\ records' = records \o flows
           /\ SendKafka((Len(records) + 1)..Len(records'), refused)
           /\ SetDb([u EXCEPT !.pending = <<>>, !.conn = FALSE])
           /\ gone' = gone \cup ToSet(u.pending)
           /\ mishaps' = mishaps + 1 + Cardinality(refused)
                           + Cardinality({n \in 1..2 : <<outcome, last>>[n] # "fine"})
           /\ mishaps' <= MaxMishaps
  BY DEF Stop
<1>3. PICK refused \in SUBSET ((Len(records) + 1)..(Len(records) + Len(flows))) :
       LET u == Closed(Written(flows, outcome), last, records \o flows)
       IN  /\ records' = records \o flows
           /\ SendKafka((Len(records) + 1)..Len(records'), refused)
           /\ SetDb([u EXCEPT !.pending = <<>>, !.conn = FALSE])
           /\ gone' = gone \cup ToSet(u.pending)
           /\ mishaps' = mishaps + 1 + Cardinality(refused)
                           + Cardinality({n \in 1..2 : <<outcome, last>>[n] # "fine"})
           /\ mishaps' <= MaxMishaps
  BY <1>2
<1>4. /\ FlowTypeOK /\ BaseInv /\ MemoryInv /\ StoreInv
      /\ MemoryOK(topic, live, records, first, start, pos)
  BY InvTypes DEF FlowInv, MemoryInv
<1>5. Split(live, DOMAIN live, flows)
  BY <1>4, ExpiredSplits
<1>6. flows \in Seq(AnyFlow) /\ records \in Seq(AnyFlow)
  BY <1>4, <1>5, FlowsAreRecords DEF BaseInv
<1>7. /\ pos \in pos..Len(topic) /\ \A o \in (pos + 1)..pos : InFlow(o, live)
  BY <1>4 DEF BaseInv
<1>8. /\ DOMAIN live' = DOMAIN live \ DOMAIN live /\ \A c \in DOMAIN live' : live'[c] = live[c]
      /\ records' = records \o flows /\ up' \in BOOLEAN /\ committed' \in {committed, pos}
  <2>1. DOMAIN live' = {}
    BY <1>1
  <2>2. records' = records \o flows /\ up' \in BOOLEAN /\ committed' \in {committed, pos}
    BY <1>1, <1>3
  <2> QED
    BY <2>1, <2>2
<1>9. MemoryInv'
  BY <1>1, <1>4, <1>5, <1>6, <1>7, <1>8, MemoryAfterTurn
<1>10. pending' = <<>> /\ ~conn'
  <2> DEFINE u == Closed(Written(flows, outcome), last, records \o flows)
  <2>1. SetDb([u EXCEPT !.pending = <<>>, !.conn = FALSE])
    BY <1>3
  <2>2. IsDb(u)
    <3>1. dbUp \in BOOLEAN /\ DbOK(DbState, Len(records)) /\ WithinBound(DbState)
      BY <1>4 DEF FlowTypeOK, StoreInv
    <3> DEFINE t == Written(flows, outcome)
               m == Len(records) + Len(flows)
    <3>2. IsDb(t) /\ DbOK(t, m) /\ m \in Nat
      BY <1>6, <3>1, WrittenKeeps
    <3>3. u = FlushDb(t, last, records \o flows)
      BY DEF Closed
    <3> HIDE DEF t, m, u
    <3> QED
      BY <3>1, <3>2, <3>3, FlushDbKeeps DEF Flushed
  <2> HIDE DEF u
  <2> QED
    BY <2>1, <2>2 DEF SetDb, IsDb
<1>11. BaseInv'
  BY <1>1, <1>6, <1>7, <1>8, <1>10, BaseAfterTurn
<1>12. mishaps' \in Nat
  <2>1. Cardinality(refused) \in Nat
    <3> DEFINE a == Len(records) + 1
               b == Len(records) + Len(flows)
    <3>1. a \in Int /\ b \in Int /\ refused \in SUBSET (a..b)
      BY <1>3, <1>6
    <3> HIDE DEF a, b
    <3> QED
      BY <3>1, RefusedIsFinite
  <2>2. Cardinality({n \in 1..2 : <<outcome, last>>[n] # "fine"}) \in Nat
    <3> DEFINE bad == {n \in 1..2 : <<outcome, last>>[n] # "fine"}
    <3>1. 1 \in Int /\ 2 \in Int /\ bad \in SUBSET (1..2)
      OBVIOUS
    <3> HIDE DEF bad
    <3>2. Cardinality(bad) \in Nat
      BY <3>1, RefusedIsFinite
    <3> QED
      BY <3>2 DEF bad
  <2>3. mishaps \in Nat
    BY <1>4 DEF StoreInv
  <2> DEFINE a == Cardinality(refused)
             b == Cardinality({n \in 1..2 : <<outcome, last>>[n] # "fine"})
  <2>4. mishaps' = mishaps + 1 + a + b
    BY <1>3
  <2> HIDE DEF a, b
  <2>5. a \in Nat /\ b \in Nat
    BY <2>1, <2>2 DEF a, b
  <2> QED
    BY <2>3, <2>4, <2>5
<1>13. StoreInv'
  BY <1>3, <1>4, <1>6, <1>12, StoreAfterStop
<1> QED
  BY <1>9, <1>11, <1>13 DEF FlowInv

LEMMA CrashKeeps == ASSUME FlowAssumption, FlowInv, Crash PROVE FlowInv'
<1>1. /\ up' = FALSE /\ live' = <<>>
      /\ crashed' = crashed \cup UNION {live[c].packets : c \in DOMAIN live}
      /\ SetDb([DbState EXCEPT !.pending = <<>>, !.conn = FALSE])
      /\ UNCHANGED <<topic, pos, committed, start, records, first, dbUp, skipped>>
  BY DEF Crash
<1>2. BaseInv /\ MemoryInv /\ FlowTypeOK
  BY InvTypes DEF FlowInv
<1>3. \A o : InFlow(o, live) => o \in crashed'
  BY <1>1 DEF InFlow
<1>4. pending' = <<>> /\ conn' = FALSE
  BY <1>1 DEF SetDb, DbState
<1>5. BaseInv'
  <2>1. \A c \in DOMAIN live : live[c].packets \subseteq 1..Len(topic)
    BY <1>2 DEF MemoryInv, MemoryOK, Honest, FlowOn
  <2>2. crashed' \subseteq 1..Len(topic)
    BY <1>1, <1>2, <2>1 DEF BaseInv, Offsets
  <2> QED
    BY <1>1, <1>2, <1>4, <2>2 DEF BaseInv, Offsets
<1>6. MemoryInv'
  <2>1. DOMAIN live' = {}
    BY <1>1
  <2>2. MemoryOK(topic, live', records, first, start, pos)
    BY <1>2, <2>1 DEF MemoryInv, MemoryOK
  <2>3. \A o : Accounted(o) => Accounted(o)'
    BY <1>1, <1>3 DEF Accounted
  <2>4. AllAccounted'
    BY <1>1, <1>2, <2>3 DEF MemoryInv, AllAccounted, Offsets
  <2>5. AllRead'
    BY <1>1 DEF AllRead
  <2> QED
    BY <1>1, <1>2, <2>2, <2>4, <2>5 DEF MemoryInv
<1>7. StoreInv'
  BY <1>2, StoreAfterCrash DEF FlowInv
<1> QED
  BY <1>5, <1>6, <1>7 DEF FlowInv

LEMMA RestartKeeps == ASSUME FlowAssumption, FlowInv, StartAgain PROVE FlowInv'
<1>1. /\ ~up /\ up' = TRUE /\ conn' = TRUE /\ backoff' = FALSE
      /\ pos' = FirstPosition /\ start' = FirstPosition /\ first' = Len(records) + 1
      /\ skipped' = skipped \cup (IF committed = NoOffset THEN 1..Len(topic) ELSE {})
      /\ UNCHANGED <<topic, committed, live, records, kafka, pending, stored, overflowed, discarded,
                     dbUp, crashed, gone, failed, mishaps>>
  BY DEF StartAgain
<1>2. /\ BaseInv /\ MemoryInv /\ StoreInv /\ Len(topic) \in Nat /\ Len(records) \in Nat
      /\ mishaps \in Nat
  BY DEF FlowInv, BaseInv, StoreInv
<1>3. /\ FirstPosition \in 0..Len(topic) /\ committed <= FirstPosition
      /\ committed = NoOffset => FirstPosition = Len(topic)
      /\ committed # NoOffset => FirstPosition = committed
  BY <1>2 DEF BaseInv, FirstPosition, NoOffset
<1>4. DOMAIN live = {}
  BY <1>1, <1>2 DEF BaseInv
<1>5. BaseInv'
  <2>1. FirstPosition \in 0..FirstPosition /\ Len(records) + 1 \in 1..(Len(records) + 1)
    BY <1>2, <1>3
  <2> QED
    BY <1>1, <1>2, <1>3, <2>1 DEF BaseInv, Offsets
<1>6. MemoryInv'
  <2>1. \A i \in (Len(records) + 1)..Len(records) : FALSE
    BY <1>2
  <2>2. MemoryOK(topic, live, records, Len(records) + 1, start', pos')
    BY <1>2, <1>4, <2>1 DEF MemoryInv, MemoryOK
  <2>3. AllRead'
    <3>1. \A o \in (FirstPosition + 1)..FirstPosition : FALSE
      BY <1>3
    <3> QED
      BY <1>1, <3>1 DEF AllRead
  <2>4. \A o : Accounted(o) => Accounted(o)'
    BY <1>1 DEF Accounted
  <2>5. ASSUME NEW o \in 1..Len(topic), topic[o].proto # "junk",
               o <= committed \/ o <= FirstPosition
        PROVE  Accounted(o)'
    <3>1. CASE committed = NoOffset
      BY <1>1, <3>1 DEF Accounted
    <3>2. CASE committed # NoOffset
      BY <1>2, <1>3, <2>4, <2>5, <3>2 DEF MemoryInv, AllAccounted, Offsets
    <3> QED
      BY <3>1, <3>2
  <2>6. AllAccounted'
    BY <1>1, <1>3, <2>5 DEF AllAccounted, Offsets
  <2> QED
    BY <1>1, <1>2, <2>2, <2>3, <2>6 DEF MemoryInv
<1>7. StoreInv'
  BY <1>1, <1>2, StoreUntouched
<1> QED
  BY <1>5, <1>6, <1>7 DEF FlowInv

LEMMA OthersKeep ==
  ASSUME FlowInv, DatabaseFails \/ DatabaseReturns \/ BackoffEnds \/ UNCHANGED flowVars
  PROVE  FlowInv'
<1>1. /\ UNCHANGED <<topic, up, pos, committed, start, live, records, first, kafka, pending, stored,
                     conn, overflowed, discarded, crashed, skipped, gone, failed>>
      /\ dbUp' \in BOOLEAN /\ backoff' \in BOOLEAN /\ mishaps' \in Nat /\ conn \in BOOLEAN
  <2>1. dbUp \in BOOLEAN /\ backoff \in BOOLEAN /\ mishaps \in Nat /\ conn \in BOOLEAN
    BY DEF FlowInv, BaseInv, StoreInv, DbOK, DbState
  <2>2. CASE DatabaseFails
    <3>1. /\ dbUp' = FALSE /\ mishaps' = mishaps + 1
          /\ UNCHANGED <<topic, up, pos, committed, start, live, records, first, kafka, pending,
                         stored, conn, backoff, overflowed, discarded, crashed, skipped, gone, failed>>
      BY <2>2 DEF DatabaseFails, dbVars
    <3>2. dbUp' \in BOOLEAN
      BY <3>1
    <3>3. mishaps' \in Nat
      BY <2>1, <3>1
    <3>4. backoff' \in BOOLEAN
      BY <2>1, <3>1
    <3> QED
      BY <2>1, <3>1, <3>2, <3>3, <3>4
  <2>3. CASE DatabaseReturns
    BY <2>1, <2>3 DEF DatabaseReturns, dbVars
  <2>4. CASE BackoffEnds
    BY <2>1, <2>4 DEF BackoffEnds
  <2>5. CASE UNCHANGED flowVars
    BY <2>1, <2>5 DEF flowVars, dbVars
  <2> QED
    BY <2>2, <2>3, <2>4, <2>5
<1>2. BaseInv'
  BY <1>1 DEF FlowInv, BaseInv, Offsets
<1>3. MemoryInv'
  BY <1>1, MemoryUntouched DEF FlowInv
<1>4. StoreInv'
  BY <1>1, StoreUntouched DEF FlowInv
<1> QED
  BY <1>2, <1>3, <1>4 DEF FlowInv

LEMMA FlowStep == ASSUME FlowAssumption, FlowInv, [FlowNext]_flowVars PROVE FlowInv'
<1>1. ASSUME NEW conns \in SUBSET FlowKeys, FlushExpired(conns) PROVE FlowInv'
  BY <1>1, FlushExpiredKeeps
<1> QED
  BY <1>1, CaptureKeeps, HandlePacketKeeps, StopKeeps, CrashKeeps, RestartKeeps, OthersKeep
     DEF FlowNext

LEMMA FlowInvariant == ASSUME FlowAssumption PROVE FlowSpec => []FlowInv
<1>1. FlowInit => FlowInv
  BY InvInit
<1>2. FlowInv /\ [FlowNext]_flowVars => FlowInv'
  BY FlowStep
<1> QED
  BY <1>1, <1>2, PTL DEF FlowSpec

-----------------------------------------------------------------------------
(* What the invariant gives.                                               *)

LEMMA PairIsTwo ==
  ASSUME NEW S, IsFiniteSet(S), NEW a \in S, NEW b \in S, a # b
  PROVE  Cardinality(S) >= 2
<1> DEFINE T == {a}
           U == {a} \cup {b}
<1>1. IsFiniteSet(T) /\ Cardinality(T) = 1
  BY FS_Singleton
<1>2. b \notin T
  OBVIOUS
<1> HIDE DEF T
<1>3. IsFiniteSet(T \cup {b}) /\ Cardinality(T \cup {b}) = Cardinality(T) + 1
  BY <1>1, <1>2, FS_AddElement
<1>4. T \cup {b} \subseteq S
  BY DEF T
<1>5. Cardinality(T \cup {b}) <= Cardinality(S)
  BY <1>4, FS_Subset
<1>6. Cardinality(S) \in Nat
  BY FS_CardinalityType
<1> QED
  BY <1>1, <1>3, <1>5, <1>6

LEMMA SomeIsPositive ==
  ASSUME NEW S, IsFiniteSet(S), NEW a \in S PROVE Cardinality(S) > 0
<1>1. Cardinality(S) \in Nat /\ (Cardinality(S) = 0 <=> S = {})
  BY FS_CardinalityType, FS_EmptySet
<1> QED
  BY <1>1

LEMMA AtMostOneCounts ==
  ASSUME NEW S, \A a, b \in S : a = b
  PROVE  Cardinality(S) = IF S = {} THEN 0 ELSE 1
<1>1. CASE S = {}
  BY <1>1, FS_EmptySet
<1>2. CASE S # {}
  <2>1. PICK a \in S : TRUE
    BY <1>2
  <2>2. S = {a}
    BY <2>1
  <2>3. Cardinality({a}) = 1
    BY FS_Singleton
  <2> QED
    BY <1>2, <2>2, <2>3
<1> QED
  BY <1>1, <1>2

LEMMA EachInOne == ASSUME FlowAssumption, FlowInv PROVE EachPacketInOneFlow
<1> SUFFICES ASSUME up, NEW o \in (start + 1)..pos
             PROVE  Counted(o, first..Len(records))
                      + Cardinality({c \in DOMAIN live : o \in live[c].packets})
                    = (IF topic[o].proto = "junk" THEN 0 ELSE 1)
  BY DEF EachPacketInOneFlow
<1> DEFINE R == {i \in first..Len(records) : o \in records[i].packets}
           L == {c \in DOMAIN live : o \in live[c].packets}
<1>1. /\ MemoryOK(topic, live, records, first, start, pos) /\ AllRead
      /\ Len(records) \in Nat /\ first \in Nat \ {0}
  BY DEF FlowInv, MemoryInv, BaseInv
<1>2. first..Len(records) \subseteq 1..Len(records)
  BY <1>1
<1>3. \A i, j \in R : i = j
  BY <1>1 DEF MemoryOK
<1>4. \A c, d \in L : c = d
  BY <1>1 DEF MemoryOK, Honest
<1>5. R = {} \/ L = {}
  BY <1>1 DEF MemoryOK
<1>6. topic[o].proto = "junk" => R = {} /\ L = {}
  BY <1>1, <1>2 DEF MemoryOK, Honest
<1>7. topic[o].proto # "junk" => R # {} \/ L # {}
  BY <1>1 DEF AllRead, Published, InFlow
<1>8. Counted(o, first..Len(records)) = Cardinality(R)
  BY DEF Counted
<1> HIDE DEF R, L
<1>9. /\ Cardinality(R) = IF R = {} THEN 0 ELSE 1
      /\ Cardinality(L) = IF L = {} THEN 0 ELSE 1
  BY <1>3, <1>4, AtMostOneCounts
<1>10. Cardinality(R) + Cardinality(L) = (IF topic[o].proto = "junk" THEN 0 ELSE 1)
  BY <1>5, <1>6, <1>7, <1>9
<1> QED
  BY <1>8, <1>10 DEF L

LEMMA CommittedIsAccounted == ASSUME FlowInv PROVE CommittedAccounted
<1> SUFFICES ASSUME NEW o \in IpOffsets, o <= committed
             PROVE  Counted(o, RecordIds) > 0 \/ InLive(o) \/ o \in crashed \cup skipped
  BY DEF CommittedAccounted
<1>1. Accounted(o)
  BY DEF FlowInv, MemoryInv, AllAccounted, IpOffsets
<1>2. ASSUME Published(o, records, 1) PROVE Counted(o, RecordIds) > 0
  <2> DEFINE S == {i \in RecordIds : o \in records[i].packets}
  <2>1. Len(records) \in Nat
    BY DEF FlowInv, BaseInv
  <2>2. IsFiniteSet(RecordIds) /\ S \subseteq RecordIds
    BY <2>1, FS_Interval DEF RecordIds
  <2>3. PICK i \in S : TRUE
    BY <1>2 DEF Published, RecordIds
  <2> HIDE DEF S
  <2>4. IsFiniteSet(S)
    BY <2>2, FS_Subset
  <2>5. Cardinality(S) > 0
    BY <2>3, <2>4, SomeIsPositive
  <2> QED
    BY <2>5 DEF Counted, S
<1> QED
  BY <1>1, <1>2 DEF Accounted, InLive, InFlow

LEMMA FatesAndRows ==
  ASSUME FlowInv PROVE EveryRecordHasAFate /\ OneRowPerFlow /\ OldestGivenUp
<1>1. /\ DbState.pending = pending /\ DbState.stored = stored
      /\ DbState.overflowed = overflowed /\ DbState.discarded = discarded
  BY DEF DbState
<1>2. EveryRecordHasAFate
  BY <1>1 DEF FlowInv, StoreInv, Kept, EveryRecordHasAFate
<1>3. OneRowPerFlow
  BY <1>1 DEF FlowInv, StoreInv, DbOK, OneRowPerFlow
<1>4. OldestGivenUp
  BY <1>1 DEF FlowInv, StoreInv, DbOK, WithinBound, OldestGivenUp, ToSet
<1> QED
  BY <1>2, <1>3, <1>4

LEMMA SomeFlow ==
  ASSUME FlowInv, NEW f \in {live[c] : c \in DOMAIN live} \cup ToSet(records)
  PROVE  Honest(topic, f)
<1>1. Len(records) \in Nat /\ DOMAIN records = 1..Len(records)
  BY DEF FlowInv, BaseInv
<1> QED
  BY <1>1 DEF FlowInv, MemoryInv, MemoryOK, ToSet

LEMMA DirectionHolds == ASSUME FlowAssumption, FlowInv PROVE DirectionIndependentOfFirst
<1> SUFFICES ASSUME NEW f \in {live[c] : c \in DOMAIN live} \cup ToSet(records)
             PROVE  LET p == topic[CHOOSE o \in f.packets : \A q \in f.packets : o <= q]
                    IN  "SYN" \notin p.flags /\ p.icmp = "none" => f.client \in Initiator(f.conn)
  BY DEF DirectionIndependentOfFirst
<1> DEFINE least == CHOOSE o \in f.packets : \A q \in f.packets : o <= q
<1>1. Honest(topic, f) /\ topic \in Seq(Packet) /\ Len(topic) \in Nat
  BY SomeFlow DEF FlowInv, BaseInv
<1>2. PICK o \in f.packets : FirstOf(f, o) /\ f.client = Client(topic[o])
  BY <1>1 DEF Honest
<1>3. least \in f.packets /\ \A q \in f.packets : least <= q
  BY <1>2 DEF FirstOf
<1> HIDE DEF least
<1>4. f.packets \subseteq 1..Len(topic)
  BY <1>1 DEF Honest, FlowOn
<1>5. o <= least /\ least <= o
  BY <1>2, <1>3 DEF FirstOf
<1>6. o = least
  <2>1. o \in Int /\ least \in Int
    BY <1>2, <1>3, <1>4
  <2> QED
    BY <1>5, <2>1
<1>7. topic[o] \in Packet /\ topic[o].conn = f.conn
  BY <1>1, <1>2, <1>4 DEF Honest
<1>8. "SYN" \notin topic[o].flags /\ topic[o].icmp = "none" => f.client \in Initiator(f.conn)
  BY <1>2, <1>7, ClientFacts
<1> QED
  BY <1>6, <1>8 DEF least

LEMMA ClosedHolds == ASSUME FlowInv PROVE ClosedAfterHandshake
<1> SUFFICES ASSUME NEW i \in RecordIds, records[i].state = "CLOSED"
             PROVE  LET having(flag) == {o \in records[i].packets : flag \in topic[o].flags}
                    IN  having("SYN") # {} /\ Cardinality(having("FIN")) >= 2
  BY DEF ClosedAfterHandshake
<1> DEFINE fins == {o \in records[i].packets : "FIN" \in topic[o].flags}
<1>1. Honest(topic, records[i])
  BY DEF FlowInv, MemoryInv, MemoryOK, RecordIds
<1>2. Holds(topic, records[i], "SYN") /\ TwoFins(topic, records[i])
  BY <1>1 DEF Honest
<1>3. PICK o \in fins, q \in fins : o # q
  BY <1>2 DEF TwoFins
<1>4. IsFiniteSet(fins)
  <2>1. Len(topic) \in Nat /\ fins \subseteq 1..Len(topic)
    BY <1>1 DEF Honest, FlowOn, FlowInv, BaseInv
  <2>2. IsFiniteSet(1..Len(topic))
    <3>1. 1 \in Int /\ Len(topic) \in Int
      BY <2>1
    <3> QED
      BY <3>1, FS_Interval
  <2> HIDE DEF fins
  <2> QED
    BY <2>1, <2>2, FS_Subset
<1> HIDE DEF fins
<1>5. Cardinality(fins) >= 2
  BY <1>3, <1>4, PairIsTwo
<1> QED
  BY <1>2, <1>5 DEF Holds, fins

-----------------------------------------------------------------------------
(* The two action properties.                                              *)

LEMMA OnlyUnreadJoins ==
  ASSUME FlowAssumption, FlowInv, [FlowNext]_flowVars, NEW o, InFlow(o, live')
  PROVE  InFlow(o, live) \/ (HandlePacket /\ o = pos + 1)
<1>1. ASSUME NEW conns \in SUBSET FlowKeys, FlushExpired(conns)
      PROVE  \A c \in DOMAIN live' : c \in DOMAIN live /\ live'[c] = live[c]
  BY <1>1 DEF FlushExpired, LiveWithout
<1>2. ASSUME Stop \/ Crash PROVE DOMAIN live' = {}
  <2>1. live' = <<>>
    BY <1>2 DEF Stop, Crash
  <2> QED
    BY <2>1
<1>3. ASSUME Capture \/ StartAgain \/ DatabaseFails \/ DatabaseReturns \/ BackoffEnds
               \/ UNCHANGED flowVars
      PROVE  live' = live
  BY <1>3 DEF Capture, StartAgain, DatabaseFails, DatabaseReturns, BackoffEnds, flowVars
<1>4. CASE HandlePacket
  <2> DEFINE p == topic[pos + 1]
             lv == [c \in DOMAIN live \cup {p.conn} |->
                      IF c = p.conn THEN WithPacket(p, pos + 1) ELSE live[c]]
  <2>1. pos < Len(topic) /\ FlowTypeOK /\ MemoryInv
    BY <1>4, InvTypes DEF HandlePacket, FlowInv
  <2>2. CASE p.proto = "junk"
    BY <1>4, <2>2 DEF HandlePacket
  <2>3. CASE p.proto # "junk"
    <3>1. \A q : InFlow(q, lv) => InFlow(q, live) \/ q = pos + 1
      BY <2>1, <2>3, PacketInMemory
    <3>2. \A c \in DOMAIN live' : c \in DOMAIN lv /\ live'[c] = lv[c]
      BY <1>4, <2>3 DEF HandlePacket
    <3> HIDE DEF lv
    <3>3. InFlow(o, lv)
      BY <3>2 DEF InFlow
    <3> QED
      BY <1>4, <3>1, <3>3
  <2> QED
    BY <2>2, <2>3
<1> QED
  BY <1>1, <1>2, <1>3, <1>4 DEF FlowNext, InFlow

LEMMA NotCountedStep ==
  ASSUME FlowAssumption, FlowInv, [FlowNext]_flowVars,
         NEW o \in IpOffsets, o <= committed /\ ~InLive(o)
  PROVE  ~\E c \in DOMAIN live' : o \in live'[c].packets
<1> SUFFICES ASSUME InFlow(o, live') PROVE FALSE
  BY DEF InFlow
<1>1. ~InFlow(o, live)
  BY DEF InLive, InFlow
<1>2. HandlePacket /\ o = pos + 1
  BY <1>1, OnlyUnreadJoins
<1>3. up /\ committed <= pos
  BY <1>2 DEF HandlePacket, FlowInv, MemoryInv, AllAccounted
<1>4. pos \in Nat /\ committed \in Int
  BY DEF FlowInv, BaseInv, NoOffset
<1> QED
  BY <1>2, <1>3, <1>4

(* A flush that nothing disturbs empties the buffer. *)
LEMMA FineFlush ==
  ASSUME NEW n \in Nat, NEW s, IsDb(s), DbOK(s, n), dbUp, ~s.backoff, NEW published
  PROVE  LET t == FlushDb(s, "fine", published) IN t.pending = <<>> /\ ~t.backoff
<1> DEFINE t == IF s.conn THEN s ELSE Reconnect(s)
           ids == ToSet(s.pending)
<1>1. IsDb(t) /\ t.pending = s.pending
  BY ReconnectKeeps
<1>2. t.conn /\ ~t.backoff
  <2>1. CASE s.conn
    BY <2>1
  <2>2. CASE ~s.conn
    <3>1. t = [s EXCEPT !.conn = dbUp, !.backoff = ~dbUp]
      BY <2>2 DEF Reconnect
    <3> HIDE DEF t
    <3> QED
      BY <3>1 DEF IsDb
  <2> QED
    BY <2>1, <2>2
<1>3. FlushDb(s, "fine", published) =
        IF s.pending = <<>> THEN s
        ELSE IF Poisoned(t, published)
               THEN [t EXCEPT !.pending = <<>>, !.discarded = @ \cup ids]
        ELSE [t EXCEPT !.pending = <<>>, !.stored = Insert(@, ids)]
  BY <1>2 DEF FlushDb
<1> HIDE DEF t
<1>4. CASE s.pending = <<>>
  BY <1>3, <1>4
<1>5. CASE s.pending # <<>> /\ Poisoned(t, published)
  <2>1. FlushDb(s, "fine", published) = [t EXCEPT !.pending = <<>>, !.discarded = @ \cup ids]
    BY <1>3, <1>5
  <2> QED
    BY <1>1, <1>2, <2>1 DEF IsDb
<1>6. CASE s.pending # <<>> /\ ~Poisoned(t, published)
  <2>1. FlushDb(s, "fine", published) = [t EXCEPT !.pending = <<>>, !.stored = Insert(@, ids)]
    BY <1>3, <1>6
  <2> QED
    BY <1>1, <1>2, <2>1 DEF IsDb
<1> QED
  BY <1>4, <1>5, <1>6

LEMMA CleanStopStep ==
  ASSUME FlowAssumption, FlowInv, Stop, dbUp, ~backoff, mishaps' = mishaps + 1
  PROVE  gone' = gone /\ crashed' = crashed
<1>1. PICK flows \in Expired(DOMAIN live), outcome \in Outcomes, last \in Outcomes :
     \E refused \in SUBSET ((Len(records) + 1)..(Len(records) + Len(flows))) :
       LET u == Closed(Written(flows, outcome), last, records \o flows)
       IN  /\ gone' = gone \cup ToSet(u.pending)
           /\ mishaps' = mishaps + 1 + Cardinality(refused)
                           + Cardinality({n \in 1..2 : <<outcome, last>>[n] # "fine"})
  BY DEF Stop
<1> DEFINE s == Buffered(flows)
           t == Written(flows, outcome)
           u == Closed(t, last, records \o flows)
           bad == {n \in 1..2 : <<outcome, last>>[n] # "fine"}
           m == Len(records) + Len(flows)
<1>2. PICK refused \in SUBSET ((Len(records) + 1)..m) :
        /\ gone' = gone \cup ToSet(u.pending)
        /\ mishaps' = mishaps + 1 + Cardinality(refused) + Cardinality(bad)
  BY <1>1
<1>3. /\ FlowTypeOK /\ BaseInv /\ MemoryInv /\ StoreInv /\ records \in Seq(AnyFlow)
      /\ MemoryOK(topic, live, records, first, start, pos)
  BY InvTypes DEF FlowInv, MemoryInv, BaseInv
<1>4. flows \in Seq(AnyFlow)
  <2>1. Split(live, DOMAIN live, flows)
    BY <1>3, ExpiredSplits
  <2> QED
    BY <1>3, <2>1, FlowsAreRecords
<1>5. m \in Nat /\ Len(records) \in Nat /\ mishaps \in Nat
  BY <1>3, <1>4 DEF StoreInv
<1>6. Cardinality(refused) \in Nat
  <2> DEFINE a == Len(records) + 1
  <2>1. a \in Int /\ m \in Int /\ refused \in SUBSET (a..m)
    BY <1>5
  <2> HIDE DEF a, m
  <2> QED
    BY <2>1, RefusedIsFinite
<1>7. IsFiniteSet(bad) /\ Cardinality(bad) \in Nat
  <2>1. bad \subseteq 1..2
    OBVIOUS
  <2>2. IsFiniteSet(1..2)
    BY 1 \in Int, 2 \in Int, FS_Interval
  <2> HIDE DEF bad
  <2> QED
    BY <2>1, <2>2, FS_Subset, FS_CardinalityType
<1>8. outcome = "fine" /\ last = "fine"
  <2> DEFINE a == Cardinality(refused)
             b == Cardinality(bad)
  <2>1. a \in Nat /\ b \in Nat /\ mishaps + 1 = mishaps + 1 + a + b
    BY <1>2, <1>6, <1>7
  <2> HIDE DEF a, b
  <2>2. b = 0
    BY <1>5, <2>1
  <2>3. bad = {}
    <3> HIDE DEF bad
    <3> QED
      BY <1>7, <2>2, FS_EmptySet DEF b
  <2>4. \A n \in 1..2 : <<outcome, last>>[n] = "fine"
    BY <2>3
  <2> QED
    BY <2>4
<1>9. IsDb(s) /\ DbOK(s, m) /\ ~s.backoff
  <2>1. IsDb(s) /\ DbOK(s, m)
    BY <1>3, <1>4, BufferedKeeps DEF StoreInv
  <2>2. s.backoff = backoff
    BY DEF Buffered, DbState
  <2> QED
    BY <2>1, <2>2
<1>10. IsDb(t) /\ DbOK(t, m) /\ ~t.backoff
  <2>1. IsDb(t) /\ DbOK(t, m)
    <3>1. dbUp \in BOOLEAN /\ DbOK(DbState, Len(records)) /\ WithinBound(DbState)
      BY <1>3 DEF FlowTypeOK, StoreInv
    <3> QED
      BY <1>3, <1>4, <3>1, WrittenKeeps
  <2>2. t = s \/ t = FlushDb(s, "fine", records \o flows)
    BY <1>8 DEF Written
  <2> HIDE DEF t, s, m
  <2> QED
    BY <1>5, <1>9, <2>1, <2>2, FineFlush
<1>11. u.pending = <<>>
  <2>1. u = FlushDb(t, "fine", records \o flows)
    BY <1>8 DEF Closed
  <2> HIDE DEF t, m, u
  <2> QED
    BY <1>5, <1>10, <2>1, FineFlush
<1>12. gone' = gone
  <2>1. ToSet(<<>>) = {}
    BY DEF ToSet
  <2> QED
    BY <1>2, <1>11, <2>1
<1> QED
  BY <1>12 DEF Stop

-----------------------------------------------------------------------------

(* The state half of FlowAggregatorOK: each packet the process has read is *)
(* in exactly one flow, what is committed is accounted for, each flow is   *)
(* in the table once, in the buffer or given up, the oldest first; its     *)
(* client does not depend on which side spoke first, and it is closed only *)
(* after a handshake and two FINs.                                         *)
THEOREM FlowsAccounted == FlowAssumption => (FlowSpec => [](FlowTypeOK /\ FlowSafety))
<1> SUFFICES ASSUME FlowAssumption PROVE FlowSpec => [](FlowTypeOK /\ FlowSafety)
  OBVIOUS
<1>1. FlowInv => FlowTypeOK /\ FlowSafety
  BY InvTypes, EachInOne, CommittedIsAccounted, FatesAndRows, DirectionHolds, ClosedHolds
     DEF FlowSafety
<1> QED
  BY <1>1, FlowInvariant, PTL

(* A packet whose flow was published and whose offset was committed enters *)
(* no flow again, over any number of crashes, ends and restarts.           *)
THEOREM NeverCountedAgain == FlowAssumption => (FlowSpec => NotCountedAgain)
<1> SUFFICES ASSUME FlowAssumption PROVE FlowSpec => NotCountedAgain
  OBVIOUS
<1>1. FlowInv /\ [FlowNext]_flowVars
        => [\A o \in IpOffsets :
              o <= committed /\ ~InLive(o)
                => ~\E c \in DOMAIN live' : o \in live'[c].packets]_flowVars
  BY NotCountedStep
<1> QED
  BY <1>1, FlowInvariant, PTL DEF FlowSpec, NotCountedAgain

(* SIGTERM with the database reachable and nothing failing on the way out  *)
(* loses no flow, whatever was live or buffered.                           *)
THEOREM CleanStopKeepsAll == FlowAssumption => (FlowSpec => CleanStopLosesNothing)
<1> SUFFICES ASSUME FlowAssumption PROVE FlowSpec => CleanStopLosesNothing
  OBVIOUS
<1>1. FlowInv /\ [FlowNext]_flowVars
        => [Stop /\ dbUp /\ ~backoff /\ mishaps' = mishaps + 1
              => gone' = gone /\ crashed' = crashed]_flowVars
  BY CleanStopStep
<1> QED
  BY <1>1, FlowInvariant, PTL DEF FlowSpec, CleanStopLosesNothing

(* Together: all that the run of this service checks, but for liveness.    *)
THEOREM FlowAggregatorCorrect == FlowAssumption => (FlowSpec => FlowAggregatorOK)
BY FlowsAccounted, NeverCountedAgain, CleanStopKeepsAll DEF FlowAggregatorOK

=============================================================================
