------------------------- MODULE AlertManagerProofs -------------------------
(***************************************************************************)
(* What holds of AlertManager for every set of alerts, every size of the   *)
(* retry buffer and any number of outages, faults and crashes: no          *)
(* published alert disappears silently, the buffer keeps the order of      *)
(* publication, and a deduplication window lets one alert through.         *)
(*                                                                         *)
(* None of the three is inductive.  They rest on how rows get their id:    *)
(* a new one is larger than every id given so far (IdsGrow).  What is      *)
(* buffered or given up was published (RowsPublished), and how often a key *)
(* was published depends on whether its window is open (WindowCount).      *)
(*                                                                         *)
(* The last part is about the severity of what it publishes, Suppression.  *)
(***************************************************************************)
EXTENDS AlertManager, Suppression, SequenceTheorems, FiniteSetTheorems, TLAPS

Fresh(r) == r[2] > 0

(* A sequence of rows in the order of their ids. *)
Ordered(q) ==
  \A j, k \in DOMAIN q :
    j < k /\ Fresh(q[j]) /\ Fresh(q[k]) => q[j][2] < q[k][2]

(* What S gave up is older than what q holds. *)
Older(S, q) == \A r \in S, s \in Range(q) : Fresh(r) /\ Fresh(s) => r[2] < s[2]

(* Ids are given in the order of publication. *)
IdsGrow == IsFiniteSet(published) /\ \A r \in published : r[2] <= Cardinality(published)

(* Only what was published is buffered or given up. *)
RowsPublished == Range(pending) \subseteq published /\ lost \subseteq published

(* The publications of k that can be told apart. *)
Publications(k) ==
  {r \in published : DedupKey[r[1]] = k /\ r[1] \notin Test \union WithId}

(* While the window of k is closed, as many were published as have ended;  *)
(* one more while it is open.                                              *)
WindowCount ==
  /\ ended \in [Key -> Nat]
  /\ \A k \in Key :
       Cardinality(Publications(k)) <= ended[k] + (IF k \in dedup THEN 1 ELSE 0)

AlertInv ==
  /\ AlertManagerTypeOK /\ IdsGrow /\ RowsPublished
  /\ NoSilentLoss /\ BufferInOrder /\ WindowCount
-----------------------------------------------------------------------------
(* A flush keeps the buffer or empties it; rows that leave it are stored,  *)
(* or discarded for being defective.                                       *)
LEMMA FlushFacts ==
  ASSUME NEW b \in Seq(Rows), backoff \in BOOLEAN, Flush(b)
  PROVE  /\ pending' = b \/ pending' = <<>>
         /\ backoff' \in BOOLEAN
         /\ db \subseteq db' /\ db' \subseteq db \union Range(b)
         /\ discarded \subseteq discarded' /\ discarded' \subseteq discarded \union Range(b)
         /\ \A r \in Range(b) :
              r \in db' \/ r \in Range(pending') \/ (r \in discarded' /\ r[1] \in Defective)
<1>1. CASE pending' = b /\ UNCHANGED <<backoff, db, discarded>>
  BY <1>1
<1>2. CASE InsertAll(b)
  BY <1>2 DEF InsertAll
<1>3. CASE AnswerLost(b)
  BY <1>3 DEF AnswerLost, KeepAll
<1>4. CASE Refused(b)
  BY <1>4 DEF Refused, KeepAll
<1>5. CASE Rowwise(b)
  BY <1>5 DEF Rowwise, Storable
<1>6. CASE RowwiseStops(b)
  <2>1. PICK k \in DOMAIN b : db' = db \union Storable(SubSeq(b, 1, k - 1))
    BY <1>6 DEF RowwiseStops
  <2>2. DOMAIN b = 1..Len(b) /\ Len(b) \in Nat
    BY LenProperties
  <2>3. \A i \in 1..(k - 1) : b[i] \in Rows
    BY <2>2, ElementOfSeq
  <2>4. /\ SubSeq(b, 1, k - 1) \in Seq(Rows)
        /\ Len(SubSeq(b, 1, k - 1)) = k - 1
        /\ \A i \in 1..(k - 1) : SubSeq(b, 1, k - 1)[i] = b[i]
    <3>1. k \in Nat /\ k >= 1
      BY <2>2
    <3> QED
      BY <2>2, <2>3, <3>1, SubSeqProperties
  <2>5. Range(SubSeq(b, 1, k - 1)) \subseteq Range(b)
    <3>1. DOMAIN SubSeq(b, 1, k - 1) = 1..(k - 1)
      BY <2>4, LenProperties
    <3>2. 1..(k - 1) \subseteq DOMAIN b
      BY <2>2
    <3> QED
      BY <2>4, <3>1, <3>2 DEF Range
  <2>6. Storable(SubSeq(b, 1, k - 1)) \subseteq Range(b)
    BY <2>5 DEF Storable
  <2>7. pending' = b /\ backoff' = TRUE /\ UNCHANGED discarded
    BY <1>6 DEF RowwiseStops, KeepAll
  <2> QED
    BY <2>1, <2>6, <2>7
<1> QED
  BY <1>1, <1>2, <1>3, <1>4, <1>5, <1>6 DEF Flush

(* The buffer that a write flushes: the new row is its last, and what is   *)
(* dropped at the limit was its head.                                      *)
LEMMA WriteFacts ==
  ASSUME NEW r \in Rows, pending \in Seq(Rows), Len(pending) <= MaxPending, Write(r)
  PROVE  \E n \in {0, 1}, b \in Seq(Rows) :
           /\ n <= Len(pending)
           /\ Len(b) = Len(pending) + 1 - n /\ Len(b) <= MaxPending
           /\ \A j \in DOMAIN b :
                b[j] = IF j + n = Len(pending) + 1 THEN r ELSE pending[j + n]
           /\ Flush(b)
           /\ lost' = lost \union (IF n = 1 THEN {pending[1]} ELSE {})
<1> DEFINE c == Append(pending, r)
           n == IF Len(c) > MaxPending THEN Len(c) - MaxPending ELSE 0
           b == SubSeq(c, n + 1, Len(c))
<1>1. /\ c \in Seq(Rows) /\ Len(c) = Len(pending) + 1 /\ Len(pending) \in Nat
      /\ \A i \in 1..Len(pending) : c[i] = pending[i]
      /\ c[Len(pending) + 1] = r
  BY AppendProperties, LenProperties
<1>2. Flush(b) /\ lost' = lost \union Range(SubSeq(c, 1, n))
  BY DEF Write
<1> HIDE DEF c
<1>3. MaxPending \in Nat \ {0}
  BY AlertManagerAssumption
<1>4. n \in {0, 1} /\ n <= Len(pending) /\ Len(pending) + 1 - n <= MaxPending
  BY <1>1, <1>3
<1> HIDE DEF n
<1>5. \A i \in 1..Len(c) : c[i] \in Rows
  BY <1>1, ElementOfSeq
<1>6. /\ b \in Seq(Rows) /\ Len(b) = Len(pending) + 1 - n
      /\ \A i \in 1..Len(b) : b[i] = c[i + n]
  <2>1. /\ SubSeq(c, n + 1, Len(c)) \in Seq(Rows)
        /\ Len(SubSeq(c, n + 1, Len(c))) =
             IF n + 1 <= Len(c) THEN Len(c) - (n + 1) + 1 ELSE 0
        /\ \A i \in 1..(Len(c) - (n + 1) + 1) : SubSeq(c, n + 1, Len(c))[i] = c[(n + 1) + i - 1]
    <3>1. n + 1 \in Int /\ Len(c) \in Int
      BY <1>1, <1>4
    <3>2. \A i \in (n + 1)..Len(c) : c[i] \in Rows
      BY <1>1, <1>4, <1>5
    <3> HIDE DEF b
    <3> QED
      BY <3>1, <3>2, SubSeqProperties
  <2> QED
    BY <1>1, <1>4, <2>1
<1>7. Range(SubSeq(c, 1, n)) = IF n = 1 THEN {pending[1]} ELSE {}
  <2>1. CASE n = 0
    <3>1. SubSeq(c, 1, 0) = <<>>
      BY SubSeqEmpty
    <3> QED
      BY <2>1, <3>1 DEF Range
  <2>2. CASE n = 1
    <3>1. c[1] = pending[1] /\ 1 \in 1..Len(c)
      BY <1>1, <1>4, <2>2
    <3>2. /\ SubSeq(c, 1, 1) \in Seq(Rows)
          /\ Len(SubSeq(c, 1, 1)) = 1
          /\ SubSeq(c, 1, 1)[1] = c[1]
      <4>1. \A i \in 1..1 : c[i] \in Rows
        BY <1>5, <3>1
      <4>2. /\ SubSeq(c, 1, 1) \in Seq(Rows)
            /\ Len(SubSeq(c, 1, 1)) = IF 1 <= 1 THEN 1 - 1 + 1 ELSE 0
            /\ \A i \in 1..(1 - 1 + 1) : SubSeq(c, 1, 1)[i] = c[1 + i - 1]
        BY <4>1, SubSeqProperties
      <4> QED
        BY <4>2
    <3>3. DOMAIN SubSeq(c, 1, 1) = {1}
      BY <3>2, LenProperties
    <3> QED
      BY <2>2, <3>1, <3>2, <3>3 DEF Range
  <2> QED
    BY <1>4, <2>1, <2>2
<1> HIDE DEF b
<1>8. \A j \in DOMAIN b : b[j] = IF j + n = Len(pending) + 1 THEN r ELSE pending[j + n]
  <2>1. DOMAIN b = 1..Len(b)
    BY <1>6, LenProperties
  <2> QED
    BY <1>1, <1>4, <1>6, <2>1
<1> QED
  BY <1>2, <1>4, <1>6, <1>7, <1>8
-----------------------------------------------------------------------------
(* BufferInOrder in the words used here. *)
LEMMA InOrderMeans == BufferInOrder <=> Ordered(pending) /\ Older(lost, pending)
  BY DEF BufferInOrder, Ordered, Older, Fresh

LEMMA InOrderMeansNext == BufferInOrder' <=> (Ordered(pending) /\ Older(lost, pending))'
  BY DEF BufferInOrder, Ordered, Older, Fresh

(* The state of the writer and what is said of it. *)
WriterInv ==
  /\ pending \in Seq(Rows) /\ Len(pending) <= MaxPending /\ backoff \in BOOLEAN
  /\ db \subseteq Rows /\ discarded \subseteq Rows
  /\ lost \subseteq Rows /\ published \subseteq Rows
  /\ RowsPublished /\ NoSilentLoss /\ Ordered(pending) /\ Older(lost, pending)

(* An empty buffer is in order. *)
LEMMA EmptyBuffer ==
  /\ <<>> \in Seq(Rows) /\ Len(<<>>) <= MaxPending /\ Range(<<>>) = {}
  /\ Ordered(<<>>) /\ \A S : Older(S, <<>>)
<1>1. DOMAIN <<>> = {} /\ Range(<<>>) = {}
  BY DEF Range
<1> QED
  BY <1>1, EmptySeq, AlertManagerAssumption DEF Ordered, Older

(* A flush of the buffer b, whose rows were published and are in order,    *)
(* when every published row is accounted for by b, the table, the rows     *)
(* given up or those discarded.                                            *)
LEMMA FlushKeeps ==
  ASSUME WriterInv, NEW b \in Seq(Rows), Len(b) <= MaxPending, Flush(b),
         published' \subseteq Rows, lost' \subseteq published', Range(b) \subseteq published',
         Ordered(b), Older(lost', b),
         \A r \in published' :
           r \in db \/ r \in Range(b) \/ r \in lost'
             \/ (r \in discarded /\ r[1] \in Defective)
  PROVE  WriterInv'
<1>1. /\ pending' = b \/ pending' = <<>>
      /\ backoff' \in BOOLEAN
      /\ db \subseteq db' /\ db' \subseteq db \union Range(b)
      /\ discarded \subseteq discarded' /\ discarded' \subseteq discarded \union Range(b)
      /\ \A r \in Range(b) :
           r \in db' \/ r \in Range(pending') \/ (r \in discarded' /\ r[1] \in Defective)
  BY FlushFacts DEF WriterInv
<1>2. Range(b) \subseteq Rows
  OBVIOUS
<1>3. /\ pending' \in Seq(Rows) /\ Len(pending') <= MaxPending
      /\ Ordered(pending') /\ Older(lost', pending')
      /\ Range(pending') \subseteq published'
  BY <1>1, EmptyBuffer
<1>4. db' \subseteq Rows /\ discarded' \subseteq Rows /\ lost' \subseteq Rows
  BY <1>1, <1>2 DEF WriterInv
<1>5. RowsPublished'
  BY <1>3 DEF RowsPublished
<1>6. NoSilentLoss'
  BY <1>1 DEF NoSilentLoss
<1>7. Ordered(pending)' /\ Older(lost, pending)'
  BY <1>3 DEF Ordered, Older
<1> QED
  BY <1>1, <1>3, <1>4, <1>5, <1>6, <1>7 DEF WriterInv

(* A flush without a new row. *)
LEMMA FlushPending ==
  ASSUME WriterInv, Flush(pending), UNCHANGED <<published, lost>>
  PROVE  WriterInv'
<1>1. \A r \in published' :
        r \in db \/ r \in Range(pending) \/ r \in lost'
          \/ (r \in discarded /\ r[1] \in Defective)
  BY DEF WriterInv, NoSilentLoss
<1>2. Older(lost', pending) /\ published' \subseteq Rows /\ lost' \subseteq published'
      /\ Range(pending) \subseteq published'
  BY DEF WriterInv, RowsPublished, Older
<1>3. /\ pending \in Seq(Rows) /\ Len(pending) <= MaxPending /\ Ordered(pending)
  BY DEF WriterInv
<1> QED
  BY <1>1, <1>2, <1>3, FlushKeeps

(* A row that is new goes to the end of the buffer. *)
LEMMA WriteKeeps ==
  ASSUME WriterInv, IdsGrow, NEW r \in Rows, Write(r),
         Fresh(r) => r[2] = Cardinality(published) + 1,
         published' = published \union {r}
  PROVE  WriterInv'
<1>1. PICK n \in {0, 1}, b \in Seq(Rows) :
        /\ n <= Len(pending)
        /\ Len(b) = Len(pending) + 1 - n /\ Len(b) <= MaxPending
        /\ \A j \in DOMAIN b :
             b[j] = IF j + n = Len(pending) + 1 THEN r ELSE pending[j + n]
        /\ Flush(b)
        /\ lost' = lost \union (IF n = 1 THEN {pending[1]} ELSE {})
  BY WriteFacts DEF WriterInv
<1>2. /\ DOMAIN b = 1..Len(b) /\ DOMAIN pending = 1..Len(pending)
      /\ Len(b) \in Nat /\ Len(pending) \in Nat
  BY LenProperties DEF WriterInv
<1>3. Range(b) \subseteq Range(pending) \union {r}
  <2> SUFFICES ASSUME NEW j \in DOMAIN b
               PROVE  b[j] \in Range(pending) \union {r}
    BY DEF Range
  <2>1. CASE j + n = Len(pending) + 1
    BY <1>1, <2>1
  <2>2. CASE j + n # Len(pending) + 1
    <3>1. j + n \in DOMAIN pending
      BY <1>1, <1>2, <2>2
    <3> QED
      BY <1>1, <2>2, <3>1 DEF Range
  <2> QED
    BY <2>1, <2>2
<1>4. lost' \subseteq lost \union Range(pending)
  <2>1. n = 1 => 1 \in DOMAIN pending
    BY <1>1, <1>2
  <2> QED
    BY <1>1, <2>1 DEF Range
<1>5. Range(pending) \union {r} \subseteq Range(b) \union lost'
  <2>1. r \in Range(b)
    <3>1. Len(b) \in DOMAIN b /\ Len(b) + n = Len(pending) + 1
      BY <1>1, <1>2
    <3>2. b[Len(b)] = r
      BY <1>1, <3>1
    <3> QED
      BY <3>1, <3>2 DEF Range
  <2>2. ASSUME NEW i \in DOMAIN pending
        PROVE  pending[i] \in Range(b) \union lost'
    <3>1. CASE i <= n
      <4>1. n = 1 /\ i = 1
        BY <1>1, <1>2, <3>1
      <4> QED
        BY <1>1, <4>1
    <3>2. CASE i > n
      <4>1. i - n \in DOMAIN b /\ (i - n) + n = i /\ i # Len(pending) + 1
        BY <1>1, <1>2, <3>2
      <4>2. b[i - n] = pending[i]
        BY <1>1, <4>1
      <4> QED
        BY <4>1, <4>2 DEF Range
    <3> QED
      BY <1>1, <1>2, <3>1, <3>2
  <2> QED
    BY <2>1, <2>2 DEF Range
<1>6. published \subseteq Rows /\ Cardinality(published) \in Nat
      /\ \A s \in published : s[2] \in Nat /\ s[2] <= Cardinality(published)
  <2>1. Cardinality(published) \in Nat
    BY FS_CardinalityType DEF IdsGrow
  <2> QED
    BY <2>1 DEF IdsGrow, WriterInv, Rows
<1>7. \A s \in published : Fresh(r) => s[2] < r[2]
  BY <1>6 DEF Fresh
<1>8. \A i \in DOMAIN pending : pending[i] \in published /\ pending[i] \in Range(pending)
  BY DEF WriterInv, RowsPublished, Range
<1>9. Ordered(b)
  <2> SUFFICES ASSUME NEW j \in DOMAIN b, NEW k \in DOMAIN b, j < k,
                      Fresh(b[j]), Fresh(b[k])
               PROVE  b[j][2] < b[k][2]
    BY DEF Ordered
  <2>1. j + n \in DOMAIN pending /\ b[j] = pending[j + n]
    BY <1>1, <1>2
  <2>2. CASE k + n = Len(pending) + 1
    <3>1. b[k] = r
      BY <1>1, <2>2
    <3> QED
      BY <1>7, <1>8, <2>1, <3>1
  <2>3. CASE k + n # Len(pending) + 1
    <3>1. k + n \in DOMAIN pending /\ b[k] = pending[k + n] /\ j + n < k + n
      BY <1>1, <1>2, <2>3
    <3> QED
      BY <2>1, <3>1 DEF Ordered, WriterInv
  <2> QED
    BY <2>2, <2>3
<1>10. Older(lost', b)
  <2> SUFFICES ASSUME NEW s \in lost', NEW k \in DOMAIN b, Fresh(s), Fresh(b[k])
               PROVE  s[2] < b[k][2]
    BY DEF Older, Range
  <2>1. CASE k + n = Len(pending) + 1
    <3>1. b[k] = r
      BY <1>1, <2>1
    <3>2. s \in published
      BY <1>4 DEF WriterInv, RowsPublished
    <3> QED
      BY <1>7, <3>1, <3>2
  <2>2. CASE k + n # Len(pending) + 1
    <3>1. k + n \in DOMAIN pending /\ b[k] = pending[k + n]
      BY <1>1, <1>2, <2>2
    <3>2. CASE s \in lost
      BY <1>8, <3>1, <3>2 DEF Older, WriterInv
    <3>3. CASE s \notin lost
      <4>1. n = 1 /\ s = pending[1]
        BY <1>1, <3>3
      <4>2. 1 \in DOMAIN pending /\ 1 < k + n
        BY <1>1, <1>2, <4>1
      <4> QED
        BY <3>1, <4>1, <4>2 DEF Ordered, WriterInv
    <3> QED
      BY <3>2, <3>3
  <2> QED
    BY <2>1, <2>2
<1>11. /\ published' \subseteq Rows /\ lost' \subseteq published'
       /\ Range(b) \subseteq published'
  BY <1>3, <1>4 DEF WriterInv, RowsPublished
<1>12. \A s \in published' :
         s \in db \/ s \in Range(b) \/ s \in lost'
           \/ (s \in discarded /\ s[1] \in Defective)
  <2>1. lost \subseteq lost'
    BY <1>1
  <2> QED
    BY <1>5, <2>1 DEF WriterInv, NoSilentLoss
<1> QED
  BY <1>1, <1>9, <1>10, <1>11, <1>12, FlushKeeps
-----------------------------------------------------------------------------
(* Ids and windows. *)

(* A row of an alert without an id of its own gets the next one. *)
LEMMA RowFacts ==
  ASSUME IdsGrow, NEW a \in Alert
  PROVE  /\ RowOf(a) \in Rows /\ RowOf(a)[1] = a
         /\ Fresh(RowOf(a)) => RowOf(a)[2] = Cardinality(published) + 1
         /\ a \notin WithId => RowOf(a) \notin published
<1>1. Cardinality(published) \in Nat
  BY FS_CardinalityType DEF IdsGrow
<1>2. RowOf(a)[2] \in Nat /\ RowOf(a)[1] = a
      /\ RowOf(a)[2] = IF a \in WithId THEN 0 ELSE Cardinality(published) + 1
  BY <1>1 DEF RowOf
<1>3. RowOf(a) \in Rows
  BY <1>1 DEF RowOf, Rows
<1>4. a \notin WithId => RowOf(a) \notin published
  BY <1>1, <1>2 DEF IdsGrow
<1> QED
  BY <1>2, <1>3, <1>4 DEF Fresh

LEMMA IdsGrowPublish ==
  ASSUME IdsGrow, published \subseteq Rows, NEW a \in Alert,
         published' = published \union {RowOf(a)}
  PROVE  IdsGrow'
<1>1. Cardinality(published) \in Nat /\ IsFiniteSet(published)
  BY FS_CardinalityType DEF IdsGrow
<1>2. /\ IsFiniteSet(published')
      /\ Cardinality(published') =
           IF RowOf(a) \in published THEN Cardinality(published) ELSE Cardinality(published) + 1
  BY <1>1, FS_AddElement
<1>3. \A r \in published : r[2] \in Nat /\ r[2] <= Cardinality(published)
  BY DEF IdsGrow, Rows
<1>4. RowOf(a)[2] = 0 \/ (RowOf(a)[2] = Cardinality(published) + 1 /\ RowOf(a) \notin published)
  BY RowFacts DEF RowOf
<1>5. \A r \in published' : r[2] <= Cardinality(published')
  BY <1>1, <1>2, <1>3, <1>4
<1> QED
  BY <1>2, <1>5 DEF IdsGrow

(* The publications of a key are finitely many. *)
LEMMA CountType ==
  ASSUME IsFiniteSet(published), NEW k
  PROVE  IsFiniteSet(Publications(k)) /\ Cardinality(Publications(k)) \in Nat
<1>1. Publications(k) \in SUBSET published
  BY DEF Publications
<1> QED
  BY <1>1, FS_Subset, FS_CardinalityType

(* Without a publication a window may open, and nothing else changes. *)
LEMMA CountKept ==
  ASSUME WindowCount, IsFiniteSet(published), UNCHANGED <<published, ended>>,
         dedup \subseteq dedup'
  PROVE  WindowCount'
<1>1. ended' \in [Key -> Nat]
  BY DEF WindowCount
<1>2. ASSUME NEW k \in Key
      PROVE  Cardinality(Publications(k)') <= ended'[k] + (IF k \in dedup' THEN 1 ELSE 0)
  <2>1. Publications(k)' = Publications(k)
    BY DEF Publications
  <2>2. Cardinality(Publications(k)) <= ended[k] + (IF k \in dedup THEN 1 ELSE 0)
        /\ ended[k] \in Nat
    BY DEF WindowCount
  <2>3. Cardinality(Publications(k)) \in Nat
    BY CountType
  <2> QED
    BY <2>1, <2>2, <2>3
<1> QED
  BY <1>1, <1>2 DEF WindowCount

(* A publication that counts opens the window of its key, which was closed. *)
LEMMA CountPublished ==
  ASSUME WindowCount, IdsGrow, NEW a \in Alert, ~Duplicate(a),
         dedup' = Registered(a), published' = published \union {RowOf(a)},
         UNCHANGED ended
  PROVE  WindowCount'
<1>1. ended' \in [Key -> Nat]
  BY DEF WindowCount
<1>2. IsFiniteSet(published)
  BY DEF IdsGrow
<1>3. ASSUME NEW k \in Key
      PROVE  Cardinality(Publications(k)') <= ended'[k] + (IF k \in dedup' THEN 1 ELSE 0)
  <2>1. Cardinality(Publications(k)) <= ended[k] + (IF k \in dedup THEN 1 ELSE 0)
        /\ ended[k] \in Nat
    BY DEF WindowCount
  <2>2. IsFiniteSet(Publications(k)) /\ Cardinality(Publications(k)) \in Nat
    BY <1>2, CountType
  <2>3. k \in dedup => k \in dedup'
    BY DEF Registered
  <2>4. RowOf(a)[1] = a
    BY RowFacts
  <2>5. CASE a \notin Test \union WithId /\ DedupKey[a] = k
    <3>1. Publications(k)' = Publications(k) \union {RowOf(a)}
      BY <2>4, <2>5 DEF Publications
    <3>2. Cardinality(Publications(k) \union {RowOf(a)}) =
            IF RowOf(a) \in Publications(k) THEN Cardinality(Publications(k))
            ELSE Cardinality(Publications(k)) + 1
      BY <2>2, FS_AddElement
    <3>3. k \notin dedup /\ k \in dedup'
      BY <2>5 DEF Duplicate, Registered
    <3> QED
      BY <2>1, <2>2, <3>1, <3>2, <3>3
  <2>6. CASE ~(a \notin Test \union WithId /\ DedupKey[a] = k)
    <3>1. Publications(k)' = Publications(k)
      BY <2>4, <2>6 DEF Publications
    <3> QED
      BY <2>1, <2>2, <2>3, <3>1
  <2> QED
    BY <2>5, <2>6
<1> QED
  BY <1>1, <1>3 DEF WindowCount

(* A window that closes is counted. *)
LEMMA CountClosed ==
  ASSUME WindowCount, IsFiniteSet(published), NEW C \in SUBSET dedup,
         UNCHANGED published, dedup' = dedup \ C,
         ended' = [k \in Key |-> IF k \in C THEN ended[k] + 1 ELSE ended[k]]
  PROVE  WindowCount'
<1>1. ended' \in [Key -> Nat]
  BY DEF WindowCount
<1>2. ASSUME NEW k \in Key
      PROVE  Cardinality(Publications(k)') <= ended'[k] + (IF k \in dedup' THEN 1 ELSE 0)
  <2>1. Publications(k)' = Publications(k)
    BY DEF Publications
  <2>2. Cardinality(Publications(k)) <= ended[k] + (IF k \in dedup THEN 1 ELSE 0)
        /\ ended[k] \in Nat
    BY DEF WindowCount
  <2>3. Cardinality(Publications(k)) \in Nat
    BY <1>2, CountType
  <2>4. ended'[k] = IF k \in C THEN ended[k] + 1 ELSE ended[k]
    OBVIOUS
  <2> QED
    BY <2>1, <2>2, <2>3, <2>4
<1> QED
  BY <1>1, <1>2 DEF WindowCount
-----------------------------------------------------------------------------
(* What the consumer and the deduplication keep. *)
LoopTypeOK ==
  /\ topic \in Seq(Alert) /\ committed \in 0..Len(topic)
  /\ pos \in committed..Len(topic)
  /\ dedup \subseteq Key
  /\ dbUp \in BOOLEAN /\ running \in BOOLEAN

(* The inductive invariant, sorted by who changes what. *)
SplitInv == LoopTypeOK /\ WriterInv /\ IdsGrow /\ WindowCount

LEMMA SplitMeans == SplitInv <=> AlertInv
  BY InOrderMeans DEF SplitInv, AlertInv, LoopTypeOK, WriterInv, AlertManagerTypeOK, RowsPublished

LEMMA SplitInit == Init => SplitInv
<1> SUFFICES ASSUME Init PROVE SplitInv
  OBVIOUS
<1>1. LoopTypeOK
  BY EmptySeq DEF Init, LoopTypeOK
<1>2. WriterInv
  BY EmptyBuffer DEF Init, WriterInv, RowsPublished, NoSilentLoss
<1>3. IdsGrow
  BY FS_EmptySet DEF Init, IdsGrow
<1>4. WindowCount
  <2>1. \A k : Publications(k) = {}
    BY DEF Init, Publications
  <2>2. \A k : Cardinality(Publications(k)) = 0
    BY <2>1, FS_EmptySet
  <2>3. \A k \in Key : ended[k] = 0 /\ ended \in [Key -> Nat] /\ k \notin dedup
    BY DEF Init
  <2>4. ended \in [Key -> Nat]
    BY DEF Init
  <2> QED
    BY <2>2, <2>3, <2>4 DEF WindowCount
<1> QED
  BY <1>1, <1>2, <1>3, <1>4 DEF SplitInv

(* The record the loop has polled is an alert. *)
LEMMA PolledFacts ==
  ASSUME LoopTypeOK, Polled, UNCHANGED <<topic, committed, dbUp, running>>
  PROVE  Next1 \in Alert /\ (dedup' \subseteq Key => LoopTypeOK')
<1>1. Len(topic) \in Nat /\ committed \in Nat /\ pos \in Nat
  BY LenProperties DEF LoopTypeOK
<1>2. pos + 1 \in 1..Len(topic) /\ pos' = pos + 1
  BY <1>1 DEF Polled, LoopTypeOK
<1>3. Next1 \in Alert
  BY <1>2, ElementOfSeq DEF Next1, LoopTypeOK
<1> QED
  BY <1>1, <1>2, <1>3 DEF LoopTypeOK

LEMMA RegisteredFacts ==
  ASSUME dedup \subseteq Key, NEW a \in Alert
  PROVE  dedup \subseteq Registered(a) /\ Registered(a) \subseteq Key
  BY DEF Registered, Key

(* A step that leaves the writer and what was published alone. *)
LEMMA WriterUntouched ==
  ASSUME WriterInv, UNCHANGED <<writer, published, lost>>
  PROVE  WriterInv'
  BY DEF WriterInv, writer, RowsPublished, NoSilentLoss, Ordered, Older

LEMMA IdsUntouched == ASSUME IdsGrow, UNCHANGED published PROVE IdsGrow'
  BY DEF IdsGrow
-----------------------------------------------------------------------------
(* Every step keeps the inductive invariant. *)
LEMMA SplitStep == SplitInv /\ [Next]_vars => SplitInv'
<1> SUFFICES ASSUME SplitInv, [Next]_vars PROVE SplitInv'
  OBVIOUS
<1> USE DEF SplitInv
<1>1. IsFiniteSet(published) /\ dedup \subseteq Key
  BY DEF IdsGrow, LoopTypeOK
<1>2. CASE Filter
  <2>1. LoopTypeOK'
    BY <1>1, <1>2, PolledFacts DEF Filter
  <2> QED
    BY <1>1, <1>2, <2>1, WriterUntouched, IdsUntouched, CountKept DEF Filter
<1>3. CASE Suppress
  <2>1. LoopTypeOK'
    BY <1>1, <1>3, PolledFacts DEF Suppress
  <2> QED
    BY <1>1, <1>3, <2>1, WriterUntouched, IdsUntouched, CountKept DEF Suppress
<1>4. CASE Skip
  <2>1. Next1 \in Alert
    BY <1>4, PolledFacts DEF Skip
  <2>2. dedup \subseteq dedup' /\ dedup' \subseteq Key
    BY <1>1, <1>4, <2>1, RegisteredFacts DEF Skip
  <2>3. LoopTypeOK'
    BY <1>4, <2>2, PolledFacts DEF Skip
  <2> QED
    BY <1>1, <1>4, <2>2, <2>3, WriterUntouched, IdsUntouched, CountKept DEF Skip
<1>5. CASE Forward
  <2>1. Next1 \in Alert
    BY <1>5, PolledFacts DEF Forward
  <2>2. dedup' \subseteq Key
    BY <1>1, <1>5, <2>1, RegisteredFacts DEF Forward
  <2>3. LoopTypeOK'
    BY <1>5, <2>2, PolledFacts DEF Forward
  <2>4. /\ RowOf(Next1) \in Rows
        /\ Fresh(RowOf(Next1)) => RowOf(Next1)[2] = Cardinality(published) + 1
    BY <2>1, RowFacts
  <2>5. WriterInv'
    BY <1>5, <2>4, WriteKeeps DEF Forward
  <2>6. IdsGrow'
    BY <1>5, <2>1, IdsGrowPublish DEF Forward, WriterInv
  <2>7. WindowCount'
    BY <1>5, <2>1, CountPublished DEF Forward
  <2> QED
    BY <2>3, <2>5, <2>6, <2>7
<1>6. CASE PeriodicFlush
  <2>1. LoopTypeOK'
    BY <1>6 DEF PeriodicFlush, LoopTypeOK
  <2> QED
    BY <1>1, <1>6, <2>1, FlushPending, IdsUntouched, CountKept DEF PeriodicFlush
<1>7. CASE BackoffOver
  <2>1. LoopTypeOK'
    BY <1>7 DEF BackoffOver, LoopTypeOK
  <2>2. WriterInv'
    BY <1>7 DEF BackoffOver, WriterInv, RowsPublished, NoSilentLoss, Ordered, Older
  <2> QED
    BY <1>1, <1>7, <2>1, <2>2, IdsUntouched, CountKept DEF BackoffOver
<1>8. CASE AutoCommit
  <2>1. LoopTypeOK'
    BY <1>8, LenProperties DEF AutoCommit, LoopTypeOK
  <2> QED
    BY <1>1, <1>8, <2>1, WriterUntouched, IdsUntouched, CountKept DEF AutoCommit
<1>9. ASSUME NEW k \in Key, Expire(k) PROVE SplitInv'
  <2>1. LoopTypeOK'
    BY <1>9 DEF Expire, LoopTypeOK
  <2>2. {k} \in SUBSET dedup /\ dedup' = dedup \ {k}
    BY <1>9 DEF Expire
  <2>3. ended' = [i \in Key |-> IF i \in {k} THEN ended[i] + 1 ELSE ended[i]]
    BY <1>9 DEF Expire, WindowCount
  <2>4. WindowCount'
    BY <1>1, <1>9, <2>2, <2>3, CountClosed DEF Expire
  <2> QED
    BY <1>9, <2>1, <2>4, WriterUntouched, IdsUntouched DEF Expire
<1>10. CASE Shutdown
  <2>1. LoopTypeOK'
    <3>1. Len(topic) \in Nat
      BY LenProperties DEF LoopTypeOK
    <3>2. /\ committed' = pos /\ running' = FALSE
          /\ UNCHANGED <<topic, pos, dedup, dbUp>>
      BY <1>10 DEF Shutdown
    <3>3. pos \in Nat /\ pos \in 0..Len(topic) /\ pos \in pos..Len(topic)
      BY <3>1 DEF LoopTypeOK
    <3>4. committed' \in 0..Len(topic') /\ pos' \in committed'..Len(topic')
      BY <3>2, <3>3
    <3>5. topic' \in Seq(Alert) /\ dedup' \subseteq Key /\ dbUp' \in BOOLEAN
          /\ running' \in BOOLEAN
      BY <3>2 DEF LoopTypeOK
    <3> QED
      BY <3>4, <3>5 DEF LoopTypeOK
  <2> QED
    BY <1>1, <1>10, <2>1, FlushPending, IdsUntouched, CountKept DEF Shutdown
<1>11. CASE Crash
  <2>1. LoopTypeOK'
    BY <1>11 DEF Crash, LoopTypeOK
  <2> QED
    BY <1>1, <1>11, <2>1, WriterUntouched, IdsUntouched, CountKept DEF Crash
<1>12. CASE Start
  <2>1. LoopTypeOK'
    BY <1>12, LenProperties DEF Start, LoopTypeOK
  <2>2. /\ pending' = <<>> /\ backoff' = FALSE /\ lost' = lost \union Range(pending)
        /\ UNCHANGED <<db, discarded, published>>
    BY <1>12 DEF Start
  <2>3. Range(pending) \subseteq Rows
    BY RangeOfSeq DEF WriterInv
  <2>4. WriterInv'
    <3>1. NoSilentLoss'
      BY <2>2 DEF WriterInv, NoSilentLoss
    <3>2. RowsPublished'
      BY <2>2, EmptyBuffer DEF WriterInv, RowsPublished
    <3>3. Ordered(pending)' /\ Older(lost, pending)'
      BY <2>2, EmptyBuffer DEF Ordered, Older
    <3>4. /\ pending' \in Seq(Rows) /\ Len(pending') <= MaxPending
          /\ lost' \subseteq Rows
      BY <2>2, <2>3, EmptyBuffer DEF WriterInv
    <3> QED
      BY <2>2, <3>1, <3>2, <3>3, <3>4 DEF WriterInv
  <2>5. WindowCount'
    <3>1. dedup \in SUBSET dedup /\ dedup' = dedup \ dedup
      BY <1>12 DEF Start
    <3> QED
      BY <1>1, <1>12, <3>1, CountClosed DEF Start
  <2> QED
    BY <2>1, <2>2, <2>4, <2>5, IdsUntouched
<1>13. ASSUME NEW a \in Alert, Raise(a) PROVE SplitInv'
  <2>1. topic' \in Seq(Alert) /\ Len(topic') = Len(topic) + 1 /\ Len(topic) \in Nat
    BY <1>13, AppendProperties, LenProperties DEF Raise, LoopTypeOK
  <2>2. LoopTypeOK'
    BY <1>13, <2>1 DEF Raise, LoopTypeOK
  <2> QED
    BY <1>1, <1>13, <2>2, WriterUntouched, IdsUntouched, CountKept DEF Raise
<1>14. CASE DbDown
  <2>1. LoopTypeOK'
    BY <1>14 DEF DbDown, LoopTypeOK
  <2> QED
    BY <1>1, <1>14, <2>1, WriterUntouched, IdsUntouched, CountKept DEF DbDown
<1>15. CASE DbUp
  <2>1. LoopTypeOK'
    BY <1>15 DEF DbUp, LoopTypeOK
  <2> QED
    BY <1>1, <1>15, <2>1, WriterUntouched, IdsUntouched, CountKept DEF DbUp
<1>16. CASE UNCHANGED vars
  <2>1. LoopTypeOK'
    BY <1>16 DEF vars, LoopTypeOK
  <2> QED
    BY <1>1, <1>16, <2>1, WriterUntouched, IdsUntouched, CountKept DEF vars
<1> QED
  BY <1>2, <1>3, <1>4, <1>5, <1>6, <1>7, <1>8, <1>9, <1>10, <1>11, <1>12, <1>13, <1>14,
     <1>15, <1>16 DEF Next, Process

LEMMA SplitCorrect == Spec => []SplitInv
<1>1. Init => SplitInv
  BY SplitInit
<1>2. SplitInv /\ [Next]_vars => SplitInv'
  BY SplitStep
<1> QED
  BY <1>1, <1>2, PTL DEF Spec

(* All parts of the inductive invariant hold of every instance. *)
LEMMA AlertInvCorrect == Spec => []AlertInv
<1>1. SplitInv => AlertInv
  BY SplitMeans
<1> QED
  BY <1>1, SplitCorrect, PTL
-----------------------------------------------------------------------------
(* The state of alert-manager keeps its types: the consumer never runs     *)
(* ahead of the topic nor behind what it committed, and the retry buffer   *)
(* never exceeds MAX_PENDING.                                              *)
THEOREM AlertManagerTypeCorrect == Spec => []AlertManagerTypeOK
<1>1. AlertInv => AlertManagerTypeOK
  BY DEF AlertInv
<1> QED
  BY <1>1, AlertInvCorrect, PTL

(* No alert that went out to alerts-enriched disappears silently on its    *)
(* way into the table, whatever the database and the process do.           *)
THEOREM NoSilentLossCorrect == Spec => []NoSilentLoss
<1>1. AlertInv => NoSilentLoss
  BY DEF AlertInv
<1> QED
  BY <1>1, AlertInvCorrect, PTL

(* The retry buffer keeps the order of publication, and what it gave up is *)
(* older than what it still holds.                                         *)
THEOREM BufferInOrderCorrect == Spec => []BufferInOrder
<1>1. AlertInv => BufferInOrder
  BY DEF AlertInv
<1> QED
  BY <1>1, AlertInvCorrect, PTL

(* Within one window of the deduplication a key is published once, and     *)
(* each further publication needs an expiry or a restart.                  *)
THEOREM OncePerWindowCorrect == Spec => []OncePerWindow
<1>1. AlertInv => OncePerWindow
  <2> SUFFICES ASSUME AlertInv, NEW k \in Key
               PROVE  Cardinality(Publications(k)) <= 1 + ended[k]
    BY DEF OncePerWindow, Publications
  <2>1. Cardinality(Publications(k)) <= ended[k] + (IF k \in dedup THEN 1 ELSE 0)
        /\ ended[k] \in Nat
    BY DEF AlertInv, WindowCount
  <2>2. Cardinality(Publications(k)) \in Nat
    BY CountType DEF AlertInv, IdsGrow
  <2> QED
    BY <2>1, <2>2
<1> QED
  BY <1>1, AlertInvCorrect, PTL

-----------------------------------------------------------------------------
(* The suppression of known patterns.                                      *)

(* The earlier hours with alerts of a pattern, for a given table and hour. *)
PastHours(tb, hr, p) == {h \in 1..(hr - 1) : tb[p][h] > 0}

(* The cache may be as old as it likes: what the manual layer holds was    *)
(* marked, and who has a baseline has its hours.                           *)
SuppressionInv == SuppressionTypeOK /\ manual \subseteq userFp \cup autoFp

TableType == [Patterns -> [1..MaxHour -> 0..MaxPerHour]]

(* Hours with alerts do not go away.                                       *)
LEMMA PastHoursGrow ==
  ASSUME NEW s \in TableType, NEW t \in TableType, NEW i \in Nat, NEW j \in Nat,
         NEW p \in Patterns, MaxHour \in Nat, MaxPerHour \in Nat,
         i <= j, j <= MaxHour, \A h \in 1..MaxHour : s[p][h] <= t[p][h]
  PROVE  Cardinality(PastHours(s, i, p)) <= Cardinality(PastHours(t, j, p))
         /\ Cardinality(PastHours(t, j, p)) \in Nat
<1>1. IsFiniteSet(1..(j - 1))
  BY FS_Interval
<1>2. PastHours(t, j, p) \subseteq 1..(j - 1)
  BY DEF PastHours
<1>3. \A h \in 1..(i - 1) : h \in 1..MaxHour /\ h \in 1..(j - 1) /\ s[p][h] \in Int /\ t[p][h] \in Int
  BY DEF TableType
<1>4. PastHours(s, i, p) \subseteq PastHours(t, j, p)
  BY <1>3 DEF PastHours
<1>5. IsFiniteSet(PastHours(t, j, p))
  BY <1>1, <1>2, FS_Subset
<1> QED
  BY <1>4, <1>5, FS_Subset, FS_CardinalityType

(* A baseline needs its hours.                                             *)
LEMMA BaselineHasHours ==
  ASSUME SuppressionAssumption, SuppressionInv, NEW p \in Baseline
  PROVE  p \in Patterns /\ Cardinality(PastHours(table, hour, p)) >= MinHours
<1>1. hour \in Nat /\ MinHours \in Nat /\ p \in Patterns /\ hour - 1 \in Int
  BY DEF Baseline, SuppressionInv, SuppressionTypeOK, SuppressionAssumption
<1>2. IsFiniteSet(1..(hour - 1))
  BY <1>1, FS_Interval
<1>3. LearnedHours(p) \subseteq PastHours(table, hour, p) /\ PastHours(table, hour, p) \subseteq 1..(hour - 1)
  BY DEF LearnedHours, PastHours
<1>4. IsFiniteSet(PastHours(table, hour, p))
  BY <1>2, <1>3, FS_Subset
<1>5. /\ Cardinality(LearnedHours(p)) <= Cardinality(PastHours(table, hour, p))
      /\ Cardinality(LearnedHours(p)) \in Nat /\ Cardinality(PastHours(table, hour, p)) \in Nat
  BY <1>3, <1>4, FS_Subset, FS_CardinalityType
<1>6. Cardinality(LearnedHours(p)) >= MinHours
  BY DEF Baseline
<1> QED
  BY <1>1, <1>5, <1>6

LEMMA SpikeIsBoolean == \A p : Spike(p) \in BOOLEAN
  BY Zenon DEF Spike

(* What ProcessAlert decides, by the caches in force. *)
LEMMA ClassifyMeans ==
  ASSUME NEW p, NEW m, NEW s, p \in DOMAIN s => s[p] \in BOOLEAN
  PROVE  /\ Classify(p, m, s) = "manual" => p \in m /\ (p \in DOMAIN s => ~s[p])
         /\ Classify(p, m, s) = "learned" => p \in DOMAIN s
         /\ Classify(p, m, s) \in {"manual", "learned", "none"}
         /\ p \in DOMAIN s /\ s[p] => Classify(p, m, s) = "none"
         /\ p \in aligned /\ p \in m /\ (p \in DOMAIN s => ~s[p]) => Classify(p, m, s) = "manual"
  BY DEF Classify

(* The caches in force hold what the invariant says of them.               *)
LEMMA CachesInForce ==
  ASSUME SuppressionAssumption, SuppressionInv, NEW fresh \in BOOLEAN,
         NEW m, NEW s,
         m = IF fresh THEN FreshManual ELSE manual,
         s = IF fresh THEN FreshStats ELSE stats
  PROVE  /\ m \subseteq userFp \cup autoFp /\ DOMAIN s \subseteq Patterns
         /\ \A p \in DOMAIN s :
              s[p] \in BOOLEAN /\ Cardinality(PastHours(table, hour, p)) >= MinHours
<1>1. CASE ~fresh
  BY <1>1 DEF SuppressionInv, SuppressionTypeOK, PastHours
<1>2. CASE fresh
  <2>1. m = FreshManual /\ s = FreshStats
    BY <1>2
  <2>2. DOMAIN FreshStats = Baseline \ userTp /\ \A p \in Baseline \ userTp : FreshStats[p] = Spike(p)
    BY DEF FreshStats
  <2>3. \A p \in Baseline : p \in Patterns /\ Cardinality(PastHours(table, hour, p)) >= MinHours
    BY BaselineHasHours
  <2> QED
    BY <2>1, <2>2, <2>3, SpikeIsBoolean DEF FreshManual
<1> QED
  BY <1>1, <1>2

(* Every alert keeps the invariant and the promises about decisions.       *)
ProcessPromises ==
  LET p == last'.pattern
  IN  /\ last'.fresh /\ p \in Baseline \ userTp /\ Spike(p) => ~last'.lowered
      /\ last'.fresh /\ last'.source = "signature" /\ p \in (userFp \cap aligned) \ tunable =>
           last'.lowered \/ (p \in Baseline \ userTp /\ Spike(p))
      /\ last'.fresh /\ p \in userTp => last'.kind # "learned"
      /\ last'.lowered => p \in userFp \cup autoFp
                          \/ Cardinality({h \in 1..(hour - 1) : table[p][h] > 0}) >= MinHours
      /\ ~(last'.lowered /\ p \in tunable)

LEMMA ProcessKeeps ==
  ASSUME SuppressionAssumption, SuppressionInv, NEW p \in Patterns,
         NEW source \in {"signature", "ml"}, NEW fresh \in BOOLEAN, ProcessAlert(p, source, fresh)
  PROVE  SuppressionInv' /\ ProcessPromises
<1> DEFINE m == IF fresh THEN FreshManual ELSE manual
           s == IF fresh THEN FreshStats ELSE stats
           kind == Classify(p, m, s)
<1>1. /\ table[p][hour] < MaxPerHour
      /\ manual' = m /\ stats' = s
      /\ last' = [pattern |-> p, kind |-> kind, fresh |-> fresh, source |-> source,
                  lowered |-> kind # "none" /\ Lowered(p, source)]
      /\ autoFp' = IF kind # "none" /\ p \in tunable THEN autoFp \cup {p} ELSE autoFp
      /\ table' = [table EXCEPT ![p][hour] = @ + 1]
      /\ UNCHANGED <<aligned, hour, userFp, userTp, tunable, marks>>
  BY DEF ProcessAlert
<1>2. /\ m \subseteq userFp \cup autoFp /\ DOMAIN s \subseteq Patterns
      /\ \A q \in DOMAIN s :
           s[q] \in BOOLEAN /\ Cardinality(PastHours(table, hour, q)) >= MinHours
  <2> HIDE DEF m, s
  <2> m = (IF fresh THEN FreshManual ELSE manual) /\ s = (IF fresh THEN FreshStats ELSE stats)
    BY DEF m, s
  <2> QED
    BY CachesInForce
<1>3. fresh => /\ m = userFp \cup autoFp /\ DOMAIN s = Baseline \ userTp
               /\ \A q \in Baseline \ userTp : s[q] = Spike(q)
  BY DEF FreshManual, FreshStats
<1> HIDE DEF m, s
<1>4. /\ kind = "manual" => p \in m /\ (p \in DOMAIN s => ~s[p])
      /\ kind = "learned" => p \in DOMAIN s
      /\ kind \in {"manual", "learned", "none"}
      /\ p \in DOMAIN s /\ s[p] => kind = "none"
      /\ p \in aligned /\ p \in m /\ (p \in DOMAIN s => ~s[p]) => kind = "manual"
  BY <1>2, ClassifyMeans
<1> HIDE DEF kind
<1>5. /\ table \in TableType /\ hour \in 1..MaxHour /\ MaxHour \in Nat /\ MaxPerHour \in Nat
      /\ MinHours \in Nat
  BY DEF SuppressionInv, SuppressionTypeOK, TableType, SuppressionAssumption
<1>6. /\ table' \in TableType
      /\ \A q \in Patterns : \A h \in 1..MaxHour : table[q][h] <= table'[q][h]
  <2> DEFINE old == table[p]
             new == [old EXCEPT ![hour] = old[hour] + 1]
  <2>1. old \in [1..MaxHour -> 0..MaxPerHour]
    BY <1>5 DEF TableType
  <2>2. new \in [1..MaxHour -> 0..MaxPerHour] /\ \A h \in 1..MaxHour : old[h] <= new[h]
    BY <2>1, <1>1, <1>5
  <2>3. table' = [table EXCEPT ![p] = new]
    BY <1>1
  <2> HIDE DEF new
  <2>4. table' \in TableType /\ table'[p] = new /\ \A q \in Patterns \ {p} : table'[q] = table[q]
    BY <2>2, <2>3, <1>5 DEF TableType
  <2>5. ASSUME NEW q \in Patterns, NEW h \in 1..MaxHour PROVE table[q][h] <= table'[q][h]
    <3>1. table[q][h] \in Int
      BY <1>5 DEF TableType
    <3>2. CASE q = p
      BY <3>2, <2>2, <2>4
    <3>3. CASE q # p
      BY <3>1, <3>3, <2>4
    <3> QED
      BY <3>2, <3>3
  <2> QED
    BY <2>4, <2>5
<1>7. ASSUME NEW q \in DOMAIN s PROVE Cardinality(PastHours(table', hour, q)) >= MinHours
  <2>1. /\ Cardinality(PastHours(table, hour, q)) <= Cardinality(PastHours(table', hour, q))
        /\ Cardinality(PastHours(table', hour, q)) \in Nat
    <3>1. q \in Patterns /\ hour \in Nat /\ hour <= hour /\ hour <= MaxHour
      BY <1>2, <1>5
    <3>2. \A h \in 1..MaxHour : table[q][h] <= table'[q][h]
      BY <1>6, <3>1
    <3> QED
      BY <1>5, <1>6, <3>1, <3>2, PastHoursGrow
  <2>2. Cardinality(PastHours(table, hour, q)) >= MinHours
    BY <1>2
  <2>3. Cardinality(PastHours(table, hour, q)) \in Nat
    <3>1. q \in Patterns /\ hour \in Nat /\ hour <= hour /\ hour <= MaxHour
      BY <1>2, <1>5
    <3>2. \A h \in 1..MaxHour : table[q][h] <= table[q][h]
      BY <1>5, <3>1 DEF TableType
    <3> QED
      BY <1>5, <3>1, <3>2, PastHoursGrow
  <2> QED
    BY <1>5, <2>1, <2>2, <2>3
<1>8. SuppressionInv'
  <2>1. \A q \in DOMAIN stats' : Cardinality({h \in 1..(hour' - 1) : table'[q][h] > 0}) >= MinHours
    BY <1>1, <1>7 DEF PastHours
  <2>2. \A q \in DOMAIN stats' : stats'[q] \in BOOLEAN
    BY <1>1, <1>2
  <2>3. DOMAIN stats' \subseteq Patterns
    BY <1>1, <1>2
  <2>4. userFp' \cup userTp' \cup autoFp' \cup tunable' \cup manual' \subseteq Patterns
    BY <1>1, <1>2 DEF SuppressionInv, SuppressionTypeOK
  <2>5. manual' \subseteq userFp' \cup autoFp'
    BY <1>1, <1>2
  <2>6. aligned' \subseteq Patterns /\ hour' \in 1..MaxHour /\ marks' \in 0..MaxMarks
    BY <1>1 DEF SuppressionInv, SuppressionTypeOK
  <2> QED
    BY <1>6, <2>1, <2>2, <2>3, <2>4, <2>5, <2>6 DEF SuppressionInv, SuppressionTypeOK, TableType
<1>9. /\ last'.pattern = p /\ last'.kind = kind /\ last'.fresh = fresh /\ last'.source = source
      /\ last'.lowered <=> kind # "none" /\ Lowered(p, source)
  BY <1>1
<1>10. fresh /\ p \in Baseline \ userTp /\ Spike(p) => kind = "none"
  BY <1>3, <1>4
<1>11. fresh /\ source = "signature" /\ p \in (userFp \cap aligned) \ tunable =>
         (kind # "none" /\ Lowered(p, source)) \/ (p \in Baseline \ userTp /\ Spike(p))
  BY <1>3, <1>4 DEF Lowered
<1>12. fresh /\ p \in userTp => kind # "learned"
  BY <1>3, <1>4
<1>13. kind # "none" => p \in userFp \cup autoFp \/ Cardinality(PastHours(table, hour, p)) >= MinHours
  BY <1>2, <1>4
<1>14. Lowered(p, source) => p \notin tunable
  BY DEF Lowered
<1>15. ProcessPromises
  BY <1>9, <1>10, <1>11, <1>12, <1>13, <1>14 DEF ProcessPromises, PastHours
<1> QED
  BY <1>8, <1>15

LEMMA SuppressionInitOK == ASSUME SuppressionAssumption, SuppressionInit PROVE SuppressionInv
  BY DEF SuppressionAssumption, SuppressionInit, SuppressionInv, SuppressionTypeOK

(* The other steps leave the table alone, so that they decide nothing.     *)
LEMMA OthersKeep ==
  ASSUME SuppressionAssumption, SuppressionInv,
         \/ \E p \in Patterns : Mark(p) \/ Retune(p)
         \/ NextHour \/ Restart \/ UNCHANGED suppressionVars
  PROVE  SuppressionInv' /\ ~Decides
<1>1. /\ table \in TableType /\ hour \in 1..MaxHour /\ MaxHour \in Nat /\ MaxPerHour \in Nat
      /\ MinHours \in Nat
  BY DEF SuppressionInv, SuppressionTypeOK, TableType, SuppressionAssumption
<1>2. CASE NextHour
  <2>1. ASSUME NEW q \in DOMAIN stats
        PROVE  Cardinality({h \in 1..(hour' - 1) : table'[q][h] > 0}) >= MinHours
    <3>1. q \in Patterns /\ hour \in Nat /\ hour' \in Nat /\ hour <= hour' /\ hour' <= MaxHour /\ hour <= hour
          /\ hour <= MaxHour
      BY <1>1, <1>2 DEF NextHour, SuppressionInv, SuppressionTypeOK
    <3>2. \A h \in 1..MaxHour : table[q][h] <= table[q][h]
      BY <1>1, <3>1 DEF TableType
    <3>3. /\ Cardinality(PastHours(table, hour, q)) <= Cardinality(PastHours(table, hour', q))
          /\ Cardinality(PastHours(table, hour', q)) \in Nat
      BY <1>1, <3>1, <3>2, PastHoursGrow
    <3>4. Cardinality(PastHours(table, hour, q)) \in Nat
      BY <1>1, <3>1, <3>2, PastHoursGrow
    <3>5. Cardinality(PastHours(table, hour, q)) >= MinHours
      BY DEF SuppressionInv, SuppressionTypeOK, PastHours
    <3>6. table' = table
      BY <1>2 DEF NextHour
    <3> QED
      BY <1>1, <3>3, <3>4, <3>5, <3>6 DEF PastHours
  <2>2. hour' \in 1..MaxHour
    BY <1>1, <1>2 DEF NextHour
  <2> QED
    BY <1>2, <2>1, <2>2 DEF NextHour, SuppressionInv, SuppressionTypeOK, Decides
<1>3. CASE Restart
  <2>1. DOMAIN stats' = {}
    <3>1. stats' = <<>>
      BY <1>3 DEF Restart
    <3> QED
      BY <3>1
  <2> QED
    BY <1>3, <2>1 DEF Restart, SuppressionInv, SuppressionTypeOK, Decides
<1>4. CASE \E p \in Patterns : Mark(p)
  BY <1>4 DEF Mark, SuppressionInv, SuppressionTypeOK, Decides, SuppressionAssumption
<1>5. CASE \E p \in Patterns : Retune(p)
  BY <1>5 DEF Retune, SuppressionInv, SuppressionTypeOK, Decides, SuppressionAssumption
<1>6. CASE UNCHANGED suppressionVars
  BY <1>6 DEF suppressionVars, SuppressionInv, SuppressionTypeOK, Decides
<1> QED
  BY <1>2, <1>3, <1>4, <1>5, <1>6

LEMMA SuppressionStep ==
  ASSUME SuppressionAssumption, SuppressionInv, [SuppressionNext]_suppressionVars
  PROVE  SuppressionInv' /\ (Decides => ProcessPromises)
<1>1. CASE \E p \in Patterns, source \in {"signature", "ml"}, fresh \in BOOLEAN : ProcessAlert(p, source, fresh)
  BY <1>1, ProcessKeeps
<1>2. CASE \/ \E p \in Patterns : Mark(p) \/ Retune(p)
           \/ NextHour \/ Restart \/ UNCHANGED suppressionVars
  BY <1>2, OthersKeep
<1> QED
  BY <1>1, <1>2 DEF SuppressionNext

(* However old the cache is in which the alert-manager looks a pattern up, *)
(* a severity is lowered only for what was marked or had its hours, and    *)
(* with a fresh one a spike breaks through, a mark takes effect, a         *)
(* confirmed attack is not learned, and a rule of the rule-tuner keeps its *)
(* severity (suppression.py:17-27, main.py:223-275): for every set of      *)
(* patterns, learning window and number of hours and alerts.               *)
THEOREM SuppressionCorrect ==
  SuppressionAssumption => (SuppressionSpec => SuppressionOK)
<1> SUFFICES ASSUME SuppressionAssumption PROVE SuppressionSpec => SuppressionOK
  OBVIOUS
<1>1. SuppressionInit => SuppressionInv
  BY SuppressionInitOK
<1>2. SuppressionInv /\ [SuppressionNext]_suppressionVars => SuppressionInv'
  BY SuppressionStep
<1>3. SuppressionInv /\ [SuppressionNext]_suppressionVars => (Decides => ProcessPromises)
  BY SuppressionStep
<1>4. SuppressionInv => SuppressionTypeOK
  BY DEF SuppressionInv
<1>5. SuppressionSpec => []SuppressionInv
  BY <1>1, <1>2, PTL DEF SuppressionSpec
<1>6. SuppressionSpec => [][Decides => ProcessPromises]_suppressionVars
  BY <1>3, <1>5, PTL DEF SuppressionSpec
<1>7. /\ (Decides => ProcessPromises) =>
           (Decides /\ last'.fresh =>
              LET p == last'.pattern IN p \in Baseline \ userTp /\ Spike(p) => ~last'.lowered)
      /\ (Decides => ProcessPromises) =>
           (Decides /\ last'.fresh /\ last'.source = "signature" /\ last'.pattern \in (userFp \cap aligned) \ tunable =>
              LET p == last'.pattern
              IN  last'.lowered \/ (p \in Baseline \ userTp /\ Spike(p)))
      /\ (Decides => ProcessPromises) =>
           (Decides /\ last'.fresh /\ last'.pattern \in userTp => last'.kind # "learned")
      /\ (Decides => ProcessPromises) =>
           (Decides /\ last'.lowered =>
              LET p == last'.pattern
              IN  p \in userFp \cup autoFp
                  \/ Cardinality({h \in 1..(hour - 1) : table[p][h] > 0}) >= MinHours)
      /\ (Decides => ProcessPromises) => (Decides => ~(last'.lowered /\ last'.pattern \in tunable))
  BY DEF ProcessPromises
<1>8. SuppressionSpec => SpikeBreaksThrough
  BY <1>6, <1>7, PTL DEF SpikeBreaksThrough
<1>9. SuppressionSpec => MarkTakesEffect
  BY <1>6, <1>7, PTL DEF MarkTakesEffect
<1>10. SuppressionSpec => TpEndsLearning
  BY <1>6, <1>7, PTL DEF TpEndsLearning
<1>11. SuppressionSpec => NewPatternsSeen
  BY <1>6, <1>7, PTL DEF NewPatternsSeen
<1>12. SuppressionSpec => OneDefence
  BY <1>6, <1>7, PTL DEF OneDefence
<1> QED
  BY <1>4, <1>5, <1>8, <1>9, <1>10, <1>11, <1>12, PTL DEF SuppressionOK

=============================================================================
