---------------------------- MODULE AlertManager ----------------------------
(***************************************************************************)
(* alert-manager: the loop that takes alerts from alerts-raw, filters,     *)
(* deduplicates and publishes them (main.py), and the AlertWriter that     *)
(* keeps them in memory until TimescaleDB has them (db.py).                *)
(*                                                                         *)
(* An alert is a model value with the attributes the code looks at.  A row *)
(* is an alert and its alert_id: an alert whose producer set the id has    *)
(* the same one whenever it is delivered, any other gets a new one each    *)
(* time it is processed.                                                   *)
(***************************************************************************)
EXTENDS Naturals, Sequences, FiniteSets, Functions

CONSTANTS
  Alert,       \* alerts that may be raised
  WithId,      \* those whose producer set alert_id
  DedupKey,    \* DedupKey[a]: (rule_id, src_ip, dst_ip, dst_port)
  Test,        \* is_test alerts: never filtered, never deduplicated
  Ignored,     \* dropped by the self filter or the resolver allowlist
  Unusable,    \* an exception between deduplication and publication
  Defective,   \* the INSERT of such an alert raises a DataError
  MaxPending,  \* MAX_PENDING
  MaxTopic,    \* bound: records ever in alerts-raw
  MaxExpiry,   \* bound: expiries of a deduplication window
  MaxOutage,   \* bound: outages of the database
  MaxFault,    \* bound: commits whose answer is lost, row-wise writes cut off
  MaxCrash     \* bound: crashes and shutdowns of the process

ASSUME AlertManagerAssumption ==
  /\ WithId \subseteq Alert /\ Test \subseteq Alert
  /\ Ignored \subseteq Alert \ Test
  /\ Unusable \subseteq Alert /\ Defective \subseteq Alert
  /\ MaxPending \in Nat \ {0} /\ MaxTopic \in Nat
  /\ MaxExpiry \in Nat /\ MaxOutage \in Nat /\ MaxFault \in Nat /\ MaxCrash \in Nat

Key == {DedupKey[a] : a \in Alert}

VARIABLES
  topic,       \* alerts-raw
  pos,         \* records the consumer has polled
  committed,   \* the offset it starts from after a crash
  dedup,       \* keys whose window is open: DedupCache._cache
  pending,     \* AlertWriter._pending
  backoff,     \* now < _next_retry
  db,          \* rows of the alerts table, primary key (alert_id, ts)
  dbUp,        \* the database answers
  running      \* the process runs

VARIABLES      \* history, read only by properties and bounds
  published,   \* rows sent to alerts-enriched
  lost,        \* published rows given up: overflow, crash, shutdown
  discarded,   \* rows discarded because they are defective
  ended,       \* ended[k]: windows of k that expired or died with the process
  outages, cuts, crashes

writer == <<pending, backoff, db, discarded, cuts>>
vars == <<topic, pos, committed, dedup, writer, dbUp, running, published, lost,
          ended, outages, crashes>>

Init ==
  /\ topic = <<>> /\ pos = 0 /\ committed = 0
  /\ dedup = {} /\ pending = <<>> /\ backoff = FALSE
  /\ db = {} /\ dbUp = TRUE /\ running = TRUE
  /\ published = {} /\ lost = {} /\ discarded = {}
  /\ ended = [k \in Key |-> 0]
  /\ outages = 0 /\ cuts = 0 /\ crashes = 0
-----------------------------------------------------------------------------
(* AlertWriter: flush, with b as the buffer.  *)

Sound(b) == \A k \in DOMAIN b : b[k][1] \notin Defective
Storable(b) == {r \in Range(b) : r[1] \notin Defective}

(* Row k violates the primary key: stored before, or earlier in the batch. *)
Clashes(b, k) == b[k] \in db \/ \E j \in 1..(k - 1) : b[j] = b[k]
Clean(b) == \A k \in DOMAIN b : ~Clashes(b, k)

Cut == cuts < MaxFault /\ cuts' = cuts + 1

(* Bug: the buffer is cleared before the commit. *)
KeepNone(b) == pending' = <<>> /\ backoff' = TRUE /\ UNCHANGED discarded

(* Rollback; the buffer stays as it is and is tried again after            *)
(* RETRY_BACKOFF_S.                                                        *)
KeepAll(b) == pending' = b /\ backoff' = TRUE /\ UNCHANGED discarded

InsertAll(b) ==
  /\ dbUp /\ Sound(b) /\ Clean(b)
  /\ db' = db \union Range(b)
  /\ pending' = <<>>
  /\ UNCHANGED <<backoff, discarded, cuts>>

(* The server commits, but the answer does not arrive. *)
AnswerLost(b) ==
  /\ dbUp /\ Sound(b) /\ Clean(b) /\ Cut
  /\ db' = db \union Range(b)
  /\ KeepAll(b)

(* No connection, or an IntegrityError: that is no DataError. *)
Refused(b) ==
  /\ ~dbUp \/ ~Clean(b)
  /\ KeepAll(b)
  /\ UNCHANGED <<db, cuts>>

(* _insert_rowwise cannot go past a storable row that violates the key. *)
Stops(b, k) == b[k][1] \notin Defective /\ Clashes(b, k)

(* Bug: a DataError is handled like any other error. *)
RowwiseNever(b) ==
  /\ dbUp /\ ~Sound(b) /\ \A k \in DOMAIN b : ~Stops(b, k)
  /\ KeepAll(b)
  /\ UNCHANGED <<db, cuts>>

(* DataError: every row on its own, the defective ones are discarded. *)
Rowwise(b) ==
  /\ dbUp /\ ~Sound(b) /\ \A k \in DOMAIN b : ~Stops(b, k)
  /\ db' = db \union Storable(b)
  /\ discarded' = discarded \union (Range(b) \ Storable(b))
  /\ pending' = <<>>
  /\ UNCHANGED <<backoff, cuts>>

(* It ends at row k; what was committed before k stays committed. *)
RowwiseStops(b) ==
  /\ dbUp /\ ~Sound(b)
  /\ \E k \in DOMAIN b :
       /\ \A j \in 1..(k - 1) : ~Stops(b, j)
       /\ \/ Stops(b, k) /\ UNCHANGED cuts
          \/ Cut
       /\ db' = db \union Storable(SubSeq(b, 1, k - 1))
  /\ KeepAll(b)

Flush(b) ==
  \/ /\ b = <<>> \/ backoff
     /\ pending' = b
     /\ UNCHANGED <<backoff, db, discarded, cuts>>
  \/ /\ b # <<>> /\ ~backoff
     /\ \/ InsertAll(b) \/ AnswerLost(b) \/ Refused(b)
        \/ Rowwise(b) \/ RowwiseStops(b)

(* Bug: no limit. *)
WriteUnlimited(r) == Flush(Append(pending, r)) /\ UNCHANGED lost

(* Bug: at the limit the newest row is dropped. *)
WriteDropsNewest(r) ==
  LET b == Append(pending, r)
      excess == IF Len(b) > MaxPending THEN Len(b) - MaxPending ELSE 0
  IN  /\ Flush(SubSeq(b, 1, Len(b) - excess))
      /\ lost' = lost \union Range(SubSeq(b, Len(b) - excess + 1, Len(b)))

(* write: append, drop the oldest beyond MAX_PENDING, flush. *)
Write(r) ==
  LET b == Append(pending, r)
      excess == IF Len(b) > MaxPending THEN Len(b) - MaxPending ELSE 0
  IN  /\ Flush(SubSeq(b, excess + 1, Len(b)))
      /\ lost' = lost \union Range(SubSeq(b, 1, excess))
-----------------------------------------------------------------------------
(* The loop of run. *)

(* alert_id: the producer's, or a new UUID. *)
RowOf(a) == <<a, IF a \in WithId THEN 0 ELSE Cardinality(published) + 1>>

Polled == running /\ pos < Len(topic) /\ pos' = pos + 1
Next1 == topic[pos + 1]

(* Filtered before the deduplication looks at it. *)
Filter ==
  /\ Polled /\ Next1 \in Ignored
  /\ UNCHANGED <<topic, committed, dedup, writer, dbUp, running, published, lost,
                 ended, outages, crashes>>

(* is_duplicate. *)
Duplicate(a) == a \notin Test /\ DedupKey[a] \in dedup

(* Bug: the key is never entered. *)
NotRegistered(a) == dedup

Registered(a) == IF a \in Test THEN dedup ELSE dedup \union {DedupKey[a]}

Suppress ==
  /\ Polled /\ Next1 \notin Ignored /\ Duplicate(Next1)
  /\ UNCHANGED <<topic, committed, dedup, writer, dbUp, running, published, lost,
                 ended, outages, crashes>>

(* A message that raises costs a log line; the window it opened stays. *)
Skip ==
  /\ Polled /\ Next1 \notin Ignored /\ ~Duplicate(Next1) /\ Next1 \in Unusable
  /\ dedup' = Registered(Next1)
  /\ UNCHANGED <<topic, committed, writer, dbUp, running, published, lost, ended,
                 outages, crashes>>

(* Publish to alerts-enriched, then hand to the writer. *)
Forward ==
  /\ Polled /\ Next1 \notin Ignored \union Unusable /\ ~Duplicate(Next1)
  /\ dedup' = Registered(Next1)
  /\ published' = published \union {RowOf(Next1)}
  /\ Write(RowOf(Next1))
  /\ UNCHANGED <<topic, committed, dbUp, running, ended, outages, crashes>>

(* Every 60 s, with or without messages. *)
PeriodicFlush ==
  /\ running /\ Flush(pending)
  /\ UNCHANGED <<topic, pos, committed, dedup, dbUp, running, published, lost,
                 ended, outages, crashes>>

BackoffOver ==
  /\ running /\ backoff /\ backoff' = FALSE
  /\ UNCHANGED <<topic, pos, committed, dedup, pending, db, discarded, cuts, dbUp,
                 running, published, lost, ended, outages, crashes>>

(* The window of k closes; an eviction at MAX_SIZE does the same. *)
Expire(k) ==
  /\ k \in dedup /\ ended[k] < MaxExpiry
  /\ dedup' = dedup \ {k}
  /\ ended' = [ended EXCEPT ![k] = @ + 1]
  /\ UNCHANGED <<topic, pos, committed, writer, dbUp, running, published, lost,
                 outages, crashes>>

(* enable.auto.commit stores what poll has returned, processed or not. *)
AutoCommit ==
  /\ running /\ committed' = pos
  /\ UNCHANGED <<topic, pos, dedup, writer, dbUp, running, published, lost, ended,
                 outages, crashes>>

(* SIGTERM: close flushes once (not in the backoff) and commits. *)
Shutdown ==
  /\ running /\ crashes < MaxCrash /\ crashes' = crashes + 1
  /\ running' = FALSE /\ committed' = pos
  /\ Flush(pending)
  /\ UNCHANGED <<topic, pos, dedup, dbUp, published, lost, ended, outages>>

Crash ==
  /\ running /\ crashes < MaxCrash /\ crashes' = crashes + 1
  /\ running' = FALSE
  /\ UNCHANGED <<topic, pos, committed, dedup, writer, dbUp, published, lost, ended,
                 outages>>

(* A new process starts with empty memory at the committed offset. *)
Start ==
  /\ ~running /\ running' = TRUE
  /\ pos' = committed
  /\ pending' = <<>> /\ backoff' = FALSE
  /\ lost' = lost \union Range(pending)
  /\ dedup' = {}
  /\ ended' = [k \in Key |-> IF k \in dedup THEN ended[k] + 1 ELSE ended[k]]
  /\ UNCHANGED <<topic, committed, db, discarded, cuts, dbUp, published, outages,
                 crashes>>
-----------------------------------------------------------------------------
(* The environment: producers and the database. *)

Raise(a) ==
  /\ Len(topic) < MaxTopic
  /\ topic' = Append(topic, a)
  /\ UNCHANGED <<pos, committed, dedup, writer, dbUp, running, published, lost,
                 ended, outages, crashes>>

DbDown ==
  /\ dbUp /\ outages < MaxOutage
  /\ dbUp' = FALSE /\ outages' = outages + 1
  /\ UNCHANGED <<topic, pos, committed, dedup, writer, running, published, lost,
                 ended, crashes>>

DbUp ==
  /\ ~dbUp /\ dbUp' = TRUE
  /\ UNCHANGED <<topic, pos, committed, dedup, writer, running, published, lost,
                 ended, outages, crashes>>

Process == Filter \/ Suppress \/ Skip \/ Forward

Next ==
  \/ Process \/ PeriodicFlush \/ BackoffOver \/ AutoCommit
  \/ \E k \in Key : Expire(k)
  \/ Shutdown \/ Crash \/ Start
  \/ \E a \in Alert : Raise(a)
  \/ DbDown \/ DbUp

Spec == Init /\ [][Next]_vars

(* The loop runs for as long as the process does, Compose restarts it, the *)
(* back-off is ten seconds, and the database comes back.                   *)
Fairness ==
  /\ WF_vars(Process) /\ WF_vars(PeriodicFlush) /\ WF_vars(BackoffOver)
  /\ WF_vars(Start) /\ WF_vars(DbUp)

FairSpec == Spec /\ Fairness
-----------------------------------------------------------------------------
Rows == Alert \X Nat

(* The types of the state of the loop and of the writer. *)
AlertManagerTypeOK ==
  /\ topic \in Seq(Alert) /\ committed \in 0..Len(topic)
  /\ pos \in committed..Len(topic)
  /\ dedup \subseteq Key
  /\ pending \in Seq(Rows) /\ Len(pending) <= MaxPending
  /\ backoff \in BOOLEAN /\ dbUp \in BOOLEAN /\ running \in BOOLEAN
  /\ \A S \in {db, published, lost, discarded} : S \subseteq Rows

(* No alert that went out to alerts-enriched disappears silently on its    *)
(* way into the table: it is stored, or buffered, or was given up at the   *)
(* buffer's limit or with the process, or is defective.                    *)
NoSilentLoss ==
  \A r \in published :
    r \in db \/ r \in Range(pending) \/ r \in lost
             \/ (r \in discarded /\ r[1] \in Defective)

(* The outage buffer keeps the order of publication, and what it gave up   *)
(* is older than what it still holds.  (For rows whose id is new.)         *)
BufferInOrder ==
  LET Fresh(r) == r[2] > 0
  IN  /\ \A j, k \in DOMAIN pending :
           j < k /\ Fresh(pending[j]) /\ Fresh(pending[k])
             => pending[j][2] < pending[k][2]
      /\ \A r \in lost, s \in Range(pending) :
           Fresh(r) /\ Fresh(s) => r[2] < s[2]

(* Within one window a key is published once: each further publication    *)
(* needs an expiry or a restart.  (For alerts whose id is new each time,   *)
(* so that publications can be told apart.)                                *)
OncePerWindow ==
  \A k \in Key :
    Cardinality({r \in published :
                   DedupKey[r[1]] = k /\ r[1] \notin Test \union WithId})
      <= 1 + ended[k]

(* Once the database is back, every sound alert that was published reaches *)
(* the table, unless it was given up: one defective alert among them does  *)
(* not hold the others back.                                               *)
BufferDrains ==
  \A a \in Alert \ Defective :
    []<>((\E r \in published : r[1] = a) => \E r \in db \union lost : r[1] = a)
=============================================================================
