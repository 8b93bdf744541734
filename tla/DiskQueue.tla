------------------------------ MODULE DiskQueue ------------------------------
(***************************************************************************)
(* The SQLite outage buffer of a remote tap (tap-uplink/src/disk_queue.py).*)
(*                                                                         *)
(* A table row is an id and a payload.  Ids are INTEGER PRIMARY KEY        *)
(* AUTOINCREMENT, so they only grow and id order is insertion order: the   *)
(* table is a function from the live ids to payloads, and "ORDER BY id ASC *)
(* LIMIT n" is the set of the n smallest ids.  Payloads are abstract; all  *)
(* the class looks at is their length.                                     *)
(***************************************************************************)
EXTENDS Naturals, FiniteSets, Functions

CONSTANTS
  Payload,     \* payloads the producer threads may push
  Length,      \* Length[p]: LENGTH(payload) in bytes
  MaxBytes,    \* max_bytes, the size cap
  TrimBatch,   \* TRIM_BATCH, rows dropped by one trim
  MaxId        \* bound of the model: number of rows ever inserted

ASSUME QueueAssumption ==
  /\ Length \in [Payload -> Nat]
  /\ MaxBytes \in Nat
  /\ TrimBatch \in Nat \ {0}
  /\ MaxId \in Nat

VARIABLES
  rows,        \* the table: live id -> payload (on disk)
  lastId,      \* sqlite_sequence: the last id handed out (on disk)
  bytes        \* self._bytes, the byte counter kept in memory

queueVars == <<rows, lastId, bytes>>

(* The n oldest members of a set of ids: ORDER BY id ASC LIMIT n. *)
Oldest(S, n) == {i \in S : Cardinality({j \in S : j < i}) < n}

(* The table without the rows in D: DELETE ... WHERE id IN D. *)
Without(r, D) == Restrict(r, DOMAIN r \ D)

LengthOf(r) == [i \in DOMAIN r |-> Length[r[i]]]

(* SELECT SUM(LENGTH(payload)). *)
TotalLength(r) == SumFunction(LengthOf(r))

(* max(0, a - b) *)
Less(a, b) == IF a < b THEN 0 ELSE a - b
-----------------------------------------------------------------------------
QueueInit ==
  /\ rows = [i \in {} |-> {}]
  /\ lastId = 0
  /\ bytes = 0

(* pop_batch and pop_batch_after: a read, oldest first, nothing deleted. *)
PopBatchAfter(after, n) ==
  Restrict(rows, Oldest({i \in DOMAIN rows : i > after}, n))

(* The table after the INSERT of push. *)
Inserted(p) == [i \in DOMAIN rows \union {lastId + 1} |->
                  IF i = lastId + 1 THEN p ELSE rows[i]]

(* Bug: the trim takes the newest rows (ORDER BY id DESC). *)
TrimmedNewest(r, b) ==
  IF b <= MaxBytes
  THEN {} ELSE {i \in DOMAIN r : Cardinality({j \in DOMAIN r : j > i}) < TrimBatch}

(* The rows _maybe_trim deletes from table r when the counter stands at b. *)
Trimmed(r, b) == IF b <= MaxBytes THEN {} ELSE Oldest(DOMAIN r, TrimBatch)

(* Bug: the trim is not counted off. *)
PushUncounted(p) ==
  LET r == Inserted(p)
      b == bytes + Length[p]
  IN  /\ lastId < MaxId
      /\ lastId' = lastId + 1
      /\ rows' = Without(r, Trimmed(r, b))
      /\ bytes' = b

(* push: INSERT, count, _maybe_trim, all under the lock. *)
Push(p) ==
  LET r == Inserted(p)
      b == bytes + Length[p]
      D == Trimmed(r, b)
  IN  /\ lastId < MaxId
      /\ lastId' = lastId + 1
      /\ rows' = Without(r, D)
      /\ bytes' = Less(b, TotalLength(Restrict(r, D)))

(* ack: DELETE the confirmed ids that are still there and count them off.  *)
Ack(ids) ==
  LET D == ids \intersect DOMAIN rows
  IN  /\ rows' = Without(rows, D)
      /\ bytes' = Less(bytes, TotalLength(Restrict(rows, D)))
      /\ UNCHANGED lastId

(* Bug: without AUTOINCREMENT the numbering starts over with the process. *)
RestartRenumbers ==
  /\ bytes' = TotalLength(rows)
  /\ lastId' = 0
  /\ UNCHANGED rows

(* The process dies and is started again: the committed table is what      *)
(* remains, and the constructor recounts it.                               *)
Restart ==
  /\ bytes' = TotalLength(rows)
  /\ UNCHANGED <<rows, lastId>>

(* The process dies inside push, between the autocommitted INSERT and the  *)
(* DELETE of the trim, and is started again.                               *)
RestartInsidePush(p) ==
  /\ lastId < MaxId
  /\ lastId' = lastId + 1
  /\ rows' = Inserted(p)
  /\ bytes' = TotalLength(Inserted(p))

QueueNext ==
  \/ \E p \in Payload : Push(p) \/ RestartInsidePush(p)
  \/ \E ids \in SUBSET (1..lastId) : ids # {} /\ Ack(ids)
  \/ Restart

QueueSpec == QueueInit /\ [][QueueNext]_queueVars
-----------------------------------------------------------------------------
(* The types of the table: every live id was handed out once, and holds a  *)
(* payload.                                                                *)
QueueTypeOK ==
  /\ lastId \in Nat
  /\ DOMAIN rows \subseteq 1..lastId
  /\ \A i \in DOMAIN rows : rows[i] \in Payload

(* The counter that replaced the SUM(LENGTH()) scan never drifts from the  *)
(* table, whatever mix of pushes, trims, repeated acks and restarts.       *)
BytesExact == bytes = TotalLength(rows)

(* What a step of push removes is older than everything it keeps: a trim   *)
(* sacrifices the head of the FIFO, never a row from the middle.           *)
TrimsOldestFirst ==
  [][\A i \in DOMAIN rows \ DOMAIN rows' :
        lastId' # lastId => \A j \in DOMAIN rows' : i < j]_queueVars

(* disk_queue.py:124-125: trimming goes in TRIM_BATCH portions so that one *)
(* insert does not overturn the whole queue.                               *)
InsertSparesQueue ==
  [][lastId' = lastId + 1 /\ DOMAIN rows # {} => DOMAIN rows' # {}]_queueVars
=============================================================================
