----------------------------- MODULE AtLeastOnce -----------------------------
(***************************************************************************)
(* What the uplink promises to the services of a remote tap: a frame that  *)
(* was queued stays queued until it has been processed, and may be         *)
(* processed more than once; only the size cap and the mode for masters    *)
(* without acks may give a frame up (disk_queue.py:1-8, tap-uplink         *)
(* main.py:106-112).                                                       *)
(***************************************************************************)
EXTENDS Naturals

CONSTANT MaxFrame      \* bound: frames ever queued

VARIABLES
  last,        \* frames are numbered in the order they were queued
  queued,      \* frames the tap still holds
  processed,   \* frames the master has processed at least once
  given        \* frames given up

aloVars == <<last, queued, processed, given>>

AInit == last = 0 /\ queued = {} /\ processed = {} /\ given = {}

(* A new frame; the cap may give up some, the new one included.  A frame   *)
(* for which the master has nothing to do counts as processed at once.     *)
Accept ==
  /\ last < MaxFrame
  /\ last' = last + 1
  /\ \E D \in SUBSET (queued \union {last + 1}) :
       /\ queued' = (queued \union {last + 1}) \ D
       /\ given' = given \union D
  /\ processed' \in {processed, processed \union {last + 1}}

Process ==
  /\ \E S \in SUBSET (1..last) : processed' = processed \union S
  /\ UNCHANGED <<last, queued, given>>

(* Confirmed frames are forgotten, and only frames that were processed are. *)
Forget ==
  /\ \E S \in SUBSET (queued \intersect processed) : queued' = queued \ S
  /\ UNCHANGED <<last, processed, given>>

GiveUp ==
  /\ \E S \in SUBSET queued : queued' = queued \ S /\ given' = given \union S
  /\ UNCHANGED <<last, processed>>

ANext == Accept \/ Process \/ Forget \/ GiveUp

ASpec == AInit /\ [][ANext]_aloVars
=============================================================================
