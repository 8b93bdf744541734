---------------------------- MODULE DiskRetention ----------------------------
(***************************************************************************)
(* The disk of the master: chunks of the hypertables grow day by day,      *)
(* retention policies drop old ones, the operator deletes, and the         *)
(* retention monitor of the api (retention_monitor.py) warns, and as a     *)
(* last resort drops the oldest chunks above a floor (emergency_cleanup),  *)
(* while all this goes on.                                                 *)
(*                                                                         *)
(* A chunk holds a day of a table and takes a unit of the disk; what lies  *)
(* outside the database takes the rest.  Thresholds are in units.  A       *)
(* measurement is taken at the time it is used, but for the one that the   *)
(* whole check works with.                                                 *)
(***************************************************************************)
EXTENDS Naturals, Sequences, FiniteSets

CONSTANTS
  Evictable,     \* the tables of _EVICTABLE, in their order
  Floor,         \* table -> days that are never dropped
  Warn, Emergency, Target,   \* units of the disk
  MaxElsewhere, MaxDay, MaxMishaps   \* bounds

Tables == {Evictable[i] : i \in DOMAIN Evictable}

RetentionAssumption ==
  /\ Floor \in [Tables -> Nat] /\ {Warn, Emergency, Target, MaxElsewhere, MaxDay, MaxMishaps} \subseteq Nat
  /\ Target <= Emergency /\ Warn <= Emergency

VARIABLES
  today,
  chunks,      \* table -> days on disk
  elsewhere,   \* units outside the database
  policy,      \* table -> days kept by a retention policy, 0: none
  changing,    \* table whose policy has been removed and not yet added, "" if none
  pc,          \* "sleep", "warn", "pick" or "drop" of the monitor
  measured,    \* the disk, as the check found it
  since,       \* the day emergency_cleanup began
  turn,        \* index of the table it works on
  picked,      \* the oldest day of that table, as selected
  alerted,     \* table "alerts" holds DISK_SPACE_001 of the last day
  mishaps

retentionVars == <<today, chunks, elsewhere, policy, changing, pc, measured, since, turn, picked, alerted, mishaps>>
monitorVars == <<pc, measured, since, turn, picked>>
policyVars == <<policy, changing>>

Total(c) == Cardinality({<<t, d>> \in Tables \X (1..MaxDay) : d \in c[t]})
Disk == elsewhere + Total(chunks)
Oldest(t) == CHOOSE d \in chunks[t] : \A e \in chunks[t] : d <= e

RetentionInit ==
  /\ today = 1 /\ chunks = [t \in Tables |-> {1}] /\ elsewhere = 0
  /\ policy = [t \in Tables |-> 0] /\ changing = ""
  /\ pc = "sleep" /\ measured = 0 /\ since = 0 /\ turn = 0 /\ picked = 0 /\ alerted = FALSE /\ mishaps = 0

Mishap == mishaps < MaxMishaps /\ mishaps' = mishaps + 1

-----------------------------------------------------------------------------
(* What goes on meanwhile.                                                 *)

NextDay ==
  /\ today < MaxDay /\ today' = today + 1 /\ alerted' = FALSE
  /\ chunks' = [t \in Tables |-> chunks[t] \cup {today + 1}]
  /\ UNCHANGED <<elsewhere, policyVars, monitorVars, mishaps>>

\* Volumes of Kafka and MinIO grow and shrink.
ElsewhereChanges ==
  /\ Mishap /\ elsewhere' \in 0..MaxElsewhere \ {elsewhere}
  /\ UNCHANGED <<today, chunks, policyVars, monitorVars, alerted>>

\* set_retention: the policy goes, and in a statement of its own the new one
\* comes, or does not.
RemovePolicy ==
  /\ changing = "" /\ Mishap
  /\ \E t \in Tables : changing' = t /\ policy' = [policy EXCEPT ![t] = 0]
  /\ UNCHANGED <<today, chunks, elsewhere, monitorVars, alerted>>

AddPolicy ==
  /\ changing # "" /\ changing' = ""
  /\ \E days \in 0..MaxDay : policy' = [policy EXCEPT ![changing] = days]
  /\ UNCHANGED <<today, chunks, elsewhere, monitorVars, alerted, mishaps>>

\* TimescaleDB's job.
PolicyRuns ==
  /\ \E t \in Tables :
       LET old == {d \in chunks[t] : policy[t] # 0 /\ today - d > policy[t]}
       IN old # {} /\ chunks' = [chunks EXCEPT ![t] = @ \ old]
  /\ UNCHANGED <<today, elsewhere, policyVars, monitorVars, alerted, mishaps>>

\* cleanup: the operator empties a table, or all of them; with the alerts goes
\* the memory of what was reported.
Cleanup ==
  /\ Mishap
  /\ \E ts \in {{t} : t \in Tables} \cup {Tables} :
       /\ chunks' = [t \in Tables |-> IF t \in ts THEN {} ELSE chunks[t]]
       /\ alerted' = (alerted /\ "alerts" \notin ts)
  /\ UNCHANGED <<today, elsewhere, policyVars, monitorVars>>

-----------------------------------------------------------------------------
(* run_check.                                                              *)

\* gather_health.
Measure ==
  /\ pc = "sleep" /\ measured' = Disk /\ pc' = "warn"
  /\ UNCHANGED <<today, chunks, elsewhere, policyVars, since, turn, picked, alerted, mishaps>>

\* Bug: the cleanup hangs on the alert, which is made once a day.
CleansUpOnce == measured >= Emergency /\ ~alerted
CleansUp == measured >= Emergency

\* The alert at most once a day; then the cleanup, by the same measurement.
Report ==
  /\ pc = "warn"
  /\ alerted' = (alerted \/ measured >= Warn)
  /\ IF CleansUp THEN pc' = "pick" /\ since' = today /\ turn' = 1
     ELSE pc' = "sleep" /\ UNCHANGED <<since, turn>>
  /\ measured' = 0
  /\ UNCHANGED <<today, chunks, elsewhere, policyVars, picked, mishaps>>

\* The INSERT fails, and with it the check.
ReportFails ==
  /\ pc = "warn" /\ measured >= Warn /\ ~alerted /\ Mishap
  /\ pc' = "sleep" /\ measured' = 0
  /\ UNCHANGED <<today, chunks, elsewhere, policyVars, since, turn, picked, alerted>>

-----------------------------------------------------------------------------
(* emergency_cleanup.                                                      *)

\* Bug: the floor is forgotten.
DroppableAny(t) == chunks[t] # {}

\* The oldest chunk lies before the floor, as it was when the cleanup began.
Droppable(t) == chunks[t] # {} /\ Oldest(t) + Floor[t] <= since

\* Bug: the table that holds the alerts comes first.
TableBackwards(i) == Evictable[Len(Evictable) + 1 - i]
Table(i) == Evictable[i]

EndCleanup == pc' = "sleep" /\ since' = 0 /\ turn' = 0
GoOn == IF turn < Len(Evictable) THEN turn' = turn + 1 /\ pc' = "pick" /\ UNCHANGED since ELSE EndCleanup

\* The disk is measured before every chunk.
Pick ==
  /\ pc = "pick" /\ Disk >= Target
  /\ IF Droppable(Table(turn)) THEN picked' = Oldest(Table(turn)) /\ pc' = "drop" /\ UNCHANGED <<since, turn>>
     ELSE GoOn /\ UNCHANGED picked
  /\ UNCHANGED <<today, chunks, elsewhere, policyVars, measured, alerted, mishaps>>

\* drop_chunks: what is as old as the chunk that was selected.
Dropped(t) == {d \in chunks[t] : d <= picked}

DropOldest ==
  /\ pc = "drop" /\ pc' = "pick" /\ picked' = 0
  /\ LET t == Table(turn) IN chunks' = [chunks EXCEPT ![t] = @ \ Dropped(t)]
  /\ UNCHANGED <<today, elsewhere, policyVars, measured, since, turn, alerted, mishaps>>

DropFails ==
  /\ pc = "drop" /\ Mishap /\ picked' = 0 /\ GoOn
  /\ UNCHANGED <<today, chunks, elsewhere, policyVars, measured, alerted>>

\* The end is alerted as well.
Relieved ==
  /\ pc = "pick" /\ Disk < Target /\ EndCleanup
  /\ UNCHANGED <<today, chunks, elsewhere, policyVars, measured, picked, alerted, mishaps>>

MonitorStep == Measure \/ Report \/ ReportFails \/ Pick \/ DropOldest \/ DropFails \/ Relieved

RetentionNext ==
  \/ NextDay \/ ElsewhereChanges \/ RemovePolicy \/ AddPolicy \/ PolicyRuns \/ Cleanup \/ MonitorStep

RetentionSpec == RetentionInit /\ [][RetentionNext]_retentionVars

\* The monitor wakes up every 30 minutes when the disk is full.
RetentionFairness == WF_<<chunks, monitorVars>>(MonitorStep)

RetentionFairSpec == RetentionSpec /\ RetentionFairness

-----------------------------------------------------------------------------
RetentionTypeOK ==
  /\ today \in 1..MaxDay /\ chunks \in [Tables -> SUBSET (1..MaxDay)] /\ elsewhere \in 0..MaxElsewhere
  /\ policy \in [Tables -> 0..MaxDay] /\ changing \in Tables \cup {""}
  /\ pc \in {"sleep", "warn", "pick", "drop"} /\ since \in 0..MaxDay /\ turn \in 0..Len(Evictable)

\* retention_monitor.py:79: what the monitor drops is older than the floor of
\* its table, and alerts are dropped only when nothing else is left to drop,
\* whatever has grown or been deleted since the check; or a drop has failed.
SparesTheYoung ==
  [][DropOldest => \A t \in Tables : \A d \in chunks[t] \ chunks'[t] :
       /\ today - d >= Floor[t]
       /\ t = "alerts" => mishaps > 0 \/ \A o \in Tables \ {t} : \A e \in chunks[o] : e + Floor[o] > since]_retentionVars

\* A disk that is full, and that nothing but the cleanup can help, is relieved
\* or holds nothing above the floors.
GetsRelieved ==
  []<>(Disk < Emergency \/ \A t \in Tables : \A d \in chunks[t] : d + Floor[t] > today)

=============================================================================
