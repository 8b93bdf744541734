----------------------------- MODULE RuleTuning -----------------------------
(***************************************************************************)
(* rule-tuner (tuner.py) and the endpoints of the api it works with        *)
(* (sig_rules.py).  The loop polls the tuning state, and in a cycle merges *)
(* new thresholds into _overrides.json: GET with a version, merge, PUT     *)
(* with If-Match, again after a 409.  Then it reads the tuning state and   *)
(* writes it back.  The operator starts, pauses and resumes, and sets      *)
(* thresholds by hand in a GUI that writes what it last read.              *)
(*                                                                         *)
(* The version is a hash of the file, so that the file itself stands for   *)
(* it.  What the samples of a parameter suggest is any value of its        *)
(* schema, or none while they are too few; a restart empties them.         *)
(***************************************************************************)
EXTENDS Integers, FiniteSetsExt

CONSTANTS
  Params, MaxValue,            \* the schema: integers 1..MaxValue
  MaxDown, MaxUp,              \* max_change_per_cycle(_up), in percent
  MaxPutRetries,
  MaxOperator, MaxCycleFailures     \* bounds

TuningAssumption ==
  /\ MaxValue \in Nat \ {0}
  /\ MaxDown \in 1..100 /\ MaxUp \in Nat /\ MaxPutRetries \in Nat \ {0}
  /\ {MaxOperator, MaxCycleFailures} \subseteq Nat

Values == 1..MaxValue
NoValue == 0
Entry(src, v) == [src |-> src, value |-> v]
NoEntry == Entry("none", NoValue)
Entries == [src: {"manual", "ml"}, value: Values] \cup {NoEntry}

VARIABLES
  mode, pausedFrom,  \* ml_tuning_state: state and paused_from
  windowOver,        \* training_until has passed
  due,               \* last_tuning_at is tuning_cycle_s ago
  overrides,         \* the file: parameter -> entry
  gui,               \* what the GUI has read, {} or {file}
  tuner,                \* "poll", "get", "put", "read" or "write" of the state loop
  first,             \* first_apply of this cycle
  suggested,         \* parameter -> what its samples suggest in this cycle
  got,               \* the file of the last GET
  attempt,
  row,               \* the tuning state it read back
  pausedWrites,      \* files it wrote while paused (history)
  operator, cycleFailures

tuningVars == <<mode, pausedFrom, windowOver, due, overrides, gui, tuner, first, suggested, got,
                attempt, row, pausedWrites, operator, cycleFailures>>
stateVars == <<mode, pausedFrom, windowOver>>
cycleVars == <<first, suggested, got, attempt>>

NoSuggestion == [p \in Params |-> NoValue]
NoFile == [p \in Params |-> NoEntry]
NoRow == [mode |-> "idle", pausedFrom |-> "none"]

TuningInit ==
  /\ mode = "idle" /\ pausedFrom = "none" /\ windowOver = FALSE /\ due = TRUE
  /\ overrides = NoFile /\ gui = {} /\ tuner = "poll" /\ first = FALSE
  /\ suggested = NoSuggestion /\ got = NoFile /\ attempt = 0 /\ row = NoRow
  /\ pausedWrites = 0 /\ operator = 0 /\ cycleFailures = 0

-----------------------------------------------------------------------------
(* The operator.                                                           *)

Acts == operator < MaxOperator /\ operator' = operator + 1

\* ml_start_training, from any state.
StartTraining ==
  /\ Acts /\ mode' = "training" /\ windowOver' = FALSE /\ pausedFrom' = "none"
  /\ pausedWrites' = 0
  /\ UNCHANGED <<due, overrides, gui, tuner, cycleVars, row, cycleFailures>>

\* ml_pause.
Pause ==
  /\ mode # "paused" /\ Acts /\ mode' = "paused" /\ pausedFrom' = mode /\ pausedWrites' = 0
  /\ UNCHANGED <<windowOver, due, overrides, gui, tuner, cycleVars, row, cycleFailures>>

\* ml_resume; a window that has passed meanwhile is not lengthened.
Resume ==
  /\ mode = "paused" /\ Acts
  /\ mode' = IF pausedFrom = "training" /\ windowOver THEN "tuning" ELSE pausedFrom
  /\ pausedFrom' = "none"
  /\ UNCHANGED <<windowOver, due, overrides, gui, tuner, cycleVars, row, pausedWrites, cycleFailures>>

GuiReads ==
  /\ gui = {} /\ gui' = {overrides}
  /\ UNCHANGED <<stateVars, due, overrides, tuner, cycleVars, row, pausedWrites, operator, cycleFailures>>

\* put_overrides without If-Match: a threshold set or taken back by hand.
GuiWrites ==
  /\ gui # {} /\ Acts /\ gui' = {}
  /\ \E p \in Params, e \in {Entry("manual", v) : v \in Values} \cup {NoEntry}, f \in gui :
       overrides' = [f EXCEPT ![p] = e]
  /\ UNCHANGED <<stateVars, due, tuner, cycleVars, row, pausedWrites, cycleFailures>>

TimePasses ==
  /\ ~windowOver \/ ~due
  /\ windowOver' = TRUE /\ due' = TRUE
  /\ UNCHANGED <<mode, pausedFrom, overrides, gui, tuner, cycleVars, row, pausedWrites, operator, cycleFailures>>

-----------------------------------------------------------------------------
(* One cycle.                                                              *)

\* _clamp_change, and the conversion to int by the api.
Clamped(new, old) ==
  Max({(old * (100 - MaxDown)) \div 100, Min({new, (old * (100 + MaxUp)) \div 100})})

\* Bug: the limit is forgotten.
NewValueFree(p, f) == suggested[p]

NewValue(p, f) ==
  IF ~first /\ f[p].src = "ml" THEN Max({1, Clamped(suggested[p], f[p].value)}) ELSE suggested[p]

Updated(f) == {p \in Params : f[p].src # "manual" /\ suggested[p] # NoValue}

\* _build_overrides: manual entries stay, ml entries without an update go.
Merged(f) ==
  [p \in Params |-> IF p \in Updated(f) THEN Entry("ml", NewValue(p, f))
                    ELSE IF f[p].src = "ml" THEN NoEntry ELSE f[p]]

\* Bug: a pause does not stop the cycles that follow a training.
PolledPausedAnyway == IF mode = "paused" THEN pausedFrom ELSE mode

\* The state the loop has polled decides on the cycle.
Polled == mode

\* state_loop: a cycle at the end of the training, and when one is due.
BeginCycle ==
  /\ tuner = "poll"
  /\ \/ Polled = "training" /\ windowOver /\ first' = TRUE
     \/ Polled = "tuning" /\ due /\ first' = FALSE
  /\ suggested' \in [Params -> Values \cup {NoValue}]
  /\ attempt' = 1 /\ tuner' = "get"
  /\ UNCHANGED <<stateVars, due, overrides, gui, got, row, pausedWrites, operator, cycleFailures>>

NothingDue ==
  /\ tuner = "poll" /\ ~(Polled = "training" /\ windowOver) /\ ~(Polled = "tuning" /\ due)
  /\ UNCHANGED tuningVars

EndCycle(next) ==
  /\ tuner' = next /\ suggested' = NoSuggestion /\ got' = NoFile /\ attempt' = 0

\* Bug: a cycle without samples does not count as one.
AfterEmptyPoll == "poll"

\* A cycle without anything to write goes on as if it had written.
AfterEmpty == "read"

GetOverrides ==
  /\ tuner = "get"
  /\ IF Updated(overrides) = {} THEN EndCycle(AfterEmpty)
     ELSE tuner' = "put" /\ got' = overrides /\ UNCHANGED <<suggested, attempt>>
  /\ UNCHANGED <<stateVars, due, overrides, gui, first, row, pausedWrites, operator, cycleFailures>>

\* Bug: the version is not compared.
UnchangedSinceGetAnyway == TRUE
UnchangedSinceGet == overrides = got

PutAccepted ==
  /\ tuner = "put" /\ UnchangedSinceGet
  /\ overrides' = Merged(got) /\ EndCycle("read")
  /\ pausedWrites' = IF mode = "paused" THEN Min({2, pausedWrites + 1}) ELSE pausedWrites
  /\ UNCHANGED <<stateVars, due, gui, first, row, operator, cycleFailures>>

\* 409: a fresh GET; after the last attempt the cycle ends like any other.
PutRefused ==
  /\ tuner = "put" /\ ~UnchangedSinceGet
  /\ IF attempt < MaxPutRetries THEN tuner' = "get" /\ attempt' = attempt + 1 /\ UNCHANGED <<suggested, got>>
     ELSE EndCycle("read")
  /\ UNCHANGED <<stateVars, due, overrides, gui, first, row, pausedWrites, operator, cycleFailures>>

\* _transition_to_tuning and _update_last_tuning: SELECT, then the whole row is
\* written.
ReadState ==
  /\ tuner = "read" /\ tuner' = "write"
  /\ row' = [mode |-> IF first THEN "tuning" ELSE mode,
             pausedFrom |-> IF first THEN "none" ELSE pausedFrom]
  /\ UNCHANGED <<stateVars, due, overrides, gui, cycleVars, pausedWrites, operator, cycleFailures>>

WriteState ==
  /\ tuner = "write" /\ tuner' = "poll"
  /\ mode' = row.mode /\ pausedFrom' = row.pausedFrom /\ due' = FALSE /\ first' = FALSE /\ row' = NoRow
  /\ UNCHANGED <<windowOver, overrides, gui, suggested, got, attempt, pausedWrites, operator, cycleFailures>>

\* The api or the database does not answer; or the service starts again.
CycleFails ==
  /\ tuner # "poll" /\ cycleFailures < MaxCycleFailures /\ cycleFailures' = cycleFailures + 1
  /\ EndCycle("poll") /\ first' = FALSE /\ row' = NoRow
  /\ UNCHANGED <<stateVars, due, overrides, gui, pausedWrites, operator>>

CycleStep == BeginCycle \/ GetOverrides \/ PutAccepted \/ PutRefused \/ ReadState \/ WriteState

TuningNext ==
  \/ StartTraining \/ Pause \/ Resume \/ GuiReads \/ GuiWrites \/ TimePasses
  \/ CycleStep \/ NothingDue \/ CycleFails

TuningSpec == TuningInit /\ [][TuningNext]_tuningVars

\* The loop goes round, and time passes.
TuningFairness == WF_<<tuner, attempt>>(CycleStep) /\ WF_<<windowOver, due>>(TimePasses)

TuningFairSpec == TuningSpec /\ TuningFairness

-----------------------------------------------------------------------------
TuningTypeOK ==
  /\ mode \in {"idle", "training", "tuning", "paused"}
  /\ pausedFrom \in {"none", "idle", "training", "tuning"}
  /\ {windowOver, due, first} \subseteq BOOLEAN /\ {overrides, got} \subseteq [Params -> Entries]
  /\ gui \subseteq [Params -> Entries] /\ tuner \in {"poll", "get", "put", "read", "write"}
  /\ suggested \in [Params -> Values \cup {NoValue}] /\ attempt \in 0..MaxPutRetries
  /\ row.mode \in {"idle", "training", "tuning", "paused"} /\ pausedWrites \in 0..2

\* A threshold set by hand stays until a hand changes it, at whatever point of
\* a cycle it was set.
ManualKept ==
  [][\A p \in Params : overrides[p].src = "manual" /\ overrides'[p] # overrides[p] => gui # gui']_tuningVars

\* A cycle that a pause finds under way writes once, and none begins.
OneWriteAfterPause == pausedWrites <= 1

\* Outside the first cycle a threshold moves at most by the limits, between one
\* file and the next, against whichever file the merge was made.
StepsLimited ==
  [][\A p \in Params : ~first /\ operator' = operator /\ overrides[p].src = "ml" /\ overrides'[p].src = "ml" =>
       overrides'[p] = overrides[p] \/
       LET old == overrides[p].value
           new == overrides'[p].value
       IN new >= Min({old, (old * (100 - MaxDown)) \div 100}) /\ 100 * new <= old * (100 + MaxUp)]_tuningVars

\* The tuner writes at most once after a pause, keeps a threshold set by hand,
\* and moves one by a bounded step.
RuleTuningOK == [](TuningTypeOK /\ OneWriteAfterPause) /\ ManualKept /\ StepsLimited

\* A training that nobody touches comes to its end.
TrainingEnds == []<>(mode # "training" \/ ~windowOver)

\* tuner.py:7, 14: a pause lasts until the operator ends it, the tuner itself
\* only takes training to tuning.
PauseLasts ==
  [][mode = "paused" /\ mode' # "paused" => operator' # operator]_tuningVars

=============================================================================
