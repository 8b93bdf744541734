------------------------------ MODULE MlConfig ------------------------------
(***************************************************************************)
(* ml_config.json: the threshold of the anomaly engine and who set it.     *)
(* The api (routers/ml.py) patches it for an operator, training-loop       *)
(* (trainer.py) calibrates the threshold after a training and ml-engine    *)
(* (main.py) once when it starts, each by reading the file, changing what  *)
(* it has read and writing it back.  The api writes the file in place, the *)
(* others write another and rename it.  A reader that finds the file cut   *)
(* short takes it for empty.                                               *)
(*                                                                         *)
(* A threshold is known by the write that set it, a number; 0 is that of   *)
(* the code.  The lock is threshold_source = "manual".                     *)
(***************************************************************************)
EXTENDS Integers

CONSTANTS MaxPatches, MaxCalibrations   \* bounds

ConfigAssumption == {MaxPatches, MaxCalibrations} \subseteq Nat

Writers == {"trainer", "engine"}
Thresholds == 0..(MaxPatches + MaxCalibrations)
Defaults == [threshold |-> 0, manual |-> FALSE]
Configs == [threshold : Thresholds, manual : BOOLEAN]

VARIABLES
  file,      \* what the file says
  torn,      \* the api has emptied it and not written yet
  renamed,   \* it was replaced since: what the api writes goes nowhere
  api,       \* pc of a PATCH, what it read, what it asks for
  cal,       \* writer -> pc of its calibration, what it read
  used,      \* the threshold the engine compares scores with
  sets,      \* thresholds set so far
  patches, calibrations,
  wanted,    \* the threshold the last finished PATCH locked, or 0 (history)
  mixed      \* a PATCH overlapped a calibration (history)

configVars == <<file, torn, renamed, api, cal, used, sets, patches, calibrations, wanted, mixed>>

NoPatch == [pc |-> "idle", got |-> Defaults, lock |-> FALSE]
NoCalibration == [pc |-> "idle", got |-> Defaults]

ConfigInit ==
  /\ file = Defaults /\ torn = FALSE /\ renamed = FALSE
  /\ api = NoPatch /\ cal = [w \in Writers |-> NoCalibration]
  /\ used = 0 /\ sets = 0 /\ patches = 0 /\ calibrations = 0 /\ wanted = 0 /\ mixed = FALSE

Calibrating == \E w \in Writers : cal[w].pc # "idle"
Patching == api.pc # "idle"

\* A file that is not JSON, or not there, counts as the defaults.
Read == IF torn THEN Defaults ELSE file

-----------------------------------------------------------------------------
(* update_ml_config: read, empty, write.                                   *)

\* The operator sets a threshold, which locks it, or gives it back.
BeginPatch ==
  /\ ~Patching /\ patches < MaxPatches /\ patches' = patches + 1
  /\ \E lock \in BOOLEAN : api' = [pc |-> "empty", got |-> Read, lock |-> lock]
  /\ mixed' = (mixed \/ Calibrating)
  /\ UNCHANGED <<file, torn, renamed, cal, used, sets, calibrations, wanted>>

EmptyFile ==
  /\ api.pc = "empty" /\ api' = [api EXCEPT !.pc = "write"]
  /\ torn' = TRUE /\ renamed' = FALSE
  /\ UNCHANGED <<file, cal, used, sets, patches, calibrations, wanted, mixed>>

Patched ==
  IF api.lock THEN [threshold |-> sets + 1, manual |-> TRUE]
              ELSE [api.got EXCEPT !.manual = FALSE]

WriteFile ==
  /\ api.pc = "write" /\ api' = NoPatch
  /\ sets' = IF api.lock THEN sets + 1 ELSE sets
  /\ wanted' = IF api.lock THEN sets + 1 ELSE 0
  /\ file' = IF renamed THEN file ELSE Patched
  /\ torn' = FALSE /\ renamed' = FALSE
  /\ UNCHANGED <<cal, used, patches, calibrations, mixed>>

-----------------------------------------------------------------------------
(* _calibrate_and_persist_threshold and _calibrate_startup.                *)

\* Bug: the lock is not looked at.
MayCalibrateAlways(config) == TRUE

\* A threshold an operator has set is left alone.
MayCalibrate(config) == ~config.manual

BeginCalibration(w) ==
  /\ cal[w].pc = "idle" /\ calibrations < MaxCalibrations /\ calibrations' = calibrations + 1
  /\ MayCalibrate(Read)
  /\ cal' = [cal EXCEPT ![w] = [pc |-> "read", got |-> Read]]
  /\ mixed' = (mixed \/ Patching)
  /\ UNCHANGED <<file, torn, renamed, api, used, sets, patches, wanted>>

\* The engine reads the file again before it changes it, the lock it does not
\* ask for again; the trainer changes what it has read.
ReadAgain(w) ==
  /\ cal[w].pc = "read"
  /\ cal' = [cal EXCEPT ![w] = [pc |-> "rename", got |-> IF w = "engine" THEN Read ELSE @.got]]
  /\ UNCHANGED <<file, torn, renamed, api, used, sets, patches, calibrations, wanted, mixed>>

\* Too few samples, or an exception: nothing is written.
GiveUpCalibration(w) ==
  /\ cal[w].pc = "read" /\ cal' = [cal EXCEPT ![w] = NoCalibration]
  /\ UNCHANGED <<file, torn, renamed, api, used, sets, patches, calibrations, wanted, mixed>>

Rename(w) ==
  /\ cal[w].pc = "rename"
  /\ sets' = sets + 1
  /\ file' = [cal[w].got EXCEPT !.threshold = sets + 1, !.manual = FALSE]
  /\ torn' = FALSE /\ renamed' = torn
  /\ cal' = [cal EXCEPT ![w] = NoCalibration]
  /\ UNCHANGED <<api, used, patches, calibrations, wanted, mixed>>

-----------------------------------------------------------------------------
(* ml-engine.                                                              *)

\* Bug: the threshold of the start stays.
PolledNever == used

\* Every CONFIG_POLL_FLOWS flows.
Polled == Read.threshold

PollConfig == used' = Polled /\ UNCHANGED <<file, torn, renamed, api, cal, sets, patches, calibrations, wanted, mixed>>

ConfigNext ==
  \/ BeginPatch \/ EmptyFile \/ WriteFile
  \/ \E w \in Writers : BeginCalibration(w) \/ ReadAgain(w) \/ GiveUpCalibration(w) \/ Rename(w)
  \/ PollConfig

ConfigSpec == ConfigInit /\ [][ConfigNext]_configVars

\* Flows keep coming, and a PATCH that is begun is finished.
ApiWrites == EmptyFile \/ WriteFile
ConfigFairness == WF_configVars(PollConfig) /\ WF_api(ApiWrites)

ConfigFairSpec == ConfigSpec /\ ConfigFairness

-----------------------------------------------------------------------------
ConfigTypeOK ==
  /\ file \in Configs /\ {torn, renamed, mixed} \subseteq BOOLEAN
  /\ api.pc \in {"idle", "empty", "write"} /\ api.got \in Configs
  /\ \A w \in Writers : cal[w].pc \in {"idle", "read", "rename"} /\ cal[w].got \in Configs
  /\ {used, sets, wanted} \subseteq Thresholds

\* A threshold an operator has set stays, through trainings and restarts, as
\* long as no PATCH fell into the middle of a calibration or the reverse.
LockHeldApart ==
  ~mixed /\ ~Patching /\ wanted # 0 => file = [threshold |-> wanted, manual |-> TRUE] /\ ~torn

\* Nobody takes from the operator the threshold that was set, unless they cross.
MlConfigOK == ConfigTypeOK /\ LockHeldApart

\* The engine comes to use a threshold that is not changed any more.
ThresholdUsed == \A t \in Thresholds : <>[](file.threshold = t) => <>[](used = t)

\* trainer.py:54-56: a manual threshold is not overwritten.
LockHeld == ~Patching /\ wanted # 0 => file.threshold = wanted

=============================================================================
