---------------------------- MODULE AnomalyModel ----------------------------
(***************************************************************************)
(* The anomaly model on the volume /models, which two processes write:     *)
(* training-loop (main.py, trainer.py, db.py) trains a scaler and a forest *)
(* anew and renames both into place; ml-engine (main.py, model.py) scores  *)
(* flows with the pair it has loaded, adapts the scaler, and saves the     *)
(* pair in place every so many flows and when it stops.  A save looks at   *)
(* the modification time of the forest first, and loads what is newer.     *)
(*                                                                         *)
(* A pair is known by the training that made it, a number; 0 is no file    *)
(* and Torn one whose writing a crash cut off.  Adapting the scaler keeps  *)
(* the number.  Time is a count of the writes, as modification times tell  *)
(* no more apart.  Thresholds and their configuration are in MlConfig.     *)
(***************************************************************************)
EXTENDS Integers

CONSTANTS
  MinNew,                  \* labelled samples that a training waits for (50)
  MaxTrainings,            \* bounds: trainings,
  MaxWrites,               \*   files written, crashes of the engine,
  MaxCrashes, MaxClicks, MaxMarks  \*   requests for a training, alerts marked

ModelAssumption ==
  /\ MinNew \in Nat \ {0}
  /\ {MaxTrainings, MaxWrites, MaxCrashes, MaxClicks, MaxMarks} \subseteq Nat

Trainings == 0..MaxTrainings
Torn == -1

VARIABLES
  disk,       \* scaler and forest on the volume, the time the forest was written
  written,    \* files written so far: the clock
  trained,    \* trainings so far
  engine,     \* ml-engine: pc, scaler, forest and its time, whether it saves, is to stop
  trainer,    \* training-loop: pc, training in its temporary files, their time
  due,        \* the interval since the last training is over
  first,      \* this process has trained, or skipped, once
  retrain,    \* retrain.trigger is there
  marked,     \* alerts marked by an analyst, not yet taken from the topic
  samples,    \* rows of training_samples
  fresh,      \* those the loop counts as new
  clicks, crashes,
  newest,     \* the newest training that was wholly published (history)
  disturbed   \* a publication overlapped a save or a load, or a crash fell
              \* between the two files of either (history)

modelVars == <<disk, written, trained, engine, trainer, due, first, retrain, marked,
               samples, fresh, clicks, crashes, newest, disturbed>>
trainVars == <<trained, trainer, due, first, retrain, marked, samples, fresh, clicks>>
engineVars == <<disk, written, engine, crashes, newest>>

NoModel == [scaler |-> 0, forest |-> 0, time |-> 0]
Off == [pc |-> "off", scaler |-> 0, forest |-> 0, time |-> 0,
        saving |-> FALSE, stop |-> FALSE]
IdleTrainer == [pc |-> "wait", id |-> 0, time |-> 0]

ModelInit ==
  /\ disk = NoModel /\ written = 0 /\ trained = 0
  /\ engine = Off /\ trainer = IdleTrainer
  /\ due = TRUE /\ first = FALSE /\ retrain = FALSE
  /\ marked = 0 /\ samples = 0 /\ fresh = 0 /\ clicks = 0 /\ crashes = 0
  /\ newest = 0 /\ disturbed = FALSE

EngineBusy == engine.pc \notin {"off", "score"}
Publishing == trainer.pc \in {"rename", "renameForest"}

-----------------------------------------------------------------------------
(* training-loop: the collector.                                           *)

\* PATCH /alerts/{id}/feedback puts the verdict on the topic.
Mark ==
  /\ marked < MaxMarks /\ marked' = marked + 1
  /\ UNCHANGED <<engineVars, trained, trainer, due, first, retrain, samples, fresh, clicks, disturbed>>

\* The table takes no row without a flow_id (001_initial.sql:161), and the
\* INSERT names none: three times it fails, and the sample is given up.
RowAccepted == FALSE

Collect ==
  /\ marked > 0 /\ marked' = marked - 1
  /\ IF RowAccepted /\ fresh < MaxMarks
       THEN samples' = samples + 1 /\ fresh' = fresh + 1
       ELSE UNCHANGED <<samples, fresh>>
  /\ UNCHANGED <<engineVars, trained, trainer, due, first, retrain, clicks, disturbed>>

-----------------------------------------------------------------------------
(* training-loop: the loop.                                                *)

IntervalPasses ==
  /\ ~due /\ due' = TRUE
  /\ UNCHANGED <<engineVars, trained, trainer, first, retrain, marked, samples, fresh, clicks, disturbed>>

\* POST /ml/retrain, or a change of the contamination.
Click ==
  /\ clicks < MaxClicks /\ clicks' = clicks + 1 /\ retrain' = TRUE
  /\ UNCHANGED <<engineVars, trained, trainer, due, first, marked, samples, fresh, disturbed>>

TrainerAt(pc) == trainer.pc = pc

\* The minute's look, which gets past the interval only when it is over.
\* Too few new samples: the interval starts again, and with it their count.
Skip ==
  /\ TrainerAt("wait") /\ due /\ ~retrain /\ fresh < MinNew /\ first
  /\ due' = FALSE /\ fresh' = 0
  /\ UNCHANGED <<engineVars, trained, trainer, first, retrain, marked, samples, clicks, disturbed>>

\* Bug: retrain.trigger stays.
TriggerTakenKept == retrain

\* The request is taken, whatever comes of it.
TriggerTaken == FALSE

Train ==
  /\ TrainerAt("wait") /\ due /\ (retrain \/ fresh >= MinNew \/ ~first)
  /\ retrain' = TriggerTaken
  /\ trainer' = [trainer EXCEPT !.pc = "train"]
  /\ UNCHANGED <<engineVars, trained, due, first, marked, samples, fresh, clicks, disturbed>>

\* No normal flow in the database, or an exception: it is tried again in a minute.
TrainFails ==
  /\ TrainerAt("train") /\ trainer' = IdleTrainer
  /\ UNCHANGED <<engineVars, trained, due, first, retrain, marked, samples, fresh, clicks, disturbed>>

\* Both files are dumped beside the old ones; the forest's time is this time.
DumpTemporary ==
  /\ TrainerAt("train") /\ trained < MaxTrainings /\ written < MaxWrites
  /\ trained' = trained + 1 /\ written' = written + 1
  /\ trainer' = [pc |-> "rename", id |-> trained + 1, time |-> written + 1]
  /\ disturbed' = (disturbed \/ EngineBusy)
  /\ UNCHANGED <<disk, engine, crashes, newest, due, first, retrain, marked, samples, fresh, clicks>>

RenameScaler ==
  /\ TrainerAt("rename")
  /\ disk' = [disk EXCEPT !.scaler = trainer.id]
  /\ trainer' = [trainer EXCEPT !.pc = "renameForest"]
  /\ UNCHANGED <<written, engine, crashes, newest, trained, due, first, retrain, marked, samples, fresh, clicks, disturbed>>

\* A renamed file keeps the time it was dumped at.
RenameForest ==
  /\ TrainerAt("renameForest")
  /\ disk' = [disk EXCEPT !.forest = trainer.id, !.time = trainer.time]
  /\ trainer' = IdleTrainer /\ due' = FALSE /\ first' = TRUE /\ fresh' = 0 /\ newest' = trainer.id
  /\ UNCHANGED <<written, engine, crashes, trained, retrain, marked, samples, clicks, disturbed>>

\* A restart forgets when it trained last, and trains at once.
TrainerRestarts ==
  /\ crashes < MaxCrashes /\ crashes' = crashes + 1
  /\ trainer' = IdleTrainer /\ due' = TRUE /\ first' = FALSE /\ fresh' = samples
  /\ disturbed' = (disturbed \/ TrainerAt("renameForest"))
  /\ UNCHANGED <<disk, written, engine, newest, trained, retrain, marked, samples, clicks>>

-----------------------------------------------------------------------------
(* ml-engine.                                                              *)

EngineAt(pc) == engine.pc = pc

\* A step of the engine on the disk, while the trainer may be publishing.
Touches == disturbed' = (disturbed \/ Publishing)

Ready == engine.forest > 0

\* Both files are there: they are loaded, the scaler first.
StartLoading ==
  /\ EngineAt("off") /\ disk.scaler # 0 /\ disk.forest # 0
  /\ engine' = [Off EXCEPT !.pc = "loadScaler"]
  /\ Touches /\ UNCHANGED <<disk, written, crashes, newest, trainVars>>

\* Without a model the engine trains one from the database and saves it, or,
\* if there are no flows, lets everything pass.
StartWithout ==
  /\ EngineAt("off") /\ (disk.scaler = 0 \/ disk.forest = 0)
  /\ engine' = [Off EXCEPT !.pc = "bootstrap"]
  /\ Touches /\ UNCHANGED <<disk, written, crashes, newest, trainVars>>

Bootstrap ==
  /\ EngineAt("bootstrap")
  /\ \/ /\ trained < MaxTrainings /\ trained' = trained + 1
        /\ engine' = [engine EXCEPT !.pc = "dumpScaler", !.scaler = trained + 1, !.forest = trained + 1]
     \/ engine' = [engine EXCEPT !.pc = "score"] /\ UNCHANGED trained
  /\ Touches
  /\ UNCHANGED <<disk, written, crashes, newest, trainer, due, first, retrain, marked, samples, fresh, clicks>>

\* What follows a load: scoring after the start, writing in a save.
AfterLoad == IF engine.saving THEN "dumpScaler" ELSE "score"

\* A file that cannot be read: at the start a new model is trained, and a save
\* writes what there is.
Unreadable == IF engine.saving THEN "dumpScaler" ELSE "bootstrap"

LoadScaler ==
  /\ EngineAt("loadScaler")
  /\ engine' = IF disk.scaler = Torn THEN [engine EXCEPT !.pc = Unreadable]
               ELSE [engine EXCEPT !.pc = "loadForest", !.scaler = disk.scaler]
  /\ Touches /\ UNCHANGED <<disk, written, crashes, newest, trainVars>>

LoadForest ==
  /\ EngineAt("loadForest")
  /\ engine' = IF disk.forest = Torn THEN [engine EXCEPT !.pc = Unreadable]
               ELSE [engine EXCEPT !.pc = "stat", !.forest = disk.forest]
  /\ Touches /\ UNCHANGED <<disk, written, crashes, newest, trainVars>>

\* The time is read after the file.
Stat ==
  /\ EngineAt("stat")
  /\ engine' = [engine EXCEPT !.pc = AfterLoad, !.time = disk.time]
  /\ Touches /\ UNCHANGED <<disk, written, crashes, newest, trainVars>>

\* Bug: what is on the disk is not looked at.
NewerOnDiskIgnored == FALSE

NewerOnDisk == disk.forest # 0 /\ disk.time > engine.time

\* SAVE_INTERVAL flows are scored, or the engine is stopped.
BeginSave ==
  /\ EngineAt("score") /\ Ready
  /\ \E stop \in BOOLEAN :
       engine' = [engine EXCEPT !.stop = stop, !.saving = TRUE,
                                !.pc = IF NewerOnDisk THEN "loadScaler" ELSE "dumpScaler"]
  /\ Touches /\ UNCHANGED <<disk, written, crashes, newest, trainVars>>

\* Nothing to save.
StopWithout ==
  /\ EngineAt("score") /\ ~Ready /\ engine' = Off
  /\ Touches /\ UNCHANGED <<disk, written, crashes, newest, trainVars>>

DumpScaler ==
  /\ EngineAt("dumpScaler") /\ written < MaxWrites
  /\ written' = written + 1
  /\ disk' = [disk EXCEPT !.scaler = engine.scaler]
  /\ engine' = [engine EXCEPT !.pc = "dumpForest"]
  /\ Touches /\ UNCHANGED <<crashes, newest, trainVars>>

DumpForest ==
  /\ EngineAt("dumpForest") /\ written < MaxWrites
  /\ written' = written + 1
  /\ disk' = [disk EXCEPT !.forest = engine.forest, !.time = written + 1]
  /\ engine' = [engine EXCEPT !.pc = "noteTime"]
  /\ newest' = IF engine.forest > newest THEN engine.forest ELSE newest
  /\ Touches /\ UNCHANGED <<crashes, trainVars>>

\* The time of the file as it is now.
NoteTime ==
  /\ EngineAt("noteTime")
  /\ engine' = IF engine.stop THEN Off
               ELSE [engine EXCEPT !.pc = "score", !.time = disk.time, !.saving = FALSE]
  /\ Touches /\ UNCHANGED <<disk, written, crashes, newest, trainVars>>

\* A crash leaves the file torn that was being written in place.
Crash ==
  /\ engine.pc # "off" /\ crashes < MaxCrashes /\ crashes' = crashes + 1
  /\ engine' = Off
  /\ \/ UNCHANGED disk
     \/ EngineAt("dumpScaler") /\ disk' = [disk EXCEPT !.scaler = Torn]
     \/ EngineAt("dumpForest") /\ disk' = [disk EXCEPT !.forest = Torn]
  /\ disturbed' = (disturbed \/ EngineAt("dumpForest"))
  /\ UNCHANGED <<written, newest, trainVars>>

EngineStep ==
  \/ StartLoading \/ StartWithout \/ Bootstrap \/ LoadScaler \/ LoadForest \/ Stat
  \/ DumpScaler \/ DumpForest \/ NoteTime

TrainerStep == Skip \/ Train \/ TrainFails \/ DumpTemporary \/ RenameScaler \/ RenameForest

ModelNext ==
  \/ Mark \/ Collect \/ IntervalPasses \/ Click \/ TrainerStep \/ TrainerRestarts
  \/ EngineStep \/ BeginSave \/ StopWithout \/ Crash

ModelSpec == ModelInit /\ [][ModelNext]_modelVars

\* The loop looks every minute, the consumer polls, and a started engine works.
ModelFairness ==
  /\ WF_modelVars(TrainerStep) /\ WF_modelVars(IntervalPasses) /\ WF_modelVars(Collect)
  /\ WF_modelVars(EngineStep) /\ WF_modelVars(BeginSave)

ModelFairSpec == ModelSpec /\ ModelFairness

-----------------------------------------------------------------------------
ModelTypeOK ==
  /\ disk.scaler \in Trainings \cup {Torn} /\ disk.forest \in Trainings \cup {Torn}
  /\ {disk.time, written, engine.time, trainer.time} \subseteq 0..MaxWrites
  /\ {trained, newest, engine.scaler, engine.forest, trainer.id} \subseteq Trainings
  /\ {marked, samples, fresh} \subseteq 0..MaxMarks
  /\ {due, first, retrain, disturbed, engine.stop, engine.saving} \subseteq BOOLEAN

\* The check of the modification time (model.py:258-262) does what it is for:
\* while no training is published in the middle of a save or a load, the pair
\* on the volume is that of the newest training, and flows are scored with a
\* pair trained together, however the saves, restarts and crashes fall.
TrainingTakesEffect ==
  ~disturbed /\ ~Publishing /\ ~EngineBusy =>
    /\ disk.scaler > 0 /\ disk.forest > 0 => disk.scaler = newest /\ disk.forest = newest
    /\ Ready => engine.scaler = engine.forest

\* A finished training is what is kept and scored with, unless its publication was
\* disturbed.
AnomalyModelOK == ModelTypeOK /\ TrainingTakesEffect

\* A training that is asked for is attempted, whatever else the loop does.
RequestTaken == []<>~retrain

\* docs/ML_ENGINE.md:213: all flows pass until there is enough data.
PassthroughEnds == (disk.scaler > 0 /\ disk.forest > 0 ~> Ready)

\* main.py:6: what an analyst marks becomes a sample.
FeedbackBecomesSample == (marked > 0 ~> samples > 0)

=============================================================================
