---------------------------- MODULE OfflineUpdate ----------------------------
(***************************************************************************)
(* The offline update of the master (api routers/update.py): the upload of *)
(* a release ZIP, and the background task that unpacks it over /opt/ids,   *)
(* loads its images into docker and starts a container of its own that     *)
(* recreates the stack, the api included.  Beside it the refresh of the    *)
(* bundle the taps fetch (routers/tap_update.py).                          *)
(*                                                                         *)
(* The api is one event loop: between two awaits a handler is one step.    *)
(* _validate_bundle refuses a ZIP without images, so that the path that    *)
(* builds them from source is never taken.  An image is its version.       *)
(***************************************************************************)
EXTENDS Integers, FiniteSets

CONSTANTS
  Uploads,       \* the uploads that are made
  MaxVersion,    \* releases 1..MaxVersion, 1 is installed
  MaxUpdateMishaps     \* bound on failures and restarts

UpdateAssumption ==
  /\ IsFiniteSet(Uploads) /\ MaxVersion \in Nat \ {0} /\ MaxUpdateMishaps \in Nat

Versions == 1..MaxVersion

VARIABLES
  phase,      \* _state["phase"]
  stage,      \* upload -> where its handler or its task stands
  release,    \* upload -> the version in the ZIP
  zips,       \* uploads whose temporary file exists
  version,    \* the VERSION file
  images,     \* the version docker has loaded
  running,    \* the version the containers run
  runner,     \* "none", "update" or "restart": the container that runs compose
  refreshing, \* tap_update.py: _state["running"]
  refreshes,  \* scripts that run
  leaked,     \* uploads whose file was left by a handler or a restart (history)
  updateMishaps

updateVars == <<phase, stage, release, zips, version, images, running, runner, refreshing,
                refreshes, leaked, updateMishaps>>
dockerVars == <<version, images, running, runner>>
refreshVars == <<refreshing, refreshes>>

Free == {"idle", "done", "error"}

UpdateInit ==
  /\ phase = "idle" /\ stage = [u \in Uploads |-> "none"] /\ release \in [Uploads -> Versions]
  /\ zips = {} /\ version = 1 /\ images = 1 /\ running = 1 /\ runner = "none"
  /\ refreshing = FALSE /\ refreshes = 0 /\ leaked = {} /\ updateMishaps = 0

Goes(u, s) == stage' = [stage EXCEPT ![u] = s]
Mishap == updateMishaps < MaxUpdateMishaps /\ updateMishaps' = updateMishaps + 1

-----------------------------------------------------------------------------
(* start_update.                                                           *)

\* The state is asked before the file is copied, 1 MB at a time.
BeginUpload(u) ==
  /\ stage[u] = "none" /\ phase \in Free
  /\ Goes(u, "copying") /\ zips' = zips \cup {u}
  /\ UNCHANGED <<phase, release, dockerVars, refreshVars, leaked, updateMishaps>>

\* The disk is full: the copy stands outside the try that removes it.
CopyFails(u) ==
  /\ stage[u] = "copying" /\ Mishap
  /\ Goes(u, "refused") /\ leaked' = leaked \cup {u}
  /\ UNCHANGED <<phase, release, zips, dockerVars, refreshVars>>

\* Neither an older release nor the installed one, unless forced.
MayInstall(u, force) == force \/ release[u] > version

Validate(u) ==
  /\ stage[u] = "copying"
  /\ \E force \in BOOLEAN :
       IF MayInstall(u, force) THEN Goes(u, "scheduled") /\ UNCHANGED zips
       ELSE Goes(u, "refused") /\ zips' = zips \ {u}
  /\ UNCHANGED <<phase, release, dockerVars, refreshVars, leaked, updateMishaps>>

-----------------------------------------------------------------------------
(* _run_update, after the answer is sent.                                  *)

BeginUpdate(u) ==
  /\ stage[u] = "scheduled" /\ Goes(u, "extracting") /\ phase' = "extracting"
  /\ UNCHANGED <<release, zips, dockerVars, refreshVars, leaked, updateMishaps>>

\* _extract: VERSION is one of the files.
Extract(u) ==
  /\ stage[u] = "extracting" /\ Goes(u, "loading") /\ phase' = "loading"
  /\ version' = release[u]
  /\ UNCHANGED <<release, zips, images, running, runner, refreshVars, leaked, updateMishaps>>

LoadImages(u) ==
  /\ stage[u] = "loading" /\ Goes(u, "spawning") /\ images' = release[u]
  /\ UNCHANGED <<phase, release, zips, version, running, runner, refreshVars, leaked, updateMishaps>>

\* Bug: the file is removed in the error path only.
RemainingKept(u) == zips

\* The finally removes the upload.
Remaining(u) == zips \ {u}

\* "done" is written first, the runner may stop this process; its container has
\* a fixed name, so that a second one is not started while the first runs.
Finish(u) ==
  /\ stage[u] = "spawning" /\ Goes(u, "ended") /\ phase' = "done" /\ zips' = Remaining(u)
  /\ runner' = IF runner = "none" THEN "update" ELSE runner
  /\ UNCHANGED <<release, version, images, running, refreshVars, leaked, updateMishaps>>

\* Bug: the failure is logged and the phase stays.
FailedPhaseKept == phase
FailedPhase == "error"

\* Unpacking or docker load fails; VERSION may have been unpacked already.
UpdateFails(u) ==
  /\ stage[u] \in {"extracting", "loading"} /\ Mishap
  /\ Goes(u, "ended") /\ phase' = FailedPhase /\ zips' = Remaining(u)
  /\ version' \in IF stage[u] = "extracting" THEN {version, release[u]} ELSE {version}
  /\ UNCHANGED <<release, images, running, runner, refreshVars, leaked>>

-----------------------------------------------------------------------------
(* The runners.                                                            *)

\* The api's process ends, with every handler and task in it.
Killed ==
  /\ phase' = "idle" /\ refreshing' = FALSE /\ refreshes' = 0
  /\ stage' = [u \in Uploads |-> IF stage[u] \in {"none", "refused"} THEN stage[u] ELSE "ended"]

\* compose up --force-recreate: new containers, without the files of the old.
Recreate ==
  /\ runner = "update" /\ runner' = "none" /\ running' = images
  /\ Killed /\ zips' = {} /\ leaked' = {}
  /\ UNCHANGED <<release, version, images, updateMishaps>>

\* restart_stack.
RequestRestart ==
  /\ phase \in Free /\ runner = "none" /\ Mishap /\ runner' = "restart"
  /\ UNCHANGED <<phase, stage, release, zips, version, images, running, refreshVars, leaked>>

\* compose restart: the same containers, with their files.
Restart ==
  /\ runner = "restart" /\ runner' = "none"
  /\ Killed /\ leaked' = zips
  /\ UNCHANGED <<release, zips, version, images, running, updateMishaps>>

-----------------------------------------------------------------------------
(* trigger_refresh and _run_refresh.                                       *)

\* Bug: the flag is set by the task.
TakenLater == refreshing
Taken == TRUE

\* Asked and set between two awaits.
BeginRefresh ==
  /\ ~refreshing /\ refreshes < 2 /\ refreshing' = Taken /\ refreshes' = refreshes + 1
  /\ UNCHANGED <<phase, stage, release, zips, dockerVars, leaked, updateMishaps>>

\* The script ends, with whatever result.
EndRefresh ==
  /\ refreshes > 0 /\ refreshes' = refreshes - 1 /\ refreshing' = FALSE
  /\ UNCHANGED <<phase, stage, release, zips, dockerVars, leaked, updateMishaps>>

TaskStep(u) == BeginUpdate(u) \/ Extract(u) \/ LoadImages(u) \/ Finish(u)
UploadStep(u) == BeginUpload(u) \/ CopyFails(u) \/ Validate(u) \/ TaskStep(u) \/ UpdateFails(u)

UpdateNext ==
  \/ \E u \in Uploads : UploadStep(u)
  \/ Recreate \/ RequestRestart \/ Restart \/ BeginRefresh \/ EndRefresh

UpdateSpec == UpdateInit /\ [][UpdateNext]_updateVars

\* Tasks run, and so do runners and scripts.
RunnerStep == Recreate \/ Restart

UpdateFairness ==
  /\ \A u \in Uploads : WF_stage(TaskStep(u))
  /\ WF_runner(RunnerStep) /\ WF_refreshes(EndRefresh)

UpdateFairSpec == UpdateSpec /\ UpdateFairness

-----------------------------------------------------------------------------
UpdateTypeOK ==
  /\ phase \in Free \cup {"extracting", "loading"}
  /\ stage \in [Uploads -> {"none", "copying", "refused", "scheduled", "extracting", "loading",
                            "spawning", "ended"}]
  /\ zips \subseteq Uploads /\ {version, images, running} \subseteq Versions
  /\ runner \in {"none", "update", "restart"} /\ refreshing \in BOOLEAN /\ refreshes \in 0..2

\* The space an upload takes, 1.5 GB, is given back in every path: of an upload
\* that is over no file is left, but for a copy that failed and a stack restart.
ZipsRemoved == \A u \in zips : stage[u] \in {"refused", "ended"} => u \in leaked

\* Whatever fails or is restarted, and however updates overlap, the phase comes
\* back to one in which the next update is accepted; and with none running the
\* refresh too.
UpdatesEnd == []<>(phase \in Free)

\* tap_update.py:33: no two refreshes at a time.
OneRefresh == refreshes <= 1

\* No space is lost to an upload that is over, and no two refreshes run at once.
OfflineUpdateOK == UpdateTypeOK /\ ZipsRemoved /\ OneRefresh

\* update.py:447, "Ein Update läuft bereits": no two updates at a time.
OneUpdate == Cardinality({u \in Uploads : stage[u] \in {"extracting", "loading", "spawning"}}) <= 1

\* update.py:441: VERSION does not claim a release whose images are older.
VersionTellsImages ==
  (\A u \in Uploads : stage[u] \in {"none", "refused", "ended"}) => version = images

=============================================================================
