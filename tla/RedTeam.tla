------------------------------ MODULE RedTeam ------------------------------
(***************************************************************************)
(* The redteam orchestrator of a lab: it keeps test scenarios in three     *)
(* directories, registers them in the database, plays one of them (or a    *)
(* tool) from the kali container over a veth pair and asks the api whether *)
(* the expected alert has come up.                                         *)
(*                                                                         *)
(* There is one scenario id.  Each directory holds a version of its file:  *)
(* the builtin template of the image, an imported one, or the call that    *)
(* generated it; a file being copied is Torn.  Every call of the REST      *)
(* interface or of the MCP interface is one element of Calls; each         *)
(* interface has an executor, with a lock, of its own.  Time is counted in *)
(* units of the tolerance the alert search looks back.  The entries of     *)
(* redteam_audit_log, which nothing reads back, are left out.              *)
(***************************************************************************)
EXTENDS Integers, FiniteSets, FiniteSetsExt

CONSTANTS Calls,       \* the calls of one behaviour
          Imported,    \* the versions pattern bundles bring
          Tolerance,   \* how far before its start the alert search looks
          Polls,       \* the number of times the api is asked
          Dedup,       \* the alert-manager drops a repetition this long
          MaxTime, MaxMishaps

ASSUME RedTeamAssumption ==
    /\ IsFiniteSet(Calls)
    /\ {"template", "none", "torn", "nobody"} \cap (Imported \cup Calls) = {}
    /\ Imported \cap Calls = {}
    /\ {Tolerance, Dedup, MaxTime, MaxMishaps} \subseteq Nat
    /\ Polls \in Nat \ {0}

VARIABLES phase,      \* "down", "seed", "copy", "register", "serving"
          unregistered, \* the directories the start has still to register
          generated, template, imported,   \* the three files
          row,        \* the row of the scenario in redteam_scenarios
          call,       \* the calls, by element of Calls
          holder,     \* who holds the lock of each executor
          inKali,     \* the calls whose runner is at work in the container
          veth,       \* whether the veth is in the container
          now,
          alerts,     \* the alerts of the expected rule: [at, by]
          visible,    \* those the api answers with
          results,    \* the rows of redteam_results
          mishaps

files == <<generated, template, imported>>
vars == <<phase, unregistered, files, row, call, holder, inKali, veth, now,
          alerts, visible, results, mishaps>>

None == "none"
Torn == "torn"
Nobody == "nobody"
Versions == {"template"} \cup Imported \cup Calls
File == Versions \cup {None, Torn}
Interfaces == {"rest", "mcp"}

Idle == [op |-> "none", via |-> "rest", iface |-> TRUE, pc |-> "idle",
         version |-> None, expects |-> FALSE, sent |-> 0, since |-> 0,
         left |-> 0, known |-> FALSE, matched |-> FALSE]

Ended(pc) == [Idle EXCEPT !.pc = pc]

RedTeamInit ==
    /\ phase = "down" /\ unregistered = {}
    /\ generated = None /\ template = None
    /\ imported = None
    /\ row = [version |-> None, enabled |-> FALSE]
    /\ call = [c \in Calls |-> Idle]
    /\ holder = [i \in Interfaces |-> Nobody]
    /\ inKali = {} /\ veth = FALSE
    /\ now = 0 /\ alerts = {} /\ visible = {}
    /\ results = {} /\ mishaps = 0

(***************************************************************************)
(* The start: lifespan sets up the veth pair, copies the builtin templates *)
(* and registers the files of all three directories.                       *)
(***************************************************************************)
\* The Docker daemon starts the orchestrator.
Start ==
    /\ phase = "down"
    /\ phase' = "seed" /\ veth' \in {veth, TRUE}
    /\ UNCHANGED <<unregistered, files, row, call, holder, inKali, now, alerts,
                   visible, results, mishaps>>

BeginCopy ==
    /\ phase = "seed"
    /\ phase' = "copy" /\ template' = Torn
    /\ UNCHANGED <<unregistered, generated, imported, row, call, holder, inKali,
                   veth, now, alerts, visible, results, mishaps>>

EndCopy ==
    /\ phase = "copy"
    /\ phase' = "register" /\ template' = "template"
    /\ unregistered' = {"templates", "generated", "imported"}
    /\ UNCHANGED <<generated, imported, row, call, holder, inKali, veth, now,
                   alerts, visible, results, mishaps>>

FileIn(directory) ==
    CASE directory = "templates" -> template
      [] directory = "generated" -> generated
      [] directory = "imported"  -> imported

\* list_all_scenarios: templates, then generated, then imported.
NextDirectory ==
    IF "templates" \in unregistered THEN "templates"
    ELSE IF "generated" \in unregistered THEN "generated" ELSE "imported"

Enabled(version) == [version |-> version, enabled |-> TRUE]

\* A failing database only costs the row: register_scenario logs and returns.
RegisterAtStart(ok) ==
    /\ phase = "register" /\ unregistered # {}
    /\ ok \/ mishaps < MaxMishaps
    /\ unregistered' = unregistered \ {NextDirectory}
    /\ row' = IF ok /\ FileIn(NextDirectory) # None
              THEN Enabled(FileIn(NextDirectory)) ELSE row
    /\ mishaps' = IF ok THEN mishaps ELSE mishaps + 1
    /\ UNCHANGED <<phase, files, call, holder, inKali, veth, now, alerts,
                   visible, results>>

Serve ==
    /\ phase = "register" /\ unregistered = {}
    /\ phase' = "serving"
    /\ UNCHANGED <<unregistered, files, row, call, holder, inKali, veth, now,
                   alerts, visible, results, mishaps>>

\* The orchestrator dies: its calls and locks are gone; what runs in the
\* container runs on.  A generated file it was writing in place would be torn.
Crash ==
    /\ phase # "down" /\ mishaps < MaxMishaps
    /\ phase' = "down" /\ mishaps' = mishaps + 1
    /\ call' = [c \in Calls |-> IF call[c].pc = "idle" THEN Idle
                                ELSE Ended("gone")]
    /\ holder' = [i \in Interfaces |-> Nobody]
    /\ unregistered' = {}
    /\ UNCHANGED <<files, row, inKali, veth, now, alerts, visible, results>>

(***************************************************************************)
(* create_payload_scenario_v1 and delete_payload_scenario_v1.              *)
(***************************************************************************)
Begin(c) ==
    /\ phase = "serving" /\ call[c].pc = "idle"

\* save_scenario writes a temporary file and renames it over the old one.
\* Bug: it writes the file in place, and may be stopped half way.
WrittenInPlace(version) == generated' \in {version, Torn}
Written(version) == generated' = version

Create(c) ==
    /\ Begin(c)
    /\ Written(c)
    /\ call' = [call EXCEPT ![c] =
           [Idle EXCEPT !.op = "create", !.via = "mcp", !.pc = "saved",
                        !.version = c]]
    /\ UNCHANGED <<phase, unregistered, template, imported, row, holder, inKali,
                   veth, now, alerts, visible, results, mishaps>>

\* delete_scenario unlinks a generated file, and no other.
Removed == generated' = None

Delete(c) ==
    /\ Begin(c)
    /\ Removed
    /\ call' = [call EXCEPT ![c] =
           [Idle EXCEPT !.op = "delete", !.via = "mcp", !.pc = "saved",
                        !.version = generated]]
    /\ UNCHANGED <<phase, unregistered, template, imported, row, holder, inKali,
                   veth, now, alerts, visible, results, mishaps>>

\* The audit entry, then the row; each is skipped when the database fails.
BookFile(c, ok) ==
    /\ call[c].pc = "saved"
    /\ ok \/ mishaps < MaxMishaps
    /\ mishaps' = IF ok THEN mishaps ELSE mishaps + 1
    /\ row' = IF ~ok \/ (call[c].op = "delete" /\ call[c].version = None) THEN row
              ELSE IF call[c].op = "create" THEN Enabled(call[c].version)
              ELSE [row EXCEPT !.enabled = FALSE]
    /\ call' = [call EXCEPT ![c] = Ended("done")]
    /\ UNCHANGED <<phase, unregistered, files, holder, inKali, veth, now, alerts,
                   visible, results>>

(***************************************************************************)
(* run_scenario_rest, run_payload_scenario_v1, run_kali_tool,              *)
(* run_kali_tool_v1.                                                       *)
(***************************************************************************)
\* load_scenario: generated, templates, imported.
Loaded == IF generated # None THEN generated
          ELSE IF template # None THEN template ELSE imported

\* Without a file the call is answered 404 and leaves no audit entry.
RunScenario(c, via) ==
    /\ Begin(c)
    /\ \E expects \in BOOLEAN :
         call' = [call EXCEPT ![c] =
             [Idle EXCEPT !.op = "scenario", !.via = via, !.version = Loaded,
                          !.expects = expects,
                          !.pc = IF Loaded = None THEN "done" ELSE "waiting"]]
    /\ UNCHANGED <<phase, unregistered, files, row, holder, inKali, veth, now,
                   alerts, visible, results, mishaps>>

\* The api passes a click on to the REST interface.
ScenarioRest(c) == RunScenario(c, "rest")
ScenarioMcp(c) == RunScenario(c, "mcp")

RunTool(c, via, iface) ==
    /\ Begin(c)
    /\ \E expects \in BOOLEAN :
         call' = [call EXCEPT ![c] =
             [Idle EXCEPT !.op = "tool", !.via = via, !.expects = expects,
                          !.iface = iface,
                          !.pc = IF iface THEN "waiting" ELSE "attached"]]
    /\ UNCHANGED <<phase, unregistered, files, row, holder, inKali, veth, now,
                   alerts, visible, results, mishaps>>

\* Only the REST interface can run a tool without the veth, and the lock.
ToolRest(c) == \E iface \in BOOLEAN : RunTool(c, "rest", iface)
ToolMcp(c) == RunTool(c, "mcp", TRUE)

\* _iface_lock of the executor of that interface.
\* Bug: the lock is not waited for.
FreeAnyway(via) == TRUE
Free(via) == holder[via] = Nobody

\* With the lock: _attach_iface_unlocked sets a lost pair up again.
Attach(c) ==
    /\ call[c].pc = "waiting" /\ Free(call[c].via)
    /\ holder' = [holder EXCEPT ![call[c].via] = c]
    /\ veth' = TRUE
    /\ call' = [call EXCEPT ![c].pc = "attached"]
    /\ UNCHANGED <<phase, unregistered, files, row, inKali, now, alerts, visible,
                   results, mishaps>>

Released(c) == [i \in Interfaces |-> IF holder[i] = c THEN Nobody ELSE holder[i]]

\* The target is refused or docker inspect fails: KaliExecutionError, which is
\* audited.
Refuse(c) ==
    /\ call[c].pc = "attached" /\ mishaps < MaxMishaps
    /\ mishaps' = mishaps + 1
    /\ holder' = Released(c)
    /\ call' = [call EXCEPT ![c] = Ended("done")]
    /\ UNCHANGED <<phase, unregistered, files, row, inKali, veth, now, alerts,
                   visible, results>>

\* The runner refuses the command it was given, before it sends anything.
RunnerRefuses(c) == Refuse(c)

\* The alert-manager lets an alert through unless one is younger than Dedup.
Repetition == \E a \in alerts : a.at + Dedup > now

\* docker exec starts the runner, which sends; a rule may answer.
Send(c) ==
    /\ call[c].pc = "attached"
    /\ inKali' = inKali \cup {c}
    /\ \E detected \in BOOLEAN :
         alerts' = IF detected /\ veth /\ ~Repetition
                   THEN alerts \cup {[at |-> now, by |-> c]} ELSE alerts
    /\ call' = [call EXCEPT ![c].pc = "running", ![c].sent = now]
    /\ UNCHANGED <<phase, unregistered, files, row, holder, veth, now, visible,
                   results, mishaps>>

\* poll_alerts_for_rule: ts_from is the time the search starts, minus two
\* seconds.  Bug: alerts of any age count.
SearchFromAnyTime == 0
SearchFrom == Max({0, now - Tolerance})

\* The runner's answer is there, the lock is released.
Return(c) ==
    /\ call[c].pc = "running" /\ c \in inKali
    /\ inKali' = inKali \ {c}
    /\ holder' = Released(c)
    /\ call' = [call EXCEPT ![c] =
           [@ EXCEPT !.pc = IF call[c].expects THEN "polling" ELSE "booking",
                     !.since = SearchFrom, !.left = Polls,
                     !.known = \E a \in visible : a.by = c]]
    /\ UNCHANGED <<phase, unregistered, files, row, veth, now, alerts, visible,
                   results, mishaps>>

\* The runner is gone without an answer: an unexpected return code.
Broken(c) ==
    /\ call[c].pc = "running" /\ c \notin inKali
    /\ holder' = Released(c)
    /\ call' = [call EXCEPT ![c] = Ended("done")]
    /\ UNCHANGED <<phase, unregistered, files, row, inKali, veth, now, alerts,
                   visible, results, mishaps>>

\* The outer timeout kills docker exec, or the client goes away: the lock is
\* released, and what runs in the container is not ended by that.
GiveUp(c) ==
    /\ call[c].pc = "running" /\ mishaps < MaxMishaps
    /\ mishaps' = mishaps + 1
    /\ holder' = Released(c)
    /\ call' = [call EXCEPT ![c] = Ended("gone")]
    /\ UNCHANGED <<phase, unregistered, files, row, inKali, veth, now, alerts,
                   visible, results>>

\* A runner nobody waits for comes to its end.
RunnerEnds(c) ==
    /\ c \in inKali /\ call[c].pc = "gone"
    /\ inKali' = inKali \ {c}
    /\ UNCHANGED <<phase, unregistered, files, row, call, holder, veth, now,
                   alerts, visible, results, mishaps>>

Found(c) == \E a \in visible : a.at >= call[c].since

\* One question to the api, a second or more after the last; one that fails
\* counts as an empty answer.
Poll(c, ok) ==
    /\ call[c].pc = "polling"
    /\ ok \/ mishaps < MaxMishaps
    /\ mishaps' = IF ok THEN mishaps ELSE mishaps + 1
    /\ call' = [call EXCEPT ![c] =
           IF ok /\ Found(c) THEN [@ EXCEPT !.pc = "booking", !.matched = TRUE]
           ELSE IF call[c].left = 1 THEN [@ EXCEPT !.pc = "booking", !.left = 0]
           ELSE [@ EXCEPT !.left = call[c].left - 1]]
    /\ UNCHANGED <<phase, unregistered, files, row, holder, inKali, veth, now,
                   alerts, visible, results>>

\* detected stays NULL for a run that expects nothing.
Result(c) == [call |-> c, sent |-> call[c].sent, known |-> call[c].known,
              detected |-> IF call[c].expects
                           THEN IF call[c].matched THEN "yes" ELSE "no"
                           ELSE "null"]

\* audit_log, then log_scenario_run or log_tool_run; both fail silently.
BookRun(c, ok) ==
    /\ call[c].pc = "booking"
    /\ ok \/ mishaps < MaxMishaps
    /\ mishaps' = IF ok THEN mishaps ELSE mishaps + 1
    /\ results' = IF ok THEN results \cup {Result(c)} ELSE results
    /\ call' = [call EXCEPT ![c] = Ended("done")]
    /\ UNCHANGED <<phase, unregistered, files, row, holder, inKali, veth, now,
                   alerts, visible>>

(***************************************************************************)
(* The surroundings.                                                       *)
(***************************************************************************)
\* The pipeline has stored the alert: the api answers with it from now on.
Surface(a) ==
    /\ a \in alerts \ visible
    /\ visible' = visible \cup {a}
    /\ UNCHANGED <<phase, unregistered, files, row, call, holder, inKali, veth,
                   now, alerts, results, mishaps>>

\* Other traffic of the lab raises the same rule.
OtherTraffic ==
    /\ mishaps < MaxMishaps /\ ~Repetition
    /\ mishaps' = mishaps + 1
    /\ alerts' = alerts \cup {[at |-> now, by |-> Nobody]}
    /\ UNCHANGED <<phase, unregistered, files, row, call, holder, inKali, veth,
                   now, visible, results>>

\* The kali container is restarted: its runners end, and its namespace takes
\* the pair with it.
KaliRestarts ==
    /\ veth /\ mishaps < MaxMishaps
    /\ mishaps' = mishaps + 1
    /\ veth' = FALSE /\ inKali' = {}
    /\ UNCHANGED <<phase, unregistered, files, row, call, holder, now, alerts,
                   visible, results>>

\* A pattern bundle is applied: the api writes the file, not the row.
Import(version) ==
    /\ imported = None /\ version \in Imported
    /\ imported' = version
    /\ UNCHANGED <<phase, unregistered, generated, template, row, call, holder,
                   inKali, veth, now, alerts, visible, results, mishaps>>

Tick ==
    /\ now < MaxTime /\ now' = now + 1
    /\ UNCHANGED <<phase, unregistered, files, row, call, holder, inKali, veth,
                   alerts, visible, results, mishaps>>

CallStep(c) ==
    \/ Attach(c) \/ Send(c) \/ Return(c) \/ Broken(c) \/ RunnerEnds(c)
    \/ \E ok \in BOOLEAN : BookFile(c, ok) \/ Poll(c, ok) \/ BookRun(c, ok)

RedTeamNext ==
    \/ Start \/ BeginCopy \/ EndCopy \/ Serve \/ Crash
    \/ \E ok \in BOOLEAN : RegisterAtStart(ok)
    \/ \E c \in Calls :
         \/ Create(c) \/ Delete(c) \/ Refuse(c) \/ RunnerRefuses(c) \/ GiveUp(c)
         \/ ScenarioRest(c) \/ ScenarioMcp(c) \/ ToolRest(c) \/ ToolMcp(c)
         \/ CallStep(c)
    \/ \E a \in alerts : Surface(a)
    \/ \E version \in Imported : Import(version)
    \/ OtherTraffic \/ KaliRestarts \/ Tick

RedTeamSpec == RedTeamInit /\ [][RedTeamNext]_vars

(***************************************************************************)
(* Properties.                                                             *)
(***************************************************************************)
\* The type invariant.
RedTeamTypeOK ==
    /\ phase \in {"down", "seed", "copy", "register", "serving"}
    /\ unregistered \subseteq {"templates", "generated", "imported"}
    /\ {generated, template, imported} \subseteq File
    /\ row \in [version : Versions \cup {None}, enabled : BOOLEAN]
    /\ \A c \in Calls :
         /\ call[c].pc \in {"idle", "saved", "waiting", "attached", "running",
                            "polling", "booking", "done", "gone"}
         /\ call[c].version \in File /\ call[c].left \in 0 .. Polls
    /\ holder \in [Interfaces -> Calls \cup {Nobody}]
    /\ inKali \subseteq Calls /\ veth \in BOOLEAN /\ visible \subseteq alerts
    /\ now \in 0 .. MaxTime /\ mishaps \in 0 .. MaxMishaps

\* The lock of an executor serialises the calls of its interface
\* (kali_executor.py:4-5): between attaching and the runner's answer there is
\* one call at a time, and it is the one that holds the lock, whatever was
\* refused, given up or lost in a crash in between.
Serialised ==
    \A c \in Calls :
       call[c].pc \in {"attached", "running"} /\ call[c].iface
          => holder[call[c].via] = c

\* A scenario run never plays a half-written file, although a start that died
\* while it copied the templates leaves one and files are replaced while
\* calls load them (scenario_store.py:103-127, :181-209).
PlaysWholeFiles == \A c \in Calls : call[c].op = "scenario" => call[c].version # Torn

\* A run is recorded as detected only for an alert the api has and that is
\* not older than the tolerance before that run sent anything: an old hit
\* does not count (alert_match.py:49-51).
OldHitsDoNotCount ==
    \A r \in results :
       r.detected = "yes" => \E a \in visible : a.at + Tolerance >= r.sent

\* Together, for the run that checks this module.
RunsAreHonest == Serialised /\ PlaysWholeFiles /\ OldHitsDoNotCount

\* "pollen, ob ein Alert mit diesem rule_id-Prefix erschienen ist": a run whose
\* own alert the api has when the search begins is not recorded as undetected.
\* It is when it went on for longer than the tolerance after the alert: the
\* search starts from the end of the run (main.py:139-141, alert_match.py:61).
OwnAlertCounts == \A r \in results : r.known => r.detected # "no"

\* "Concurrent run-Aufrufe serialisieren": one runner at a time in the
\* container.  There are two executors, and an abandoned runner goes on.
OneRunAtATime ==
    Cardinality({c \in inKali : call[c].iface /\ call[c].pc = "running"}) <= 1

\* "KI- und Federation-Inputs gewinnen damit gegen Builtin-Templates wenn IDs
\* kollidieren": a run of an imported scenario's id plays the import or the
\* generated file.  load_scenario takes the template first.
ImportsWin ==
    \A c \in Calls :
       call[c].op = "scenario" /\ call[c].pc = "waiting" /\ imported \in Imported
          => call[c].version # "template"
=============================================================================
