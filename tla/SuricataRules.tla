---------------------------- MODULE SuricataRules ----------------------------
(***************************************************************************)
(* The rules volume of Suricata and its writers: the api (routers/rules.py: *)
(* sources, import, file editor), the redteam-orchestrator (suricata_rules  *)
(* .py: AI rules, one by one) and the entrypoint of the Suricata container, *)
(* which downloads when it finds the trigger file.  Suricata reads the      *)
(* volume when it starts and at a reload.                                   *)
(*                                                                         *)
(* A file is the set of rules it holds: "ai" is cyjan-ai.rules, "own" a     *)
(* file of an operator, "et" a download.  The rule Broken does not parse.   *)
(* The handlers of the api await nothing and so exclude one another; but a  *)
(* save waits up to a minute for `suricata -T', and the other processes go  *)
(* on meanwhile.                                                            *)
(***************************************************************************)
EXTENDS Naturals

CONSTANTS
  Sids,                                                 \* AI rules
  MaxSaves, MaxCalls, MaxUpdates, MaxStops              \* bounds

RulesAssumption == {MaxSaves, MaxCalls, MaxUpdates, MaxStops} \subseteq Nat

Files == {"ai", "own", "et"}
Broken == "broken"
RuleSet(f) == IF f = "ai" THEN Sids ELSE {f}
Nothing == "none"

VARIABLES
  present,   \* the files that exist
  held,      \* file -> the rules it holds
  source,    \* the source in sources.json: "on", "off" or "deleted"
  urls,      \* update-sources.txt: Nothing, or whether the source is in it
  trigger,   \* update.trigger: Nothing, or what is in it
  save,      \* the editor at work
  mcp,       \* the orchestrator at work
  entry,     \* the entrypoint: "poll", "download", "reload"
  up,        \* Suricata runs
  loaded,    \* the rules it has loaded
  saves, calls, updates, stops,
  reported,  \* AI rules reported as written and not removed since (history)
  crossed    \* another process was writing or ended what it had written, or Suricata
             \* reloaded, between the write and the rollback of a save (history)

rulesVars == <<present, held, source, urls, trigger, save, mcp, entry, up, loaded, saves,
               calls, updates, stops, reported, crossed>>
counters == <<saves, calls, updates, stops>>

NoSave == [pc |-> "idle", file |-> "own", had |-> FALSE, backup |-> {}, ran |-> FALSE,
           ok |-> FALSE, dirty |-> FALSE]
NoCall == [pc |-> "idle", lines |-> {}, sid |-> Nothing]

\* A rule that does not parse is left out.
Loadable == (UNION {held[f] : f \in present}) \ {Broken}
Sound == \A f \in present : Broken \notin held[f]
\* ruleset-reload-rules reaches a Suricata that runs.
Reloaded(files) == IF up THEN (UNION files) \ {Broken} ELSE loaded
Touched == IF save.pc = "idle" THEN save ELSE [save EXCEPT !.dirty = TRUE]

RulesInit ==
  /\ present = {} /\ held = [f \in Files |-> {}]
  /\ source = "off" /\ urls = Nothing /\ trigger = Nothing
  /\ save = NoSave /\ mcp = NoCall /\ entry = "poll" /\ up = TRUE /\ loaded = {}
  /\ saves = 0 /\ calls = 0 /\ updates = 0 /\ stops = 0
  /\ reported = {} /\ crossed = FALSE

Write(f, rules) == present' = present \cup {f} /\ held' = [held EXCEPT ![f] = rules]

-----------------------------------------------------------------------------
(* The api.                                                                *)

ApiIdle == save.pc = "idle"

\* add_source, update_source.
SwitchSource ==
  /\ ApiIdle /\ source # "deleted" /\ source' = IF source = "on" THEN "off" ELSE "on"
  /\ UNCHANGED <<present, held, urls, trigger, save, mcp, entry, up, loaded, reported, crossed>>
  /\ UNCHANGED counters

\* delete_source, of one that is not built in.
DeleteSource ==
  /\ ApiIdle /\ source # "deleted" /\ source' = "deleted"
  /\ UNCHANGED <<present, held, urls, trigger, save, mcp, entry, up, loaded, reported, crossed>>
  /\ UNCHANGED counters

\* trigger_update: what is enabled now goes to the entrypoint.
Update ==
  /\ ApiIdle /\ updates < MaxUpdates /\ updates' = updates + 1
  /\ urls' = IF source = "on" THEN "with" ELSE "without"
  /\ trigger' = "time"
  /\ UNCHANGED <<present, held, source, save, mcp, entry, up, loaded, reported, crossed>>
  /\ UNCHANGED <<saves, calls, stops>>

\* import_suricata_rules: written, not tested, and reloaded.
Import(f) ==
  /\ ApiIdle /\ saves < MaxSaves /\ saves' = saves + 1
  /\ \E rules \in {RuleSet(f), RuleSet(f) \cup {Broken}} :
       /\ Write(f, rules)
       /\ loaded' = Reloaded({rules} \cup {held[g] : g \in present \ {f}})
  /\ UNCHANGED <<source, urls, trigger, save, mcp, entry, up, reported, crossed>>
  /\ UNCHANGED <<calls, updates, stops>>

\* save_rule_file: what was there is kept, the new content put in its place.
SaveWrite(f) ==
  /\ ApiIdle /\ saves < MaxSaves /\ saves' = saves + 1
  /\ \E rules \in SUBSET (RuleSet(f) \cup {Broken}) : Write(f, rules)
  /\ save' = [NoSave EXCEPT !.pc = "test", !.file = f, !.had = f \in present, !.backup = held[f]]
  /\ UNCHANGED <<source, urls, trigger, mcp, entry, up, loaded, reported, crossed>>
  /\ UNCHANGED <<calls, updates, stops>>

\* `suricata -T' parses the whole directory; it fails as well when the container
\* is not there.
SaveTest ==
  /\ save.pc = "test"
  /\ save' = [save EXCEPT !.pc = "judge", !.ran = up, !.ok = up /\ Sound]
  /\ UNCHANGED <<present, held, source, urls, trigger, mcp, entry, up, loaded, reported, crossed>>
  /\ UNCHANGED counters

\* A file that existed gets its old content back, and nothing is reloaded.
Rollback ==
  /\ save.pc = "judge" /\ ~save.ok /\ save.had
  /\ Write(save.file, save.backup)
  /\ save' = NoSave
  /\ crossed' = (crossed \/ save.dirty \/ mcp.pc # "idle")
  /\ UNCHANGED <<source, urls, trigger, mcp, entry, up, loaded, reported>> /\ UNCHANGED counters

Accept ==
  /\ save.pc = "judge" /\ (save.ok \/ ~save.had)
  /\ loaded' = Reloaded({held[f] : f \in present})
  /\ reported' = reported \ (save.backup \ held[save.file])
  /\ save' = NoSave
  /\ UNCHANGED <<present, held, source, urls, trigger, mcp, entry, up, crossed>>
  /\ UNCHANGED counters

\* delete_rule_file: not one that update-sources.txt names.
DeleteFile(f) ==
  /\ ApiIdle /\ f \in present /\ ~(f = "et" /\ urls = "with")
  /\ present' = present \ {f} /\ held' = [held EXCEPT ![f] = {}]
  /\ loaded' = Reloaded({held[g] : g \in present \ {f}})
  /\ reported' = reported \ held[f]
  /\ UNCHANGED <<source, urls, trigger, save, mcp, entry, up, crossed>> /\ UNCHANGED counters

-----------------------------------------------------------------------------
(* The redteam-orchestrator: the file is read, and another put in its place. *)

\* Bug: the other rules of the file are not taken over.
WithRuleAlone(lines, sid) == {sid}

\* Bug: the trigger is set before the file is replaced.
FollowingTriggerFirst(pc) ==
  IF pc = "idle" THEN "trigger" ELSE IF pc = "trigger" THEN "replace" ELSE "idle"

\* The file is replaced, then the trigger set.
Following(pc) ==
  IF pc = "idle" THEN "replace" ELSE IF pc = "replace" THEN "trigger" ELSE "idle"

\* What is reported as written at the end, if nobody has taken it out already.
Finished(pc) == IF Following(pc) = "idle" THEN {mcp.sid} \cap held["ai"] ELSE {}

\* upsert_rule: the rule replaces the one with its sid.
WithRule(lines, sid) == lines \cup {sid}

BeginUpsert(sid) ==
  /\ mcp.pc = "idle" /\ calls < MaxCalls /\ calls' = calls + 1
  /\ mcp' = [pc |-> Following("idle"), lines |-> WithRule(held["ai"], sid), sid |-> sid]
  /\ UNCHANGED <<present, held, source, urls, trigger, save, entry, up, loaded, reported, crossed>>
  /\ UNCHANGED <<saves, updates, stops>>

BeginDelete(sid) ==
  /\ mcp.pc = "idle" /\ sid \in held["ai"] /\ calls < MaxCalls /\ calls' = calls + 1
  /\ mcp' = [pc |-> Following("idle"), lines |-> held["ai"] \ {sid}, sid |-> Nothing]
  /\ reported' = reported \ {sid}
  /\ UNCHANGED <<present, held, source, urls, trigger, save, entry, up, loaded, crossed>>
  /\ UNCHANGED <<saves, updates, stops>>

ReplaceAi ==
  /\ mcp.pc = "replace" /\ mcp' = [mcp EXCEPT !.pc = Following(@)]
  /\ reported' = reported \cup Finished(mcp.pc)
  /\ Write("ai", mcp.lines)
  /\ save' = Touched
  /\ UNCHANGED <<source, urls, trigger, entry, up, loaded, crossed>>
  /\ UNCHANGED counters

TriggerReload ==
  /\ mcp.pc = "trigger" /\ mcp' = [mcp EXCEPT !.pc = Following(@)]
  /\ trigger' = "word"
  /\ reported' = reported \cup Finished(mcp.pc)
  /\ save' = Touched
  /\ UNCHANGED <<present, held, source, urls, entry, up, loaded, crossed>>
  /\ UNCHANGED counters

-----------------------------------------------------------------------------
(* The Suricata container.                                                 *)

\* The trigger is removed first: one that comes later is for the next round.
Poll ==
  /\ up /\ entry = "poll" /\ trigger # Nothing
  /\ trigger' = Nothing /\ entry' = "download"
  /\ UNCHANGED <<present, held, source, urls, save, mcp, up, loaded, reported, crossed>>
  /\ UNCHANGED counters

\* A download that fails leaves the file, or puts an error page in its place.
Download ==
  /\ up /\ entry = "download" /\ entry' = "reload"
  /\ \/ urls # "without" /\ (\E rules \in {RuleSet("et"), {Broken}} : Write("et", rules))
     \/ UNCHANGED <<present, held>>
  /\ save' = Touched
  /\ UNCHANGED <<source, urls, trigger, mcp, up, loaded, reported, crossed>> /\ UNCHANGED counters

Reload ==
  /\ up /\ entry = "reload" /\ entry' = "poll"
  /\ loaded' = Loadable
  /\ save' = Touched
  /\ UNCHANGED <<present, held, source, urls, trigger, mcp, up, reported, crossed>> /\ UNCHANGED counters

Stop ==
  /\ up /\ stops < MaxStops /\ stops' = stops + 1
  /\ up' = FALSE /\ entry' = "poll" /\ loaded' = {}
  /\ UNCHANGED <<present, held, source, urls, trigger, save, mcp, reported, crossed>>
  /\ UNCHANGED <<saves, calls, updates>>

Start ==
  /\ ~up /\ up' = TRUE /\ loaded' = Loadable /\ save' = Touched
  /\ UNCHANGED <<present, held, source, urls, trigger, mcp, entry, reported, crossed>>
  /\ UNCHANGED counters

RulesNext ==
  \/ SwitchSource \/ DeleteSource \/ Update
  \/ \E f \in Files : Import(f) \/ SaveWrite(f) \/ DeleteFile(f)
  \/ SaveTest \/ Rollback \/ Accept
  \/ \E sid \in Sids : BeginUpsert(sid) \/ BeginDelete(sid)
  \/ ReplaceAi \/ TriggerReload
  \/ Poll \/ Download \/ Reload \/ Stop \/ Start

RulesSpec == RulesInit /\ [][RulesNext]_rulesVars

\* Whoever has begun goes on, the entrypoint polls, and Docker restarts Suricata.
SaveStep == SaveTest \/ Rollback \/ Accept
McpStep == ReplaceAi \/ TriggerReload
EntryStep == Poll \/ Download \/ Reload

RulesFairness ==
  /\ WF_save(SaveStep) /\ WF_mcp(McpStep)
  /\ WF_entry(EntryStep) /\ WF_up(Start)

RulesFairSpec == RulesSpec /\ RulesFairness

-----------------------------------------------------------------------------
RulesTypeOK ==
  /\ present \subseteq Files /\ \A f \in Files : held[f] \subseteq RuleSet(f) \cup {Broken}
  /\ \A f \in Files \ present : held[f] = {}
  /\ source \in {"on", "off", "deleted"} /\ urls \in {Nothing, "with", "without"}
  /\ trigger \in {Nothing, "time", "word"} /\ entry \in {"poll", "download", "reload"}
  /\ save.pc \in {"idle", "test", "judge"} /\ mcp.pc \in {"idle", "replace", "trigger"}
  /\ loaded \subseteq UNION {RuleSet(f) : f \in Files} /\ reported \subseteq Sids

\* An AI rule reported as written is in the file until someone takes it out,
\* unless a save was rolled back over what another process had written.
AiRulesKept ==
  ~crossed /\ (save.pc = "idle" \/ save.file # "ai") => reported \subseteq held["ai"]

\* An AI rule that stays in the file comes to be loaded and stays so: no trigger
\* is lost, even one that comes while the entrypoint is at an earlier one.
AiRulesLoaded ==
  \A sid \in Sids : <>[](~crossed /\ sid \in held["ai"]) => <>[](sid \in loaded)

AiRulesInForce == [](RulesTypeOK /\ AiRulesKept) /\ AiRulesLoaded

\* rules.py:697-699: when Suricata does not run, the file is saved all the same.
UntestedIsSaved == [][Rollback => save.ran]_rulesVars

\* rules.py:507-509: the test catches a syntax error before the file becomes active.
SyntaxErrorCaught == [][Accept => save.ok \/ ~save.ran]_rulesVars

=============================================================================
