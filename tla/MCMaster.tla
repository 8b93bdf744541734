------------------------------ MODULE MCMaster -------------------------------
(* Instances of the jobs of the master, those that score, train and tune and *)
(* those behind its console, for TLC: a behaviour is one of the services at  *)
(* work. They share no state in these models, so that interleaving them would *)
(* add states and no behaviour.                                              *)
EXTENDS Integers, Sequences, HostTrust, AnomalyModel, MlConfig, OfflineUpdate, PcapStore

VARIABLE service
VARIABLES
  engineClock, engineFile, engineEdits, engineDisabled, engineSeen,
  engineReading, engineWindow, engineCooldowns, engineFlows, engineRestarts,
  engineRecorded, engineAlerted, engineEarly, engineMiscounted
VARIABLES
  loaderClock, loaderFile, loaderEdits, loaderDisabled, loaderSeen,
  loaderReading, loaderWindow, loaderCooldowns, loaderFlows, loaderRestarts,
  loaderRecorded, loaderAlerted, loaderEarly, loaderMiscounted
VARIABLES
  today, chunks, elsewhere, policy, changing, retentionPc, measured,
  retentionSince, turn, picked, retentionAlerted, retentionMishaps
VARIABLES
  week, alerts, archive, reportsUp, reportsPc, ref, report, checked, answer,
  reportsMishaps
VARIABLES
  suricataPresent, suricataHeld, suricataSource, suricataUrls,
  suricataTrigger, suricataSave, suricataMcp, suricataEntry, suricataUp,
  suricataLoaded, suricataSaves, suricataCalls, suricataUpdates,
  suricataStops, suricataReported, suricataCrossed
VARIABLES
  twoRulesPresent, twoRulesHeld, twoRulesSource, twoRulesUrls,
  twoRulesTrigger, twoRulesSave, twoRulesMcp, twoRulesEntry, twoRulesUp,
  twoRulesLoaded, twoRulesSaves, twoRulesCalls, twoRulesUpdates,
  twoRulesStops, twoRulesReported, twoRulesCrossed

MCRules == <<[window |-> 1, limit |-> 1, cooldown |-> 2],
             [window |-> 2, limit |-> 1, cooldown |-> 1]>>

MCEvictable == <<"flows", "alerts">>
MCFloor == [t \in {"flows", "alerts"} |-> IF t = "flows" THEN 1 ELSE 2]

engineState ==
  <<engineClock, engineFile, engineEdits, engineDisabled, engineSeen,
    engineReading, engineWindow, engineCooldowns, engineFlows, engineRestarts,
    engineRecorded, engineAlerted, engineEarly, engineMiscounted>>
loaderState ==
  <<loaderClock, loaderFile, loaderEdits, loaderDisabled, loaderSeen,
    loaderReading, loaderWindow, loaderCooldowns, loaderFlows, loaderRestarts,
    loaderRecorded, loaderAlerted, loaderEarly, loaderMiscounted>>
retentionState ==
  <<today, chunks, elsewhere, policy, changing, retentionPc, measured,
    retentionSince, turn, picked, retentionAlerted, retentionMishaps>>
reportsState ==
  <<week, alerts, archive, reportsUp, reportsPc, ref, report, checked, answer,
    reportsMishaps>>
suricataState ==
  <<suricataPresent, suricataHeld, suricataSource, suricataUrls,
    suricataTrigger, suricataSave, suricataMcp, suricataEntry, suricataUp,
    suricataLoaded, suricataSaves, suricataCalls, suricataUpdates,
    suricataStops, suricataReported, suricataCrossed>>
twoRulesState ==
  <<twoRulesPresent, twoRulesHeld, twoRulesSource, twoRulesUrls,
    twoRulesTrigger, twoRulesSave, twoRulesMcp, twoRulesEntry, twoRulesUp,
    twoRulesLoaded, twoRulesSaves, twoRulesCalls, twoRulesUpdates,
    twoRulesStops, twoRulesReported, twoRulesCrossed>>

EngineOf == INSTANCE SignatureEngine WITH
  Rules <- MCRules, Ports <- {1, 2}, AlertWindow <- 2, MaxWindow <- 3,
  MaxLag <- 1, MaxTime <- 3, MaxFlows <- 3, MaxEdits <- 1, MaxRestarts <- 1,
  clock <- engineClock, file <- engineFile, edits <- engineEdits,
  disabled <- engineDisabled, seen <- engineSeen, reading <- engineReading,
  window <- engineWindow, cooldowns <- engineCooldowns, flows <- engineFlows,
  restarts <- engineRestarts, recorded <- engineRecorded,
  alerted <- engineAlerted, early <- engineEarly,
  miscounted <- engineMiscounted
LoaderOf == INSTANCE SignatureEngine WITH
  Rules <- MCRules, Ports <- {1, 2}, AlertWindow <- 2, MaxWindow <- 3,
  MaxLag <- 1, MaxTime <- 3, MaxFlows <- 1, MaxEdits <- 2, MaxRestarts <- 1,
  clock <- loaderClock, file <- loaderFile, edits <- loaderEdits,
  disabled <- loaderDisabled, seen <- loaderSeen, reading <- loaderReading,
  window <- loaderWindow, cooldowns <- loaderCooldowns, flows <- loaderFlows,
  restarts <- loaderRestarts, recorded <- loaderRecorded,
  alerted <- loaderAlerted, early <- loaderEarly,
  miscounted <- loaderMiscounted
RetentionOf == INSTANCE DiskRetention WITH
  Evictable <- MCEvictable, Floor <- MCFloor, Warn <- 3, Emergency <- 5,
  Target <- 4, MaxElsewhere <- 2, MaxDay <- 4, MaxMishaps <- 2,
  pc <- retentionPc, since <- retentionSince, alerted <- retentionAlerted,
  mishaps <- retentionMishaps
ReportsOf == INSTANCE WeeklyReports WITH
  MaxWeek <- 3, MaxAlerts <- 1, MaxMishaps <- 2, up <- reportsUp,
  pc <- reportsPc, mishaps <- reportsMishaps
SuricataOf == INSTANCE SuricataRules WITH
  Sids <- {"s"}, MaxSaves <- 1, MaxCalls <- 1, MaxUpdates <- 1, MaxStops <- 1,
  present <- suricataPresent, held <- suricataHeld, source <- suricataSource,
  urls <- suricataUrls, trigger <- suricataTrigger, save <- suricataSave,
  mcp <- suricataMcp, entry <- suricataEntry, up <- suricataUp,
  loaded <- suricataLoaded, saves <- suricataSaves, calls <- suricataCalls,
  updates <- suricataUpdates, stops <- suricataStops,
  reported <- suricataReported, crossed <- suricataCrossed
TwoRulesOf == INSTANCE SuricataRules WITH
  Sids <- {"s", "t"}, MaxSaves <- 0, MaxCalls <- 2, MaxUpdates <- 0,
  MaxStops <- 1, present <- twoRulesPresent, held <- twoRulesHeld,
  source <- twoRulesSource, urls <- twoRulesUrls, trigger <- twoRulesTrigger,
  save <- twoRulesSave, mcp <- twoRulesMcp, entry <- twoRulesEntry,
  up <- twoRulesUp, loaded <- twoRulesLoaded, saves <- twoRulesSaves,
  calls <- twoRulesCalls, updates <- twoRulesUpdates, stops <- twoRulesStops,
  reported <- twoRulesReported, crossed <- twoRulesCrossed
ASSUME EngineOf!EngineAssumption
ASSUME LoaderOf!EngineAssumption
ASSUME ModelAssumption
ASSUME ConfigAssumption
ASSUME UpdateAssumption
ASSUME RetentionOf!RetentionAssumption
ASSUME ReportsOf!ReportsAssumption
ASSUME StoreAssumption
ASSUME SuricataOf!RulesAssumption
ASSUME TwoRulesOf!RulesAssumption

Services == {"trust", "signatures", "overrides", "model", "config", "update",
  "retention", "reports", "pcaps", "suricata rules", "two rules"}

(* The services a behaviour does not pick stay in one initial state. *)
Init ==
  /\ service \in Services
  /\ TrustInit
  /\ EngineOf!EngineInit
  /\ LoaderOf!EngineInit
  /\ ModelInit
  /\ ConfigInit
  /\ UpdateInit
  /\ service # "update" => release = [u \in Uploads |-> 1]
  /\ RetentionOf!RetentionInit
  /\ ReportsOf!ReportsInit
  /\ StoreInit
  /\ SuricataOf!RulesInit
  /\ TwoRulesOf!RulesInit

TrustRuns ==
  /\ service = "trust" /\ TrustNext
  /\ UNCHANGED <<service, engineState, loaderState, modelVars, configVars,
       updateVars, retentionState, reportsState, storeVars, suricataState,
       twoRulesState>>
EngineRuns ==
  /\ service = "signatures" /\ EngineOf!EngineNext
  /\ UNCHANGED <<service, trustVars, loaderState, modelVars, configVars, updateVars,
       retentionState, reportsState, storeVars, suricataState, twoRulesState>>
LoaderRuns ==
  /\ service = "overrides" /\ LoaderOf!EngineNext
  /\ UNCHANGED <<service, trustVars, engineState, modelVars, configVars, updateVars,
       retentionState, reportsState, storeVars, suricataState, twoRulesState>>
ModelRuns ==
  /\ service = "model" /\ ModelNext
  /\ UNCHANGED <<service, trustVars, engineState, loaderState, configVars, updateVars,
       retentionState, reportsState, storeVars, suricataState, twoRulesState>>
ConfigRuns ==
  /\ service = "config" /\ ConfigNext
  /\ UNCHANGED <<service, trustVars, engineState, loaderState, modelVars, updateVars,
       retentionState, reportsState, storeVars, suricataState, twoRulesState>>
UpdateRuns ==
  /\ service = "update" /\ UpdateNext
  /\ UNCHANGED <<service, trustVars, engineState, loaderState, modelVars, configVars,
       retentionState, reportsState, storeVars, suricataState, twoRulesState>>
RetentionRuns ==
  /\ service = "retention" /\ RetentionOf!RetentionNext
  /\ UNCHANGED <<service, trustVars, engineState, loaderState, modelVars, configVars,
       updateVars, reportsState, storeVars, suricataState, twoRulesState>>
ReportsRuns ==
  /\ service = "reports" /\ ReportsOf!ReportsNext
  /\ UNCHANGED <<service, trustVars, engineState, loaderState, modelVars, configVars,
       updateVars, retentionState, storeVars, suricataState, twoRulesState>>
PcapsRuns ==
  /\ service = "pcaps" /\ StoreNext
  /\ UNCHANGED <<service, trustVars, engineState, loaderState, modelVars, configVars,
       updateVars, retentionState, reportsState, suricataState, twoRulesState>>
SuricataRuns ==
  /\ service = "suricata rules" /\ SuricataOf!RulesNext
  /\ UNCHANGED <<service, trustVars, engineState, loaderState, modelVars, configVars,
       updateVars, retentionState, reportsState, storeVars, twoRulesState>>
TwoRulesRuns ==
  /\ service = "two rules" /\ TwoRulesOf!RulesNext
  /\ UNCHANGED <<service, trustVars, engineState, loaderState, modelVars, configVars,
       updateVars, retentionState, reportsState, storeVars, suricataState>>

all == <<service, trustVars, engineState, loaderState, modelVars, configVars,
         updateVars, retentionState, reportsState, storeVars, suricataState,
         twoRulesState>>

(* Their bounds may end the behaviours of these services. *)
Finished ==
  /\ service \in {"suricata rules", "two rules"}
  /\ UNCHANGED all

RunNext ==
  \/ TrustRuns
  \/ EngineRuns
  \/ LoaderRuns
  \/ ModelRuns
  \/ ConfigRuns
  \/ UpdateRuns
  \/ RetentionRuns
  \/ ReportsRuns
  \/ PcapsRuns
  \/ SuricataRuns
  \/ TwoRulesRuns
  \/ Finished

(* The fairness each service states for itself, while it is the one picked. *)
RunFairness ==
  /\ WF_<<engineReading, engineSeen>>
       (service = "signatures" /\ EngineOf!NoteTime)
  /\ WF_<<engineReading, engineSeen>>
       (service = "signatures" /\ EngineOf!ReadOverrides)
  /\ WF_<<loaderReading, loaderSeen>>
       (service = "overrides" /\ LoaderOf!NoteTime)
  /\ WF_<<loaderReading, loaderSeen>>
       (service = "overrides" /\ LoaderOf!ReadOverrides)
  /\ WF_modelVars(service = "model" /\ TrainerStep)
  /\ WF_modelVars(service = "model" /\ IntervalPasses)
  /\ WF_modelVars(service = "model" /\ Collect)
  /\ WF_modelVars(service = "model" /\ EngineStep)
  /\ WF_modelVars(service = "model" /\ BeginSave)
  /\ WF_configVars(service = "config" /\ PollConfig)
  /\ WF_api(service = "config" /\ ApiWrites)
  /\ \A u \in Uploads :
       WF_stage(service = "update" /\ TaskStep(u))
  /\ WF_runner(service = "update" /\ RunnerStep)
  /\ WF_refreshes(service = "update" /\ EndRefresh)
  /\ WF_<<chunks, retentionPc, measured, retentionSince, turn, picked>>
       (service = "retention" /\ RetentionOf!MonitorStep)
  /\ WF_reportsPc(service = "reports" /\ ReportsOf!LoopStep)
  /\ WF_reportsUp(service = "reports" /\ ReportsOf!Start)
  /\ WF_storeVars(service = "pcaps" /\ Sweep)
  /\ WF_storeVars(service = "pcaps" /\ StartStore)
  /\ WF_suricataSave(service = "suricata rules" /\ SuricataOf!SaveStep)
  /\ WF_suricataMcp(service = "suricata rules" /\ SuricataOf!McpStep)
  /\ WF_suricataEntry(service = "suricata rules" /\ SuricataOf!EntryStep)
  /\ WF_suricataUp(service = "suricata rules" /\ SuricataOf!Start)
  /\ WF_twoRulesSave(service = "two rules" /\ TwoRulesOf!SaveStep)
  /\ WF_twoRulesMcp(service = "two rules" /\ TwoRulesOf!McpStep)
  /\ WF_twoRulesEntry(service = "two rules" /\ TwoRulesOf!EntryStep)
  /\ WF_twoRulesUp(service = "two rules" /\ TwoRulesOf!Start)

RunSpec == Init /\ [][RunNext]_all /\ RunFairness
-----------------------------------------------------------------------------
(* The invariants of the configuration are those of the modules; the rest of *)
(* what is promised is here.                                                 *)

(* A rule alerts again on a host no earlier than its cooldown allows,        *)
(* whatever the order and the lateness of the flows, and an override takes   *)
(* effect. A rule the assistant added stays in the file and is loaded by     *)
(* suricata.                                                                 *)
RulesInForceOK ==
  /\ [](service = "signatures" =>
       /\ EngineOf!EngineTypeOK
       /\ EngineOf!CooldownRespected)
  /\ EngineOf!OverridesTakeEffect
  /\ [](service = "overrides" =>
       /\ LoaderOf!EngineTypeOK
       /\ LoaderOf!CooldownRespected)
  /\ LoaderOf!OverridesTakeEffect
  /\ SuricataOf!AiRulesInForce
  /\ TwoRulesOf!AiRulesInForce

(* The emergency clean-up drops no chunk younger than the floor of its table *)
(* and relieves a disk it can relieve. A week is archived when it is over,   *)
(* never before, and is archived in the end. A requested training is taken   *)
(* up, the threshold of the file comes to be used, an update ends, and an    *)
(* alert whose capture has expired no longer says that it has one.           *)
HousekeepingOK ==
  /\ [](service = "retention" => RetentionOf!RetentionTypeOK)
  /\ RetentionOf!SparesTheYoung
  /\ RetentionOf!GetsRelieved
  /\ [](service = "reports" =>
       /\ ReportsOf!ReportsTypeOK
       /\ ReportsOf!ArchivedWhenOver)
  /\ ReportsOf!GetsArchived
  /\ RequestTaken /\ ThresholdUsed /\ UpdatesEnd /\ PromiseTakenBack

=============================================================================
