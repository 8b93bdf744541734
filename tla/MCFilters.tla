------------------------------ MODULE MCFilters ------------------------------
(* Instances of the services that filter, judge and take over what others    *)
(* send, for TLC: a behaviour is one of the services at work. They share no  *)
(* state in these models, so that interleaving them would add states and no  *)
(* behaviour.  Four of the modules are extended, so that their properties    *)
(* are checked under their own names; of the others there are instances.     *)
EXTENDS Integers, Sequences, RedTeam, SettingsMigration, Suppression, HostRoles

VARIABLE service
VARIABLES
  snortNow, snortFile, state, version, snortSince, snortCache, seenVersion,
  lastCheck, lastSeen, tokens, refilled, passed, rateDropped, cooled, handled
VARIABLES
  reports, stream, cur, events, arpAlerts, warm
VARIABLES
  present, thread, capture, packet, shutdown, channel, main, hand,
  snifferQueue, broker, captured, parseErrors, dropped, rawOk, pcapOk,
  kafkaErrors, arrived, expired, taken, resent, snifferMishaps
VARIABLES
  topic, pos, threshold, eventsQueue, connection, session, eventsSince, loops,
  eventsSent, overflowed, swallowed, rpc, backoff, acked, refused, changes
VARIABLES
  notifyNow, notifyEnabled, disabledAt, notifyCache, loadedAt, markedAt,
  sentAt, sending, test, notifyPc, waited, notifyEdits, notifyMishaps
VARIABLES
  token, sockets, ws, timer, connected, shown, feedRows, pcaps, published,
  outbox, announced, feedMishaps
VARIABLES
  syslogNow, syslogAlerts, syslogEnabled, onlySevere, syslogPc, minSevere,
  syslogRows, syslogLast, cursor, syslogSent, excused, started, setBack,
  syslogMishaps, syslogEdits
VARIABLES
  patternsRules, patternsScenarios, patternsTrusts, patternsBundles,
  patternsStorage, patternsUploading, patternsImports, patternsApply,
  patternsDue, patternsRow, patternsFile, patternsEdits, patternsCrashes,
  patternsMixed
VARIABLES
  echoRules, echoScenarios, echoTrusts, echoBundles, echoStorage,
  echoUploading, echoImports, echoApply, echoDue, echoRow, echoFile,
  echoEdits, echoCrashes, echoMixed

SnortAlert(s, c, e) == [sid |-> s, conn |-> c, from |-> e, direction |-> "none"]
MCAlerts == {SnortAlert("s", "web", "a"), SnortAlert("s", "web", "b"),
             SnortAlert("t", "lan", "a"), SnortAlert("t", "lan", "b"),
             SnortAlert("e", "lan", "a")}
MCSnortPrivate ==
  [c \in {"web", "lan"} |-> [e \in {"a", "b"} |-> c = "web" /\ e = "a"]]
MCSnortPort ==
  [c \in {"web", "lan"} |-> [e \in {"a", "b"} |-> IF e = "a" THEN 2000 ELSE 443]]
MCKept == [s \in {"s", "t", "e"} |-> "keep"]
MCContents == {[MCKept EXCEPT !["s"] = "off"], [MCKept EXCEPT !["t"] = "low"]}

snortState ==
  <<snortNow, snortFile, state, version, snortSince, snortCache, seenVersion,
    lastCheck, lastSeen, tokens, refilled, passed, rateDropped, cooled,
    handled>>
arpState ==
  <<reports, stream, cur, events, arpAlerts, warm>>
snifferState ==
  <<present, thread, capture, packet, shutdown, channel, main, hand,
    snifferQueue, broker, captured, parseErrors, dropped, rawOk, pcapOk,
    kafkaErrors, arrived, expired, taken, resent, snifferMishaps>>
eventsState ==
  <<topic, pos, threshold, eventsQueue, connection, session, eventsSince,
    loops, eventsSent, overflowed, swallowed, rpc, backoff, acked, refused,
    changes>>
notifyState ==
  <<notifyNow, notifyEnabled, disabledAt, notifyCache, loadedAt, markedAt,
    sentAt, sending, test, notifyPc, waited, notifyEdits, notifyMishaps>>
feedState ==
  <<token, sockets, ws, timer, connected, shown, feedRows, pcaps, published,
    outbox, announced, feedMishaps>>
syslogState ==
  <<syslogNow, syslogAlerts, syslogEnabled, onlySevere, syslogPc, minSevere,
    syslogRows, syslogLast, cursor, syslogSent, excused, started, setBack,
    syslogMishaps, syslogEdits>>
patternsState ==
  <<patternsRules, patternsScenarios, patternsTrusts, patternsBundles,
    patternsStorage, patternsUploading, patternsImports, patternsApply,
    patternsDue, patternsRow, patternsFile, patternsEdits, patternsCrashes,
    patternsMixed>>
echoState ==
  <<echoRules, echoScenarios, echoTrusts, echoBundles, echoStorage,
    echoUploading, echoImports, echoApply, echoDue, echoRow, echoFile,
    echoEdits, echoCrashes, echoMixed>>

SnortOf == INSTANCE SnortFilter WITH
  Sids <- {"s", "t", "e"}, Conns <- {"web", "lan"}, EngineSids <- {"e"},
  Alerts <- MCAlerts, Private <- MCSnortPrivate, Port <- MCSnortPort,
  Contents <- MCContents, Cooldown <- 3, MaxRate <- 1, Unit <- 2,
  Refresh <- 2, PurgeAt <- 1, MaxTime <- 4, MaxEdits <- 1, MaxAlerts <- 3,
  now <- snortNow, file <- snortFile, since <- snortSince, cache <- snortCache
ArpOf == INSTANCE ArpBridge WITH
  MaxReports <- 2, alerts <- arpAlerts
SnifferOf == INSTANCE Sniffer WITH
  Interfaces <- {"mirror", "veth"}, Mirror <- "mirror", Capacity <- 1,
  QueueMax <- 2, MaxPackets <- 2, MaxMishaps <- 1, queue <- snifferQueue,
  mishaps <- snifferMishaps
EventsOf == INSTANCE Tunnel WITH
  QueueMax <- 2, MaxConcurrentRpc <- 1, Rpcs <- {}, MaxAlerts <- 3,
  MaxSessions <- 2, MaxChanges <- 1, MaxChunks <- 2, MaxBackoff <- 4,
  queue <- eventsQueue, since <- eventsSince, sent <- eventsSent
NotifyOf == INSTANCE Notifications WITH
  Channels <- {"a", "b"}, Throttle <- 2, TTL <- 1, PollTime <- 1,
  MaxTime <- 4, MaxEdits <- 1, MaxMishaps <- 1, now <- notifyNow,
  enabled <- notifyEnabled, cache <- notifyCache, pc <- notifyPc,
  edits <- notifyEdits, mishaps <- notifyMishaps
FeedOf == INSTANCE LiveFeed WITH
  NAlerts <- 2, Window <- 1, MaxMishaps <- 1, rows <- feedRows,
  mishaps <- feedMishaps
SyslogOf == INSTANCE SyslogForward WITH
  Limit <- 2, MaxTime <- 2, MaxAlerts <- 3, MaxMishaps <- 1, MaxEdits <- 1,
  now <- syslogNow, alerts <- syslogAlerts, enabled <- syslogEnabled,
  pc <- syslogPc, rows <- syslogRows, last <- syslogLast, sent <- syslogSent,
  mishaps <- syslogMishaps, edits <- syslogEdits
PatternsOf == INSTANCE PatternBundle WITH
  CustomFiles <- {"a"}, SuricataFiles <- {}, Params <- {"p"}, Appliers <- {1},
  MaxExports <- 1, MaxUploads <- 2, MaxEdits <- 1, MaxCrashes <- 1,
  rules <- patternsRules, scenarios <- patternsScenarios,
  trusts <- patternsTrusts, bundles <- patternsBundles,
  storage <- patternsStorage, uploading <- patternsUploading,
  imports <- patternsImports, apply <- patternsApply, due <- patternsDue,
  row <- patternsRow, file <- patternsFile, edits <- patternsEdits,
  crashes <- patternsCrashes, mixed <- patternsMixed
EchoOf == INSTANCE PatternBundle WITH
  CustomFiles <- {"a"}, SuricataFiles <- {}, Params <- {"p"}, Appliers <- {1},
  MaxExports <- 2, MaxUploads <- 2, MaxEdits <- 0, MaxCrashes <- 0,
  rules <- echoRules, scenarios <- echoScenarios, trusts <- echoTrusts,
  bundles <- echoBundles, storage <- echoStorage, uploading <- echoUploading,
  imports <- echoImports, apply <- echoApply, due <- echoDue, row <- echoRow,
  file <- echoFile, edits <- echoEdits, crashes <- echoCrashes,
  mixed <- echoMixed
ASSUME RolesAssumption
ASSUME SnortOf!SnortAssumption
ASSUME ArpOf!ArpAssumption
ASSUME SnifferOf!SnifferAssumption
ASSUME SuppressionAssumption
ASSUME EventsOf!TunnelAssumption
ASSUME NotifyOf!NotificationsAssumption
ASSUME FeedOf!LiveFeedAssumption
ASSUME SyslogOf!SyslogAssumption
ASSUME MigrationAssumption
ASSUME PatternsOf!PatternAssumption
ASSUME EchoOf!PatternAssumption

Services == {"scenarios", "roles", "snort", "arp", "sniffer", "suppression", "events",
  "notify", "live feed", "syslog", "migration", "patterns",
  "return of a bundle"}

(* The services a behaviour does not pick stay in one initial state. *)
Init ==
  /\ service \in Services
  /\ RedTeamInit
  /\ RolesInit
  /\ SnortOf!SnortInit
  /\ ArpOf!ArpInit
  /\ SnifferOf!SnifferInit
  /\ service # "sniffer" => present = {"mirror"}
  /\ SuppressionInit
  /\ service # "suppression" => (aligned = {} /\ tunable = {})
  /\ EventsOf!TunnelInit
  /\ service # "events" => threshold = "low"
  /\ NotifyOf!DispatchInit
  /\ service # "notify" => notifyEnabled = {}
  /\ FeedOf!FeedInit
  /\ service # "live feed" => ~token
  /\ SyslogOf!SyslogInit
  /\ MigrationInit
  /\ service # "migration" => (missing = {} /\ source = target)
  /\ PatternsOf!PatternInit
  /\ service # "patterns" => patternsRules["lab"]["a"] = 0
  /\ EchoOf!PatternInit
  /\ service # "return of a bundle" => echoRules["lab"]["a"] = 0

RedRuns ==
  /\ service = "scenarios" /\ RedTeamNext
  /\ UNCHANGED <<service, rolesVars, snortState, arpState, snifferState,
       suppressionVars, eventsState, notifyState, feedState, syslogState,
       migrationVars, patternsState, echoState>>
RolesRuns ==
  /\ service = "roles" /\ RolesNext
  /\ UNCHANGED <<service, vars, snortState, arpState, snifferState, suppressionVars,
       eventsState, notifyState, feedState, syslogState, migrationVars,
       patternsState, echoState>>
SnortRuns ==
  /\ service = "snort" /\ SnortOf!SnortNext
  /\ UNCHANGED <<service, vars, rolesVars, arpState, snifferState, suppressionVars,
       eventsState, notifyState, feedState, syslogState, migrationVars,
       patternsState, echoState>>
ArpRuns ==
  /\ service = "arp" /\ ArpOf!ArpNext
  /\ UNCHANGED <<service, vars, rolesVars, snortState, snifferState, suppressionVars,
       eventsState, notifyState, feedState, syslogState, migrationVars,
       patternsState, echoState>>
SnifferRuns ==
  /\ service = "sniffer" /\ SnifferOf!SnifferNext
  /\ UNCHANGED <<service, vars, rolesVars, snortState, arpState, suppressionVars,
       eventsState, notifyState, feedState, syslogState, migrationVars,
       patternsState, echoState>>
SuppressionRuns ==
  /\ service = "suppression" /\ SuppressionNext
  /\ UNCHANGED <<service, vars, rolesVars, snortState, arpState, snifferState,
       eventsState, notifyState, feedState, syslogState, migrationVars,
       patternsState, echoState>>
EventsRuns ==
  /\ service = "events" /\ EventsOf!TunnelNext
  /\ UNCHANGED <<service, vars, rolesVars, snortState, arpState, snifferState,
       suppressionVars, notifyState, feedState, syslogState, migrationVars,
       patternsState, echoState>>
NotifyRuns ==
  /\ service = "notify" /\ NotifyOf!DispatchNext
  /\ UNCHANGED <<service, vars, rolesVars, snortState, arpState, snifferState,
       suppressionVars, eventsState, feedState, syslogState, migrationVars,
       patternsState, echoState>>
FeedRuns ==
  /\ service = "live feed" /\ FeedOf!FeedNext
  /\ UNCHANGED <<service, vars, rolesVars, snortState, arpState, snifferState,
       suppressionVars, eventsState, notifyState, syslogState,
       migrationVars, patternsState, echoState>>
SyslogRuns ==
  /\ service = "syslog" /\ SyslogOf!SyslogNext
  /\ UNCHANGED <<service, vars, rolesVars, snortState, arpState, snifferState,
       suppressionVars, eventsState, notifyState, feedState, migrationVars,
       patternsState, echoState>>
MigrationRuns ==
  /\ service = "migration" /\ MigrationNext
  /\ UNCHANGED <<service, vars, rolesVars, snortState, arpState, snifferState,
       suppressionVars, eventsState, notifyState, feedState, syslogState,
       patternsState, echoState>>
PatternsRuns ==
  /\ service = "patterns" /\ PatternsOf!PatternNext
  /\ UNCHANGED <<service, vars, rolesVars, snortState, arpState, snifferState,
       suppressionVars, eventsState, notifyState, feedState, syslogState,
       migrationVars, echoState>>
EchoRuns ==
  /\ service = "return of a bundle" /\ EchoOf!PatternNext
  /\ UNCHANGED <<service, vars, rolesVars, snortState, arpState, snifferState,
       suppressionVars, eventsState, notifyState, feedState, syslogState,
       migrationVars, patternsState>>

all == <<service, vars, rolesVars, snortState, arpState, snifferState,
         suppressionVars, eventsState, notifyState, feedState, syslogState,
         migrationVars, patternsState, echoState>>

(* Their bounds may end the behaviours of these services. *)
Finished ==
  /\ service \in {"scenarios", "events", "patterns", "return of a bundle"}
  /\ UNCHANGED all

RunNext ==
  \/ RedRuns
  \/ RolesRuns
  \/ SnortRuns
  \/ ArpRuns
  \/ SnifferRuns
  \/ SuppressionRuns
  \/ EventsRuns
  \/ NotifyRuns
  \/ FeedRuns
  \/ SyslogRuns
  \/ MigrationRuns
  \/ PatternsRuns
  \/ EchoRuns
  \/ Finished


RunSpec == Init /\ [][RunNext]_all
-----------------------------------------------------------------------------
(* snort-bridge lets no repetition through within the cooldown, keeps the    *)
(* rate, drops for the rate only when it is used up, and has the overrides   *)
(* in force soon after they were written. arpwatch-bridge books one event    *)
(* per report of arpwatch, with the addresses of that report, and never      *)
(* keeps an address conflict back. The sniffer counts every packet it does   *)
(* not publish, keeps their order and ends with nothing in hand.             *)
SensorFiltersOK ==
  /\ [](service = "snort" =>
       /\ SnortOf!SnortTypeOK
       /\ SnortOf!CooldownKept
       /\ SnortOf!RateKept
       /\ SnortOf!RateDropsJustified)
  /\ SnortOf!OverridesInForce
  /\ [](service = "arp" =>
       /\ ArpOf!OneEventPerReport
       /\ ArpOf!ConflictsNeverKeptBack)
  /\ [](service = "sniffer" =>
       /\ SnifferOf!SnifferTypeOK
       /\ SnifferOf!CapturesAccounted
       /\ SnifferOf!StopsEmpty
       /\ SnifferOf!InOrder)

(* The alerts of app-connect reach the app in their order, an overflow costs *)
(* the oldest, a lost connection one, and the queue drains. A channel gets   *)
(* no second message of an alert rule within the throttle, and none any more *)
(* soon after it was disabled. A browser has one socket, loses nothing it    *)
(* was shown and nothing between the rows of the table and the broadcasts.   *)
(* syslog gets no alert twice and misses none without a cause.               *)
ToTheUserOK ==
  /\ [](service = "events" =>
       /\ EventsOf!TunnelTypeOK
       /\ EventsOf!AlertsInOrder
       /\ EventsOf!OverflowTakesOldest
       /\ EventsOf!OneAlertPerLostConnection
       /\ EventsOf!RefusedBacksOff)
  /\ EventsOf!NoBacklog
  /\ [](service = "notify" => NotifyOf!DispatchTypeOK)
  /\ NotifyOf!ThrottleHolds
  /\ NotifyOf!DisabledGoesQuiet
  /\ [](service = "live feed" =>
       /\ FeedOf!FeedTypeOK
       /\ FeedOf!OneSocket
       /\ FeedOf!NoGap)
  /\ FeedOf!ShownStays
  /\ FeedOf!BackoffRespected
  /\ [](service = "syslog" =>
       /\ SyslogOf!SyslogTypeOK
       /\ SyslogOf!ForwardedInOrderOnce
       /\ SyslogOf!SkipsHaveCause)

(* What a site exports is its own, what is staged is there until it is       *)
(* applied, a recalibration survives, and the diff foretells the files of    *)
(* the import.                                                               *)
PatternBundleOK ==
  /\ [](service = "patterns" => PatternsOf!PatternTypeOK)
  /\ PatternsOf!BundlesKept
  /\ [](service = "return of a bundle" => EchoOf!PatternTypeOK)
  /\ EchoOf!BundlesKept

=============================================================================
