------------------------------- MODULE MCFleet -------------------------------
(* Instances of the protocols between the master, its taps and the apps, and *)
(* of the rule tuner against the api, for TLC: a behaviour is one of the     *)
(* services at work. They share no state in these models, so that            *)
(* interleaving them would add states and no behaviour.  All of them but    *)
(* the tunnel are extended, so that their properties are checked under their *)
(* own names.                                                                *)
EXTENDS Integers, Sequences, UpdateTrigger, Pairing, MqttBridge, ConfigSync, RuleTuning

VARIABLE service
VARIABLES
  topic, pos, threshold, queue, connection, requestsSession, since, loops,
  sent, overflowed, requestsSwallowed, rpc, backoff, acked, refused, changes

requestsState ==
  <<topic, pos, threshold, queue, connection, requestsSession, since, loops,
    sent, overflowed, requestsSwallowed, rpc, backoff, acked, refused, changes>>

RequestsOf == INSTANCE Tunnel WITH
  QueueMax <- 1, MaxConcurrentRpc <- 1, Rpcs <- {"r1", "r2"}, MaxAlerts <- 0,
  MaxSessions <- 2, MaxChanges <- 1, MaxChunks <- 2, MaxBackoff <- 4,
  session <- requestsSession, swallowed <- requestsSwallowed
ASSUME TriggerAssumption
ASSUME SyncAssumption
ASSUME PairingAssumption
ASSUME RequestsOf!TunnelAssumption
ASSUME MqttAssumption
ASSUME TuningAssumption

Services == {"trigger", "sync", "pairing", "requests", "mqtt", "tuning"}

(* The services a behaviour does not pick stay in one initial state. *)
Init ==
  /\ service \in Services
  /\ TriggerInit
  /\ SyncInit
  /\ PairingInit
  /\ RequestsOf!TunnelInit
  /\ service # "requests" => threshold = "low"
  /\ MqttInit
  /\ TuningInit

TriggerRuns ==
  /\ service = "trigger" /\ TriggerNext
  /\ UNCHANGED <<service, syncVars, pairingVars, requestsState, mqttVars, tuningVars>>
SyncRuns ==
  /\ service = "sync" /\ SyncNext
  /\ UNCHANGED <<service, triggerVars, pairingVars, requestsState, mqttVars,
       tuningVars>>
PairingRuns ==
  /\ service = "pairing" /\ PairingNext
  /\ UNCHANGED <<service, triggerVars, syncVars, requestsState, mqttVars, tuningVars>>
RequestsRuns ==
  /\ service = "requests" /\ RequestsOf!TunnelNext
  /\ UNCHANGED <<service, triggerVars, syncVars, pairingVars, mqttVars, tuningVars>>
MqttRuns ==
  /\ service = "mqtt" /\ MqttNext
  /\ UNCHANGED <<service, triggerVars, syncVars, pairingVars, requestsState,
       tuningVars>>
TuningRuns ==
  /\ service = "tuning" /\ TuningNext
  /\ UNCHANGED <<service, triggerVars, syncVars, pairingVars, requestsState,
       mqttVars>>

all == <<service, triggerVars, syncVars, pairingVars, requestsState, mqttVars,
         tuningVars>>

(* Their bounds may end the behaviours of these services. *)
Finished ==
  /\ service \in {"requests"}
  /\ UNCHANGED all

RunNext ==
  \/ TriggerRuns
  \/ SyncRuns
  \/ PairingRuns
  \/ RequestsRuns
  \/ MqttRuns
  \/ TuningRuns
  \/ Finished

(* The fairness each service states for itself, while it is the one picked. *)
RunFairness ==
  /\ WF_triggerVars(service = "trigger" /\ Select)
  /\ WF_triggerVars(service = "trigger" /\ Send)
  /\ WF_triggerVars(service = "trigger" /\ Acknowledge)
  /\ \A c \in 1..3 :
       WF_triggerVars(service = "trigger" /\ HandlerEnds(c))
  /\ WF_syncVars(service = "sync" /\ CacheExpires)
  /\ WF_syncVars(service = "sync" /\ OtherBuilt)
  /\ WF_<<poll, files>>(service = "sync" /\ TapStep)
  /\ \A c \in {"poller", "cli"} :
       WF_pairingVars(service = "pairing" /\ CheckBegins(c))
  /\ \A c \in {"poller", "cli"} :
       WF_pairingVars(service = "pairing" /\ CheckAnswered(c))
  /\ \A c \in {"poller", "cli"} :
       WF_pairingVars(service = "pairing" /\ CheckEnds(c))
  /\ \A r \in {"r1", "r2"} :
       WF_rpc(service = "requests" /\ RequestsOf!Acquire(r))
  /\ \A r \in {"r1", "r2"} :
       WF_rpc(service = "requests" /\ RequestsOf!Answered(r))
  /\ \A r \in {"r1", "r2"} :
       WF_rpc(service = "requests" /\ RequestsOf!FailRpc(r))
  /\ WF_mqttVars(service = "mqtt" /\ PublishAlert)
  /\ WF_linked(service = "mqtt" /\ Links)
  /\ WF_mqttVars(service = "mqtt" /\ Rejoins)
  /\ \A a \in 1..3 : WF_mqttVars(service = "mqtt" /\ Acked(a))
  /\ \A s \in 1..3 : WF_polled(service = "mqtt" /\ Polls(s))
  /\ \A s \in 1..3 : WF_mqttVars(service = "mqtt" /\ Evicted(s))
  /\ WF_<<tuner, attempt>>(service = "tuning" /\ CycleStep)
  /\ WF_<<windowOver, due>>(service = "tuning" /\ TimePasses)

RunSpec == Init /\ [][RunNext]_all /\ RunFairness
-----------------------------------------------------------------------------
(* A request of the app gets one answer and ends, and a refused login backs  *)
(* off.                                                                      *)
TunnelOK ==
  /\ [](service = "requests" =>
       /\ RequestsOf!TunnelTypeOK
       /\ RequestsOf!OneAnswer
       /\ RequestsOf!RefusedBacksOff)
  /\ RequestsOf!RequestsEnd

(* An update request of a tap that stays connected is answered, a key that   *)
(* was approved gets installed, no old session of the MQTT bridge keeps the  *)
(* alerts for ever, a tap ends with the rules of the master, and a training  *)
(* nobody touches comes to its end.                                          *)
FleetProgress ==
  /\ RequestsAnswered /\ ApprovedIsInstalled /\ AlertsPolled /\ TrainingEnds
  /\ service = "sync" => TapConverges

=============================================================================
