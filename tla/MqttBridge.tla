----------------------------- MODULE MqttBridge -----------------------------
(***************************************************************************)
(* mqtt-bridge (main.py): alerts-enriched goes to an MQTT broker.  A       *)
(* session is one Bridge (a paho client) with three loops under gather;    *)
(* any change of the configuration makes the fourth, the watcher, raise,   *)
(* and the supervisor builds the next session.  gather does not cancel     *)
(* the other loops: what they wait for decides how they go on.             *)
(*                                                                         *)
(* The topic has one partition here, owned by one member of the consumer   *)
(* group; alerts the filters refuse are left out but for FilteredAlert.    *)
(***************************************************************************)
EXTENDS Naturals, FiniteSets, FiniteSetsExt

CONSTANTS
  InflightMax,                             \* inflight_max
  MaxAlerts, MaxSessions, MaxDrops         \* bounds

MqttAssumption ==
  {InflightMax, MaxSessions} \subseteq Nat \ {0} /\ {MaxAlerts, MaxDrops} \subseteq Nat

Nobody == 0

VARIABLES
  alerts,        \* how many were produced
  polled,        \* position of the group
  session,       \* number of the latest Bridge
  linked,        \* its paho client is connected
  greeting,      \* the retained "online" of this connection is not yet acknowledged
  members,       \* sessions whose event_consumer_loop runs and is in the group
  owner,         \* the one that has the partition
  holds,         \* session -> alert its loop is publishing, or 0
  inflight,      \* Bridge._inflight of the latest session
  unacked,       \* alerts handed to its paho client and not acknowledged
  delivered, swallowed, discarded, \* alerts acknowledged; polled by a loop of an
                 \* earlier session; in the paho client of one (history)
  drops          \* connections lost

mqttVars == <<alerts, polled, session, linked, greeting, members, owner, holds, inflight,
              unacked, delivered, swallowed, discarded, drops>>
groupVars == <<polled, members, owner, holds, swallowed>>
clientVars == <<linked, greeting, inflight, unacked, delivered>>

MqttInit ==
  /\ alerts = 0 /\ polled = 0 /\ session = 1 /\ linked = FALSE /\ greeting = FALSE
  /\ members = {} /\ owner = Nobody /\ holds = [s \in 1..MaxSessions |-> 0] /\ inflight = 0
  /\ unacked = {} /\ delivered = {} /\ swallowed = {} /\ discarded = {} /\ drops = 0

Alert ==
  /\ alerts < MaxAlerts /\ alerts' = alerts + 1
  /\ UNCHANGED <<groupVars, clientVars, session, discarded, drops>>

-----------------------------------------------------------------------------
(* The client and its window.                                              *)

\* Bug: a full window does not open again.
DecInflightStuck(n) == IF n = InflightMax THEN n ELSE Max({0, n - 1})

\* Bug: no floor.
DecInflightBelow(n) == n - 1

\* _dec_inflight, for every on_publish.
DecInflight(n) == Max({0, n - 1})

\* _on_connect; the first connection of a session also starts its loops, and
\* its consumer joins the group.
Connected ==
  /\ ~linked /\ linked' = TRUE /\ greeting' = TRUE
  /\ IF session \in members \/ holds[session] # 0 THEN UNCHANGED <<members, owner>>
     ELSE members' = members \cup {session} /\ owner' \in members'
  /\ UNCHANGED <<alerts, polled, session, holds, inflight, unacked, delivered, swallowed,
                 discarded, drops>>

GreetingAcked ==
  /\ linked /\ greeting /\ greeting' = FALSE
  /\ inflight' = DecInflight(inflight)
  /\ UNCHANGED <<alerts, groupVars, session, linked, unacked, delivered, discarded, drops>>

\* The threat and tap loops publish with QoS 0: nothing is added, but
\* on_publish comes for these as well.
StatePublished ==
  /\ linked /\ inflight' = DecInflight(inflight)
  /\ UNCHANGED <<alerts, groupVars, session, linked, greeting, unacked, delivered, discarded, drops>>

Acked(a) ==
  /\ linked /\ a \in unacked /\ \A b \in unacked : a <= b
  /\ unacked' = unacked \ {a} /\ delivered' = delivered \cup {a}
  /\ inflight' = DecInflight(inflight)
  /\ UNCHANGED <<alerts, groupVars, session, linked, greeting, discarded, drops>>

\* paho keeps what is not acknowledged and connects again.
Dropped ==
  /\ linked /\ drops < MaxDrops /\ drops' = drops + 1
  /\ linked' = FALSE /\ greeting' = FALSE
  /\ UNCHANGED <<alerts, groupVars, session, inflight, unacked, delivered, discarded>>

\* Bug: the alert is published again.
AfterPublishKept == holds
AfterPublish == [holds EXCEPT ![session] = 0]

\* Bridge.publish of an event (QoS 1).
PublishAlert ==
  /\ linked /\ holds[session] # 0 /\ inflight < InflightMax
  /\ unacked' = unacked \cup {holds[session]} /\ inflight' = inflight + 1
  /\ holds' = AfterPublish
  /\ UNCHANGED <<alerts, polled, members, owner, swallowed, session, linked, greeting,
                 delivered, discarded, drops>>

-----------------------------------------------------------------------------
(* The consumer loops.                                                     *)

\* Bug: the loop polls on while an alert is being published.
MayPollBusy(s) == s \in members /\ owner = s
MayPoll(s) == s \in members /\ owner = s /\ holds[s] = 0

Poll(s) ==
  /\ MayPoll(s) /\ polled < alerts
  /\ polled' = polled + 1
  /\ holds' = [holds EXCEPT ![s] = polled']
  /\ swallowed' = IF s = session THEN swallowed ELSE swallowed \cup {polled'}
  /\ UNCHANGED <<alerts, clientVars, members, owner, session, discarded, drops>>

\* An alert the filters of that session refuse.
FilteredAlert(s) ==
  /\ MayPoll(s) /\ polled < alerts /\ polled' = polled + 1
  /\ UNCHANGED <<alerts, clientVars, members, owner, holds, swallowed, session, discarded, drops>>

\* A loop that does not poll for max.poll.interval is put out of the group; it
\* comes back when it polls again.
Evicted(s) ==
  /\ s \in members /\ holds[s] # 0
  /\ members' = members \ {s}
  /\ owner' \in (IF members' = {} THEN {Nobody} ELSE members')
  /\ UNCHANGED <<alerts, clientVars, polled, holds, swallowed, session, discarded, drops>>

Rejoins ==
  /\ session \notin members /\ linked /\ holds[session] = 0
  /\ members' = members \cup {session} /\ owner' \in members'
  /\ UNCHANGED <<alerts, clientVars, polled, holds, swallowed, session, discarded, drops>>

\* The watcher raises _ReconnectRequested: Bridge.shutdown, next session.  Its
\* client has the old one's identity and none of its messages.
Reconfigure ==
  /\ session < MaxSessions /\ session' = session + 1
  /\ linked' = FALSE /\ greeting' = FALSE /\ inflight' = 0 /\ unacked' = {}
  /\ discarded' = discarded \cup unacked
  /\ swallowed' = swallowed \cup ({holds[session]} \ {0})
  /\ UNCHANGED <<alerts, polled, members, owner, holds, delivered, drops>>

MqttNext ==
  \/ Alert \/ Connected \/ GreetingAcked \/ StatePublished \/ Dropped \/ PublishAlert
  \/ Rejoins \/ Reconfigure
  \/ \E a \in 1..MaxAlerts : Acked(a)
  \/ \E s \in 1..MaxSessions : Poll(s) \/ FilteredAlert(s) \/ Evicted(s)

MqttSpec == MqttInit /\ [][MqttNext]_mqttVars

\* The loops run; a broker that is reached acknowledges; a consumer that does
\* not poll leaves the group in the end.
Links == ~linked /\ linked' = TRUE
Polls(s) == MayPoll(s) /\ polled < alerts /\ polled' = polled + 1

MqttFairness ==
  /\ WF_mqttVars(PublishAlert) /\ WF_linked(Links)
  /\ WF_mqttVars(Rejoins) /\ \A a \in 1..MaxAlerts : WF_mqttVars(Acked(a))
  /\ \A s \in 1..MaxSessions :
       WF_polled(Polls(s)) /\ WF_mqttVars(Evicted(s))

MqttFairSpec == MqttSpec /\ MqttFairness

-----------------------------------------------------------------------------
\* Types of the variables; a partition has an owner while there are members.
MqttTypeOK ==
  /\ alerts \in 0..MaxAlerts /\ polled \in 0..alerts /\ session \in 1..MaxSessions
  /\ {linked, greeting} \subseteq BOOLEAN /\ members \subseteq 1..session
  /\ owner \in members \cup {Nobody} /\ (owner = Nobody => members = {})
  /\ holds \in [1..MaxSessions -> 0..polled] /\ inflight \in 0..MaxAlerts
  /\ unacked \cup delivered \cup swallowed \cup discarded \subseteq 1..polled
  /\ drops \in 0..MaxDrops

\* The counter never claims more than is really out: a publisher waits for the
\* window only while an acknowledgement will come.
WaitsForSomething == inflight <= Cardinality(unacked)

\* main.py:15: at most inflight_max unacknowledged QoS 1 publishes.
WindowKept == Cardinality(unacked) <= InflightMax

\* The loops of earlier sessions take at most one alert each before they are
\* put out of the group.
OneAlertPerOldSession == Cardinality(swallowed) <= session - 1

\* No alert is delivered by two sessions, or after it was given up.
DeliveredOnce ==
  /\ delivered \cap (unacked \cup swallowed \cup discarded \cup {holds[session]}) = {}
  /\ \A s \in 1..MaxSessions, t \in 1..MaxSessions : holds[s] = holds[t] /\ s # t => holds[s] = 0

\* An alert is published once, at most one is lost to each session left behind,
\* and nobody waits for an acknowledgement that will not come.
MqttBridgeOK == MqttTypeOK /\ WaitsForSomething /\ OneAlertPerOldSession /\ DeliveredOnce

\* main.py:260 and 513: a new configuration cancels the running loops, so that
\* one consumer loop runs at a time.
OneConsumerLoop == Cardinality(members) <= 1

\* A loop of an old session cannot keep the partition for ever: every alert is
\* polled.
AlertsPolled == []<>(polled >= alerts)

=============================================================================
