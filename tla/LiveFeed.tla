------------------------------- MODULE LiveFeed -------------------------------
(***************************************************************************)
(* The live feed of alerts: one browser (frontend, useWebSocket.ts) and    *)
(* the api (ws/manager.py, ws_alerts and _broadcast_loop of main.py).  The *)
(* browser opens a socket, the api registers it, sends it the newest rows  *)
(* of the table and then what it takes from Kafka.  A socket that fails is *)
(* replaced: after a delay when its close event comes, by the watchdog     *)
(* when it does not.                                                       *)
(*                                                                         *)
(* Alerts are numbered in the order of their time.  Of what is shown only  *)
(* the flag pcap_available is kept; the list is shorter than MAX_ALERTS.   *)
(***************************************************************************)
EXTENDS Naturals, Sequences, FiniteSets

CONSTANTS
  NAlerts,
  Window,              \* rows of the first message
  MaxMishaps           \* bound

LiveFeedAssumption == Window \in Nat \ {0} /\ {NAlerts, MaxMishaps} \subseteq Nat

Alerts == 1..NAlerts

VARIABLES
  token,        \* the user has logged in
  sockets,      \* those made so far: see NewSocket
  ws,           \* wsRef, 0 before the first
  timer,        \* reconnectAt is set
  connected,    \* what the page shows
  shown,        \* alert shown -> its pcap flag
  rows,         \* alerts in the table
  pcaps,        \* those of them with a pcap
  published,    \* alerts put on alerts-enriched
  outbox,       \* messages on their way from Kafka to the broadcast loop
  announced,    \* alerts the loop has broadcast, to whoever was there (history)
  mishaps

feedVars == <<token, sockets, ws, timer, connected, shown, rows, pcaps, published, outbox,
              announced, mishaps>>
page == <<token, ws, timer, connected, shown>>
table == <<rows, pcaps, published>>

\* handler is that of the api: "none", "registered", "selected", "serving";
\* told says that the close event has come, or will not come.
NewSocket ==
  [state |-> "connecting", told |-> FALSE, handler |-> "none", snapshot |-> <<>>, wire |-> <<>>,
   initial |-> FALSE, early |-> {}]

FeedInit ==
  /\ token \in BOOLEAN
  /\ sockets = IF token THEN <<NewSocket>> ELSE <<>>
  /\ ws = Len(sockets) /\ timer = FALSE /\ connected = FALSE /\ shown = <<>>
  /\ rows = {} /\ pcaps = {} /\ published = {} /\ outbox = <<>> /\ announced = {} /\ mishaps = 0

Sockets == DOMAIN sockets
Message(type, alerts, flagged) == [type |-> type, data |-> [a \in alerts |-> a \in flagged]]
Mishap == mishaps < MaxMishaps /\ mishaps' = mishaps + 1

-----------------------------------------------------------------------------
(* The browser.                                                            *)

Login ==
  /\ ~token /\ token' = TRUE
  /\ UNCHANGED <<sockets, ws, timer, connected, shown, table, outbox, announced, mishaps>>

\* Bug: a socket that is being opened does not count.
UsableWhenOpen == ws # 0 /\ sockets[ws].state = "open"

Usable == ws # 0 /\ sockets[ws].state \in {"connecting", "open"}

Connect ==
  IF Usable \/ ~token THEN UNCHANGED <<sockets, ws>>
  ELSE sockets' = Append(sockets, NewSocket) /\ ws' = Len(sockets) + 1

TimerFires ==
  /\ timer /\ timer' = FALSE /\ Connect
  /\ UNCHANGED <<token, connected, shown, table, outbox, announced, mishaps>>

\* Bug: the watchdog only corrects what the page shows.
WatchdogConnectsNever == UNCHANGED <<sockets, ws>>

\* A reconnect that is planned is left to its timer.
WatchdogConnects == IF Usable \/ timer THEN UNCHANGED <<sockets, ws>> ELSE Connect

Watchdog ==
  /\ connected' = (ws # 0 /\ sockets[ws].state = "open") /\ WatchdogConnects
  /\ UNCHANGED <<token, timer, shown, table, outbox, announced, mishaps>>

\* onclose: an old socket changes nothing; the current one is replaced later.
CloseEvent(s) ==
  /\ sockets[s].state = "closed" /\ ~sockets[s].told
  /\ sockets' = [sockets EXCEPT ![s].told = TRUE]
  /\ IF s = ws THEN connected' = FALSE /\ timer' = TRUE ELSE UNCHANGED <<connected, timer>>
  /\ UNCHANGED <<token, ws, shown, table, outbox, announced, mishaps>>

\* Bug: the first message replaces what is shown.
MergedReplacing(old, new) == new

\* What is shown stays, with its flag.
Merged(old, new) ==
  [a \in DOMAIN old \cup DOMAIN new |->
     (a \in DOMAIN old /\ old[a]) \/ (a \in DOMAIN new /\ new[a])]

\* onmessage: 'initial' and 'alert' are merged; 'pcap_available' says nothing of
\* an alert that is not shown.
ReceiveMessage(s) ==
  /\ sockets[s].state = "open" /\ sockets[s].wire # <<>>
  /\ LET m == Head(sockets[s].wire) IN
     /\ sockets' = [sockets EXCEPT ![s].wire = Tail(@), ![s].initial = @ \/ m.type = "initial"]
     /\ shown' = IF m.type = "pcap_available"
                 THEN [a \in DOMAIN shown |-> shown[a] \/ a \in DOMAIN m.data]
                 ELSE Merged(shown, m.data)
  /\ UNCHANGED <<token, ws, timer, connected, table, outbox, announced, mishaps>>

-----------------------------------------------------------------------------
(* The api.                                                                *)

\* Bug: the client is registered when it has its first message.
RegisteredWhenServed(s) == sockets[s].handler = "serving"

\* _clients: from the accepting of the socket, before the rows are read.
Registered(s) == sockets[s].handler # "none"

\* ws_alerts accepts the socket, the browser opens it (onopen).
Established(s) ==
  /\ sockets[s].state = "connecting"
  /\ sockets' = [sockets EXCEPT ![s].state = "open", ![s].handler = "registered",
                                ![s].early = announced]
  /\ connected' = (connected \/ s = ws)
  /\ UNCHANGED <<token, ws, timer, shown, table, outbox, announced, mishaps>>

Newest == {a \in rows : Cardinality({b \in rows : b > a}) < Window}

SelectRows(s) ==
  /\ sockets[s].handler = "registered"
  /\ sockets' = [sockets EXCEPT ![s].handler = "selected",
                                ![s].snapshot = Message("initial", Newest, pcaps)]
  /\ UNCHANGED <<page, table, outbox, announced, mishaps>>

SendInitial(s) ==
  /\ sockets[s].handler = "selected"
  /\ sockets' = [sockets EXCEPT ![s].handler = "serving", ![s].wire = Append(@, sockets[s].snapshot)]
  /\ UNCHANGED <<page, table, outbox, announced, mishaps>>

\* The broadcast loop: to every client that is registered.
Broadcast ==
  /\ outbox # <<>> /\ outbox' = Tail(outbox)
  /\ sockets' = [s \in Sockets |->
       IF sockets[s].state = "open" /\ Registered(s)
       THEN [sockets[s] EXCEPT !.wire = Append(@, Head(outbox))] ELSE sockets[s]]
  /\ announced' = IF Head(outbox).type = "alert" THEN announced \cup DOMAIN Head(outbox).data
                  ELSE announced
  /\ UNCHANGED <<page, table, mishaps>>

-----------------------------------------------------------------------------
(* The services behind and the network.                                    *)

\* alert-manager: on the topic, again after a crash, ...
Publish(a) ==
  /\ IF a \in published THEN Mishap ELSE UNCHANGED mishaps
  /\ published' = published \cup {a} /\ outbox' = Append(outbox, Message("alert", {a}, {}))
  /\ UNCHANGED <<page, sockets, rows, pcaps, announced>>

\* ... and in the table, some time later.
StoreRow(a) ==
  /\ a \in published \ rows /\ rows' = rows \cup {a}
  /\ UNCHANGED <<page, sockets, pcaps, published, outbox, announced, mishaps>>

\* pcap-store: the row is marked and the message goes to another topic.
PcapStored(a) ==
  /\ a \in rows \ pcaps /\ pcaps' = pcaps \cup {a}
  /\ outbox' = Append(outbox, Message("pcap_available", {a}, {a}))
  /\ UNCHANGED <<page, sockets, rows, published, announced, mishaps>>

Closed(socket, told) ==
  [socket EXCEPT !.state = "closed", !.told = told, !.handler = "none", !.wire = <<>>]

\* The handshake is refused, fails, or hangs until estTimer closes the socket.
HandshakeFails(s) ==
  /\ sockets[s].state = "connecting" /\ Mishap
  /\ sockets' = [sockets EXCEPT ![s] = Closed(@, FALSE)]
  /\ UNCHANGED <<page, table, outbox, announced>>

\* The connection breaks, with or without a close event.
Breaks(s) ==
  /\ sockets[s].state = "open" /\ Mishap
  /\ \E told \in BOOLEAN : sockets' = [sockets EXCEPT ![s] = Closed(@, told)]
  /\ UNCHANGED <<page, table, outbox, announced>>

\* The api starts again: what it had taken from Kafka is gone with the sockets.
ApiRestart ==
  /\ Mishap /\ outbox' = <<>>
  /\ \E told \in BOOLEAN :
       sockets' = [s \in Sockets |->
         IF sockets[s].state = "closed" THEN sockets[s] ELSE Closed(sockets[s], told)]
  /\ UNCHANGED <<page, table, announced>>

OfSocket(s) ==
  CloseEvent(s) \/ ReceiveMessage(s) \/ Established(s) \/ SelectRows(s) \/ SendInitial(s)
FeedSocket(s) == s \in Sockets /\ OfSocket(s)
FeedRuns == (\E s \in Sockets : FeedSocket(s)) \/ TimerFires \/ Watchdog

FeedNext ==
  \/ FeedRuns \/ Login \/ Broadcast \/ ApiRestart
  \/ \E s \in Sockets : HandshakeFails(s) \/ Breaks(s)
  \/ \E a \in Alerts : Publish(a) \/ StoreRow(a) \/ PcapStored(a)

FeedSpec == FeedInit /\ [][FeedNext]_feedVars

\* Timers run out, events and messages come, the api works; the user need not
\* log in.
FeedFairness ==
  /\ WF_feedVars(TimerFires) /\ WF_feedVars(Watchdog)
  /\ \A s \in 1..(MaxMishaps + 1) : WF_feedVars(FeedSocket(s))

-----------------------------------------------------------------------------
(* Properties.                                                             *)

FeedTypeOK ==
  /\ ws \in {0} \cup Sockets /\ Len(sockets) <= MaxMishaps + 1
  /\ DOMAIN shown \subseteq Alerts /\ \A a \in DOMAIN shown : shown[a] \in BOOLEAN
  /\ pcaps \subseteq rows /\ rows \subseteq published /\ published \subseteq Alerts
  /\ \A s \in Sockets : sockets[s].state = "open" => sockets[s].handler # "none"

\* The browser never has two sockets that are open or being opened, though the
\* watchdog, the timer and late close events all replace them.
OneSocket ==
  \A s \in Sockets : sockets[s].state \in {"connecting", "open"} => s = ws

Live == ws # 0 /\ sockets[ws].state = "open"
CaughtUp == Live /\ sockets[ws].initial /\ sockets[ws].wire = <<>>

\* A browser that has read what was sent to it shows every alert that was
\* broadcast, but those broadcast before it was registered that were not among
\* the newest rows of the table when the api looked: between the rows and the
\* broadcasts there is no gap.
NoGap ==
  CaughtUp =>
    announced \subseteq
      DOMAIN shown \cup (sockets[ws].early \ DOMAIN sockets[ws].snapshot.data)

\* An alert that is shown stays, and so does its link to the pcap, whatever
\* older snapshots and repeated messages come.
ShownStays ==
  [][\A a \in DOMAIN shown : a \in DOMAIN shown' /\ (shown[a] => shown'[a])]_feedVars

\* A planned reconnect is not anticipated: no socket is made while the timer
\* runs but by the timer itself.
BackoffRespected == [][ws' # ws /\ timer => ~timer']_feedVars

\* A user who is logged in has a feed again after every failure, and the page
\* says so.
FeedRecovers == []<>(~token \/ (Live /\ connected /\ sockets[ws].initial))

=============================================================================
