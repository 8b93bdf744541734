---------------------------- MODULE Notifications ----------------------------
(***************************************************************************)
(* notification-dispatcher (main.py, handlers.py) with the channels the    *)
(* api keeps (routers/notifications.py): one loop takes alerts from the    *)
(* bus, holds a copy of the enabled channels, filters and throttles each   *)
(* alert per channel, and waits for all deliveries of an alert before it   *)
(* polls again.  Nothing is delivered twice or tried again.                *)
(*                                                                         *)
(* What the filters of a channel say of an alert is any Boolean.  Time is  *)
(* the monotonic clock, which starts with the host.                        *)
(***************************************************************************)
EXTENDS Integers, FiniteSets

CONSTANTS
  Channels,
  Throttle,    \* seconds between two deliveries on a channel
  TTL,         \* age at which the copy of the channels is refreshed
  PollTime,    \* how long one poll may wait
  MaxTime, MaxEdits, MaxMishaps   \* bounds

NotificationsAssumption ==
  /\ IsFiniteSet(Channels)
  /\ {Throttle, TTL, PollTime, MaxTime, MaxEdits, MaxMishaps} \subseteq Nat

Times == 0..MaxTime
Never == -1

VARIABLES
  now,
  enabled,     \* channels enabled in the database
  disabledAt,  \* channel -> when it was last disabled or deleted, or Never
  cache,       \* channels the dispatcher knows
  loadedAt,    \* when it read them
  markedAt,    \* channel -> _last_sent, 0 if there is none
  sentAt,      \* channel -> its last delivery of an alert in this life (history)
  sending,     \* channels a delivery is under way on
  test,        \* the alert in hand is a test
  pc,          \* "off", "top", "poll" or "sending" of the loop
  waited,      \* how long the poll has waited
  edits, mishaps

dispatchVars == <<now, enabled, disabledAt, cache, loadedAt, markedAt, sentAt, sending,
                  test, pc, waited, edits, mishaps>>
databaseVars == <<enabled, disabledAt, edits>>
copyVars == <<cache, loadedAt>>

DispatchInit ==
  /\ now = 0 /\ enabled \in SUBSET Channels /\ disabledAt = [c \in Channels |-> Never]
  /\ cache = {} /\ loadedAt = 0
  /\ markedAt = [c \in Channels |-> 0] /\ sentAt = [c \in Channels |-> Never]
  /\ sending = {} /\ test = FALSE /\ pc = "off" /\ waited = 0
  /\ edits = 0 /\ mishaps = 0

Mishap == mishaps < MaxMishaps /\ mishaps' = mishaps + 1

-----------------------------------------------------------------------------
(* The world: an operator, and time, which the loop lets pass only while   *)
(* it polls or waits for deliveries.                                       *)

\* create_channel, update_channel, delete_channel
Edit ==
  /\ edits < MaxEdits /\ edits' = edits + 1
  /\ \E c \in Channels :
       IF c \in enabled THEN enabled' = enabled \ {c} /\ disabledAt' = [disabledAt EXCEPT ![c] = now]
                        ELSE enabled' = enabled \cup {c} /\ UNCHANGED disabledAt
  /\ UNCHANGED <<now, copyVars, markedAt, sentAt, sending, test, pc, waited, mishaps>>

Tick ==
  /\ now < MaxTime /\ now' = now + 1
  /\ \/ pc = "poll" /\ waited < PollTime /\ waited' = waited + 1
     \/ pc \in {"off", "sending"} /\ UNCHANGED waited
  /\ UNCHANGED <<databaseVars, copyVars, markedAt, sentAt, sending, test, pc, mishaps>>

-----------------------------------------------------------------------------
(* run                                                                     *)

Start ==
  /\ pc = "off" /\ pc' = "top" /\ cache' = enabled /\ loadedAt' = now
  /\ UNCHANGED <<now, databaseVars, markedAt, sentAt, sending, test, waited, mishaps>>

\* Bug: the copy is refreshed only when it is empty.
StaleEmpty == cache = {}

Stale == now - loadedAt > TTL

\* The top of the loop.  A refresh that fails ends the process: see Crash.
Refresh ==
  /\ pc = "top" /\ pc' = "poll" /\ waited' = 0
  /\ IF Stale THEN cache' = enabled /\ loadedAt' = now ELSE UNCHANGED copyVars
  /\ UNCHANGED <<now, databaseVars, markedAt, sentAt, sending, test, mishaps>>

\* No message, or one that is no alert.
PollEmpty ==
  /\ pc = "poll" /\ pc' = "top"
  /\ UNCHANGED <<now, databaseVars, copyVars, markedAt, sentAt, sending, test, waited, mishaps>>

\* throttle_ok
ThrottleOk(c) == Throttle = 0 \/ now - markedAt[c] >= Throttle

\* Channel.passes: an alert gets through the filters of any of the channels.
Passing == SUBSET cache

\* handle_alert: the filters of the channel, then its throttle.
TakeAlert ==
  /\ pc = "poll"
  /\ \E passing \in Passing : sending' = {c \in passing : ThrottleOk(c)}
  /\ test' = FALSE /\ pc' = IF sending' = {} THEN "top" ELSE "sending"
  /\ UNCHANGED <<now, databaseVars, copyVars, markedAt, sentAt, waited, mishaps>>

\* test_channel: past all filters; a channel not known is looked for afresh.
TakeTest ==
  /\ pc = "poll"
  /\ \E c \in Channels :
       /\ IF c \in cache THEN UNCHANGED copyVars ELSE cache' = enabled /\ loadedAt' = now
       /\ sending' = IF c \in cache' THEN {c} ELSE {}
  /\ test' = TRUE /\ pc' = IF sending' = {} THEN "top" ELSE "sending"
  /\ UNCHANGED <<now, databaseVars, markedAt, sentAt, waited, mishaps>>

\* Bug: only a test is marked.
MarkTest(c) == IF test THEN now ELSE markedAt[c]

\* mark_sent, of a test too.
Mark(c) == now

\* dispatch_to: the handler of the channel's type delivers, or gives up.
Delivered(ok) == IF ok THEN UNCHANGED mishaps ELSE Mishap

\* _send_and_log: what failed is only written down.
EndSend ==
  /\ \E c \in sending, ok \in BOOLEAN :
       /\ Delivered(ok) /\ sending' = sending \ {c}
       /\ markedAt' = IF ok THEN [markedAt EXCEPT ![c] = Mark(c)] ELSE markedAt
       /\ sentAt' = IF ok /\ ~test THEN [sentAt EXCEPT ![c] = now] ELSE sentAt
  /\ pc' = IF sending' = {} THEN "top" ELSE "sending"
  /\ UNCHANGED <<now, databaseVars, copyVars, test, waited>>

\* The process forgets when it delivered last.
Crash ==
  /\ pc # "off" /\ Mishap /\ pc' = "off" /\ sending' = {} /\ cache' = {}
  /\ markedAt' = [c \in Channels |-> 0] /\ sentAt' = [c \in Channels |-> Never]
  /\ UNCHANGED <<now, databaseVars, loadedAt, test, waited>>

DispatchNext ==
  Edit \/ Tick \/ Start \/ Refresh \/ PollEmpty \/ TakeAlert \/ TakeTest \/ EndSend \/ Crash

DispatchSpec == DispatchInit /\ [][DispatchNext]_dispatchVars

-----------------------------------------------------------------------------
DispatchTypeOK ==
  /\ now \in Times /\ loadedAt \in Times /\ waited \in 0..PollTime
  /\ {enabled, cache, sending} \subseteq SUBSET Channels
  /\ disabledAt \in [Channels -> Times \cup {Never}] /\ sentAt \in [Channels -> Times \cup {Never}]
  /\ markedAt \in [Channels -> Times] /\ pc \in {"off", "top", "poll", "sending"}

\* In one life of the dispatcher no two alerts are delivered on a channel
\* within its throttle, though deliveries take their time, fail, and run side
\* by side with those of other channels.
ThrottleHolds ==
  [][\A c \in Channels :
       pc # "off" /\ pc' # "off" /\ sentAt'[c] # sentAt[c] /\ sentAt[c] # Never =>
         sentAt'[c] - sentAt[c] >= Throttle]_dispatchVars

\* A delivery is begun on a channel that is disabled or deleted only until the
\* copy is due and one more poll has passed, however long deliveries on the
\* others have kept the loop.
DisabledGoesQuiet ==
  [][\A c \in sending' \ sending :
       c \notin enabled => now - disabledAt[c] <= TTL + PollTime]_dispatchVars

\* main.py:133: a channel whose last delivery is long ago, or that has had
\* none, is not throttled.
FirstAlertGoesOut ==
  \A c \in cache : pc = "poll" /\ sentAt[c] = Never /\ mishaps = 0 /\ ~test => ThrottleOk(c)

=============================================================================
