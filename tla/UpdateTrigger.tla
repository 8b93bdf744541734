--------------------------- MODULE UpdateTrigger ---------------------------
(***************************************************************************)
(* The update request of one tap: a click sets update_requested_at in      *)
(* the taps table (api taps.py), update_trigger_loop of master-uplink      *)
(* selects pending requests, writes an update_now frame to the connection  *)
(* registered in _active_taps and sets update_acked_at; the tap leaves a   *)
(* trigger file for its host.  The time of the database is the variable    *)
(* now, which only clicks and acknowledgements move.                       *)
(***************************************************************************)
EXTENDS Naturals

CONSTANTS MaxClicks, MaxConns, MaxDbErrors                         \* bounds

TriggerAssumption == {MaxClicks, MaxConns, MaxDbErrors} \subseteq Nat

Null == 0       \* NULL of the columns, no connection in the registry

VARIABLES
  now, requestedAt, ackedAt,  \* the columns, Null or a time
  handler,      \* connection -> its handle_tap: "new", "open", "cut" (the tap is
                \* gone, the handler does not know), "over"
  registry,     \* _active_taps of this tap
  pc,           \* the loop: "asleep", "selected" or "sent"
  selected,     \* the connection it sends on
  framesFor,    \* click -> frames sent because of it (history)
  clicks, triggers, dbErrors  \* history; triggers: files written at the tap

triggerVars == <<now, requestedAt, ackedAt, handler, registry, pc, selected, framesFor,
                 clicks, triggers, dbErrors>>
requestVars == <<now, requestedAt, ackedAt, clicks>>
connVars == <<handler, registry>>
loopVars == <<pc, selected, framesFor, triggers, dbErrors>>

Conns == 1..MaxConns

TriggerInit ==
  /\ now = 0 /\ requestedAt = Null /\ ackedAt = Null /\ clicks = 0
  /\ handler = [c \in Conns |-> "new"] /\ registry = Null
  /\ pc = "asleep" /\ selected = Null /\ framesFor = [n \in 1..MaxClicks |-> 0]
  /\ triggers = 0 /\ dbErrors = 0

\* trigger_tap_update.
Click ==
  /\ clicks < MaxClicks /\ clicks' = clicks + 1
  /\ now' = now + 1 /\ requestedAt' = now' /\ ackedAt' = Null
  /\ UNCHANGED <<connVars, loopVars>>

-----------------------------------------------------------------------------
(* Connections: the tap holds one, the master may hold several.            *)

\* The tap connects again before the master has seen its old connection end.
TapConnects(c) ==
  /\ handler[c] = "new" /\ \A d \in Conns : (d < c => handler[d] # "new") /\ handler[d] # "open"
  /\ handler' = [handler EXCEPT ![c] = "open"]
  /\ registry' = c
  /\ UNCHANGED <<requestVars, loopVars>>

TapDisconnects(c) ==
  /\ handler[c] = "open" /\ handler' = [handler EXCEPT ![c] = "cut"]
  /\ UNCHANGED <<requestVars, registry, loopVars>>

\* Bug: the entry is removed whosever it is.
WithoutEntryAny(c) == Null

\* The finally of handle_tap takes only its own entry away.
WithoutEntry(c) == IF registry = c THEN Null ELSE registry

HandlerEnds(c) ==
  /\ handler[c] = "cut" /\ handler' = [handler EXCEPT ![c] = "over"]
  /\ registry' = WithoutEntry(c)
  /\ UNCHANGED <<requestVars, loopVars>>

-----------------------------------------------------------------------------
(* update_trigger_loop, a pass every 5 s.                                  *)

\* Bug: a request once acknowledged is pending again.
PendingAnyway == requestedAt # Null
Pending == requestedAt # Null /\ (ackedAt = Null \/ requestedAt > ackedAt)

Select ==
  /\ pc = "asleep" /\ Pending /\ registry # Null
  /\ pc' = "selected" /\ selected' = registry
  /\ UNCHANGED <<requestVars, connVars, framesFor, triggers, dbErrors>>

\* A pass without a request, or without a connection to send it on.
NothingToSend ==
  /\ pc = "asleep" /\ ~(Pending /\ registry # Null) /\ UNCHANGED triggerVars

\* A frame on a connection the tap has left is written to the socket all the
\* same, and so is lost; or the write fails and the pass goes on.
Send ==
  /\ pc = "selected"
  /\ \/ /\ pc' = "sent"
        /\ framesFor' = [framesFor EXCEPT ![clicks] = @ + 1]
        /\ triggers' = IF handler[selected] = "open" THEN triggers + 1 ELSE triggers
     \/ /\ handler[selected] # "open" /\ pc' = "asleep" /\ UNCHANGED <<framesFor, triggers>>
  /\ UNCHANGED <<requestVars, connVars, selected, dbErrors>>

\* UPDATE taps SET update_acked_at = now().
Acknowledge ==
  /\ pc = "sent" /\ pc' = "asleep"
  /\ \/ now' = now + 1 /\ ackedAt' = now' /\ UNCHANGED dbErrors
     \/ /\ dbErrors < MaxDbErrors /\ dbErrors' = dbErrors + 1
        /\ UNCHANGED <<now, ackedAt>>
  /\ UNCHANGED <<requestedAt, clicks, connVars, selected, framesFor, triggers>>

TriggerNext ==
  \/ Click \/ Select \/ NothingToSend \/ Send \/ Acknowledge
  \/ \E c \in Conns : TapConnects(c) \/ TapDisconnects(c) \/ HandlerEnds(c)

TriggerSpec == TriggerInit /\ [][TriggerNext]_triggerVars

\* The loop goes round; TCP tells the master in the end.
TriggerFairness ==
  /\ WF_triggerVars(Select) /\ WF_triggerVars(Send) /\ WF_triggerVars(Acknowledge)
  /\ \A c \in Conns : WF_triggerVars(HandlerEnds(c))

TriggerFairSpec == TriggerSpec /\ TriggerFairness

-----------------------------------------------------------------------------
TriggerTypeOK ==
  /\ {requestedAt, ackedAt} \subseteq 0..now /\ now \in Nat
  /\ handler \in [Conns -> {"new", "open", "cut", "over"}]
  /\ registry \in Conns \cup {Null} /\ pc \in {"asleep", "selected", "sent"}
  /\ selected \in Conns \cup {Null} /\ framesFor \in [1..MaxClicks -> Nat]
  /\ clicks \in 0..MaxClicks /\ triggers \in Nat /\ dbErrors \in 0..MaxDbErrors

\* A tap that is connected can be reached: however the old handler and the new
\* one interleave, the registry holds the connection the tap uses.
ConnectedTapReachable == \A c \in Conns : handler[c] = "open" => registry = c

\* A click is answered by one frame, another one only for an UPDATE that
\* failed: the tap is not told to update again and again.
OneFramePerClick ==
  \A n \in 1..MaxClicks : framesFor[n] <= 1 + dbErrors

\* A tap that is connected stays in the registry whatever its earlier connection
\* does in its finally block, and a click costs one frame.
UpdateTriggerOK == TriggerTypeOK /\ ConnectedTapReachable /\ OneFramePerClick

\* A request of a tap that stays connected does not stay pending.
RequestsAnswered == []<>(~Pending) \/ []<>(\A c \in Conns : handler[c] # "open")

\* main.py:1113: the columns and the registry need no lock; taps.py:204: a second
\* click is sent again.  Every acknowledged click was sent.
EachClickSent ==
  pc = "asleep" /\ requestedAt # Null /\ ~Pending => framesFor[clicks] > 0

=============================================================================
