--------------------------- MODULE SignatureEngine ---------------------------
(***************************************************************************)
(* signature-engine, the flows of one source address: the sliding window   *)
(* of a RuleContext (context.py), the rules evaluated one after the other  *)
(* over it, each with its own window and cooldown (engine.py), and the     *)
(* file of overrides, which disables rules and is read again when its      *)
(* modification time has changed (loader.py, main.py).                     *)
(*                                                                         *)
(* A condition is "more than limit different ports in the last window      *)
(* ticks", the form of the rules under rules/ (scan.yml:37).  The api      *)
(* replaces the file as a whole.                                           *)
(***************************************************************************)
EXTENDS Integers, FiniteSets, Sequences

CONSTANTS
  Rules,          \* in the order of evaluation: [window, limit, cooldown]
  Ports,
  AlertWindow,    \* the window an alert counts over for its text (60 s)
  MaxWindow,      \* RuleContext.MAX_WINDOW_S
  MaxLag,         \* bounds: from the end of a flow to its arrival,
  MaxTime, MaxFlows, MaxEdits, MaxRestarts

Numbers == DOMAIN Rules

EngineAssumption ==
  /\ Rules \in Seq([window : Nat, limit : Nat, cooldown : Nat])
  /\ {AlertWindow, MaxWindow, MaxLag, MaxTime, MaxFlows, MaxEdits, MaxRestarts} \subseteq Nat
  /\ \A k \in Numbers : Rules[k].window <= MaxWindow

VARIABLES
  clock,
  file, edits,      \* rules the file disables, changes made so far: its mtime
  disabled, seen,   \* what the loader has in force, the mtime it remembers
  reading,          \* the mtime a reload has noted and not read yet, or None
  window,           \* _dst_ports[src_ip]: the deque of (end of flow, port)
  cooldowns,        \* _cooldowns: rule -> last alert
  flows, restarts,
  recorded,         \* every flow since the start (history)
  alerted,          \* last alert of a rule since it is in force (history)
  early,            \* rules that alerted within their cooldown (history)
  miscounted        \* rules that counted wrong at the last flow (history)

engineVars == <<clock, file, edits, disabled, seen, reading, window, cooldowns, flows,
                restarts, recorded, alerted, early, miscounted>>
windowVars == <<window, cooldowns, flows, recorded, alerted, early, miscounted>>

None == -1

EngineInit ==
  /\ clock = 0 /\ file = {} /\ edits = 0
  /\ disabled = {} /\ seen = 0 /\ reading = None
  /\ window = <<>> /\ cooldowns = <<>> /\ flows = 0 /\ restarts = 0
  /\ recorded = {} /\ alerted = <<>> /\ early = {} /\ miscounted = {}

-----------------------------------------------------------------------------
Put(f, k, v) == [x \in DOMAIN f \cup {k} |-> IF x = k THEN v ELSE f[x]]
Without(f, S) == [x \in DOMAIN f \ S |-> f[x]]

\* _prune_tuple and _cleanup: from the front of the deque, what is older than w.
Pruned(q, w) ==
  LET old == {i \in DOMAIN q : \A j \in 1..i : q[j].ts < clock - w}
  IN  SubSeq(q, Cardinality(old) + 1, Len(q))

DifferentPorts(entries) == Cardinality({e.port : e \in entries})
InLast(w) == {e \in recorded' : e.ts >= clock - w}

\* Bug: the cooldown is not asked.
MayAlertAnyway(cool, k) == TRUE

\* The check of the cooldown (a missing entry counts as 1970).
MayAlert(cool, k) == k \notin DOMAIN cool \/ clock - cool[k] >= Rules[k].cooldown

\* Bug: the pruning of the cooldowns drops them all.
LiveCooldownsNone == <<>>

\* _prune_cooldowns: an entry stays while it counts; one of a rule that is not
\* in force goes.
LiveCooldowns ==
  Without(cooldowns, {k \in DOMAIN cooldowns : k \in disabled \/ MayAlert(cooldowns, k)})

\* evaluate: what the first n rules leave behind.
Evaluated(q, cool) ==
  LET Rule[n \in 0..Len(Rules)] ==
        IF n = 0
        THEN [q |-> q, cool |-> cool, fired |-> {}, wrong |-> {}]
        ELSE LET s == Rule[n - 1]
                 kept == Pruned(s.q, Rules[n].window)
                 count == DifferentPorts({kept[i] : i \in DOMAIN kept})
                 counted == [s EXCEPT !.q = kept, !.wrong = IF
                               count = DifferentPorts(InLast(Rules[n].window)) THEN @ ELSE @ \cup {n}]
             IN  IF n \in disabled THEN s
                 ELSE IF count > Rules[n].limit /\ MayAlert(s.cool, n)
                 THEN [counted EXCEPT !.q = Pruned(kept, AlertWindow),
                                      !.cool = Put(@, n, clock), !.fired = @ \cup {n}]
                 ELSE counted
  IN  Rule[Len(Rules)]

\* A flow is read, recorded and evaluated; its alerts are handed to the
\* producer.  Once a minute the windows and the cooldowns are pruned first.
EvaluateFlow(port, lag, minute) ==
  LET entry == [ts |-> clock - lag, port |-> port]
      q == IF minute THEN Pruned(Append(window, entry), MaxWindow) ELSE Append(window, entry)
      result == Evaluated(q, IF minute THEN LiveCooldowns ELSE cooldowns)
  IN  /\ reading = None /\ flows < MaxFlows
      /\ flows' = flows + 1
      /\ recorded' = recorded \cup {entry}
      /\ window' = result.q /\ cooldowns' = result.cool
      /\ early' = early \cup {k \in result.fired \cap DOMAIN alerted :
                                clock - alerted[k] < Rules[k].cooldown}
      /\ alerted' = [k \in DOMAIN alerted \cup result.fired |->
                       IF k \in result.fired THEN clock ELSE alerted[k]]
      /\ miscounted' = result.wrong
      /\ UNCHANGED <<clock, file, edits, disabled, seen, reading, restarts>>

-----------------------------------------------------------------------------
\* PUT /overrides: the file is replaced.
EditOverrides(d) ==
  /\ edits < MaxEdits /\ d # file
  /\ file' = d /\ edits' = edits + 1
  /\ UNCHANGED <<clock, disabled, seen, reading, windowVars, restarts>>

\* Bug: only the first version of the file counts as new.
ChangedOnce == edits # seen /\ seen = 0

\* _has_changed: the modification time is another one.
Changed == edits # seen

\* maybe_reload, _load_overrides: the modification time is noted ...
NoteTime ==
  /\ reading = None /\ Changed
  /\ reading' = edits
  /\ UNCHANGED <<clock, file, edits, disabled, seen, windowVars, restarts>>

\* ... and the file is read and applied.
ReadOverrides ==
  /\ reading # None
  /\ disabled' = file /\ seen' = reading /\ reading' = None
  /\ alerted' = Without(alerted, file)
  /\ UNCHANGED <<clock, file, edits, window, cooldowns, flows, recorded, early, miscounted,
                 restarts>>

\* The process ends and starts anew: everything is read, nothing remembered.
RestartEngine ==
  /\ restarts < MaxRestarts
  /\ restarts' = restarts + 1
  /\ disabled' = file /\ seen' = edits /\ reading' = None
  /\ window' = <<>> /\ cooldowns' = <<>>
  /\ recorded' = {} /\ alerted' = <<>> /\ early' = {} /\ miscounted' = {}
  /\ UNCHANGED <<clock, file, edits, flows>>

EngineTick ==
  /\ clock < MaxTime
  /\ clock' = clock + 1
  /\ UNCHANGED <<file, edits, disabled, seen, reading, windowVars, restarts>>

EngineDone == clock = MaxTime /\ flows = MaxFlows /\ ~Changed /\ UNCHANGED engineVars

EngineNext ==
  \/ \E port \in Ports, lag \in 0..MaxLag, minute \in BOOLEAN : EvaluateFlow(port, lag, minute)
  \/ \E d \in SUBSET Numbers : EditOverrides(d)
  \/ NoteTime \/ ReadOverrides \/ RestartEngine \/ EngineTick \/ EngineDone

EngineSpec == EngineInit /\ [][EngineNext]_engineVars

\* The loop asks for a reload at an interval, whether flows come or not.
EngineFairness == WF_<<reading, seen>>(NoteTime) /\ WF_<<reading, seen>>(ReadOverrides)
EngineFairSpec == EngineSpec /\ EngineFairness

-----------------------------------------------------------------------------
EngineTypeOK ==
  /\ disabled \subseteq Numbers /\ file \subseteq Numbers
  /\ seen \in 0..MaxEdits /\ reading \in {None} \cup 0..MaxEdits
  /\ DOMAIN cooldowns \subseteq Numbers /\ Len(window) <= flows

\* While a rule stays in force, two alerts of it about the source are at least
\* its cooldown apart, however the cooldowns are pruned in between and the other
\* rules change (engine.py:153-169, 249-254).
CooldownRespected == early = {}

\* Every change of the overrides comes into force: one that falls between the
\* two steps of a reload is not taken for the one that was read
\* (loader.py:354-390, 415-430, 684-712).
OverridesTakeEffect == <>[](disabled = file)

\* What context.py:64 says of a count: "Anzahl eindeutiger Ziel-Ports in den
\* letzten window_s Sekunden".
WindowCounts == miscounted = {}
=============================================================================
