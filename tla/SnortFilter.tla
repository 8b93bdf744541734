----------------------------- MODULE SnortFilter -----------------------------
(***************************************************************************)
(* snort-bridge, from a line of the EVE file to the topic alerts-raw:      *)
(* direction of the connection (direction.py), overrides per SID read      *)
(* again from a file (sid_overrides.py), throttle (throttle.py), and their *)
(* order in main (main.py:242-272).                                        *)
(*                                                                         *)
(* Time counts ticks of 1/Unit s.  A token is Unit units of the bucket, so *)
(* that the refill of a tick, MaxRate units, is a whole number.            *)
(***************************************************************************)
EXTENDS Naturals, FiniteSets, Sequences

CONSTANTS
  Alerts,              \* what Suricata may report, a subset of Alert
  Sids, Conns,
  EngineSids,          \* gid 1, SID 2200000 to 2299999
  Private, Port,       \* of the ends of a connection, as in FlowAggregator
  Contents,            \* what the api may write into the override file
  Cooldown, MaxRate, Unit, Refresh, PurgeAt,
  MaxTime, MaxEdits, MaxAlerts                    \* bounds

Ends == {"a", "b"}
NoPort == 0
Other(e) == IF e = "a" THEN "b" ELSE "a"
Alert == [sid: Sids, conn: Conns, from: Ends, direction: {"to_server", "to_client", "none"}]
Override == {"keep", "off", "low"}

SnortAssumption ==
  /\ Alerts \subseteq Alert /\ EngineSids \subseteq Sids
  /\ Contents \subseteq [Sids -> Override]
  /\ Private \in [Conns -> [Ends -> BOOLEAN]] /\ Port \in [Conns -> [Ends -> Nat]]
  /\ {Cooldown, MaxRate, Refresh, MaxTime, MaxEdits, MaxAlerts} \subseteq Nat
  /\ Unit \in Nat \ {0} /\ PurgeAt \in Nat \ {0}

None == [s \in Sids |-> "keep"]

VARIABLES
  now,
  file, state, version, since,        \* the override file: what was written
                              \* last; "present", "missing" or "broken"; its
                              \* mtime; time of the last change
  cache, seenVersion, lastCheck,      \* SuricataOverrides
  lastSeen, tokens, refilled,         \* AlertThrottle
  passed, rateDropped, cooled,        \* what was published and what was dropped,
                                      \* and why (history)
  handled                             \* alerts read so far

snortVars == <<now, file, state, version, since, cache, seenVersion, lastCheck, lastSeen, tokens,
               refilled, passed, rateDropped, cooled, handled>>

SnortInit ==
  /\ now = Refresh /\ file = None /\ state = "missing" /\ version = 0 /\ since = 0
  /\ cache = None /\ seenVersion = 0 /\ lastCheck = now        \* main reads once first
  /\ lastSeen = <<>> /\ tokens = MaxRate * Unit /\ refilled = now
  /\ passed = <<>> /\ rateDropped = {} /\ cooled = {} /\ handled = 0

-----------------------------------------------------------------------------
\* Bug: the ends are taken as the packet has them.
ClientOfPacket(a) == a.from

\* direction.normalize: the end of the connection taken for the client.
ClientOf(a) ==
  LET s == a.from
      o == Other(a.from)
      private == Private[a.conn]
      port == Port[a.conn]
      wellKnown == [e \in Ends |-> port[e] < 1024]
  IN  CASE a.direction = "to_server" -> s
        [] a.direction = "to_client" -> o
        [] OTHER ->
             IF private[s] # private[o] THEN CHOOSE e \in Ends : private[e]
             ELSE IF NoPort \in {port[s], port[o]} THEN s
             ELSE IF wellKnown[s] # wellKnown[o] THEN CHOOSE e \in Ends : ~wellKnown[e]
             ELSE IF port[s] < port[o] THEN o ELSE s

\* The key of the cooldown: SID, source and destination after normalisation.
Key(a) == <<a.sid, a.conn, ClientOf(a)>>

\* Bug: the file is read once, at the start.
ReloadOnce == [cache |-> cache, seen |-> seenVersion, check |-> lastCheck]

\* reload_if_changed: at most every REFRESH_INTERVAL_S; a file that is gone
\* clears the cache, one that is unreadable leaves it, an unchanged mtime too.
Reload ==
  IF now - lastCheck < Refresh THEN [cache |-> cache, seen |-> seenVersion, check |-> lastCheck]
  ELSE IF state = "missing" THEN [cache |-> None, seen |-> 0, check |-> now]
  ELSE IF version = seenVersion \/ state = "broken"
    THEN [cache |-> cache, seen |-> seenVersion, check |-> now]
  ELSE [cache |-> file, seen |-> version, check |-> now]

Put(f, k, v) == [x \in DOMAIN f \cup {k} |-> IF x = k THEN v ELSE f[x]]

\* Bug: the purge drops entries still inside their cooldown.
PurgedAll(seen) == <<>>

\* _purge: entries whose cooldown is over are removed.
Purged(seen) == [k \in {x \in DOMAIN seen : seen[x] + Cooldown >= now} |-> seen[k]]

\* The map after a hit that is not within its cooldown.
Remember(k) ==
  Put(IF Cardinality(DOMAIN lastSeen) >= PurgeAt THEN Purged(lastSeen) ELSE lastSeen, k, now)

InCooldown(k) == Cooldown > 0 /\ k \in DOMAIN lastSeen /\ now - lastSeen[k] < Cooldown

\* Bug: the bucket has no upper end.
RefilledUnbounded == tokens + (now - refilled) * MaxRate

\* Bug: the bucket is full again as soon as time has passed.
RefilledFull == IF now > refilled THEN MaxRate * Unit ELSE tokens

\* Bug: the time of the last refill is moved without refilling.
RefilledNever == tokens

\* The bucket holds MaxRate tokens at most.
Refilled ==
  LET full == MaxRate * Unit
      n == tokens + (now - refilled) * MaxRate
  IN  IF n > full THEN full ELSE n

Hit(a) == [alert |-> a, at |-> now]

\* AlertThrottle.allow; the cooldown begins before the rate is asked.
Allow(a, severity) ==
  IF a.sid \in EngineSids THEN
    UNCHANGED <<lastSeen, tokens, refilled, passed, rateDropped, cooled>>
  ELSE IF InCooldown(Key(a)) THEN
    /\ cooled' = cooled \cup {Hit(a)}
    /\ UNCHANGED <<lastSeen, tokens, refilled, passed, rateDropped>>
  ELSE
    /\ lastSeen' = IF Cooldown > 0 THEN Remember(Key(a)) ELSE lastSeen
    /\ cooled' = cooled
    /\ IF MaxRate = 0 THEN
         /\ passed' = Append(passed, [alert |-> a, at |-> now, severity |-> severity])
         /\ UNCHANGED <<tokens, refilled, rateDropped>>
       ELSE IF Refilled < Unit THEN
         /\ tokens' = Refilled /\ refilled' = now
         /\ rateDropped' = rateDropped \cup {Hit(a)} /\ UNCHANGED passed
       ELSE
         /\ tokens' = Refilled - Unit /\ refilled' = now
         /\ passed' = Append(passed, [alert |-> a, at |-> now, severity |-> severity])
         /\ UNCHANGED rateDropped

\* One alert: overrides brought up to date and applied, then the throttle.
HandleAlert(a) ==
  LET r == Reload
  IN  /\ handled < MaxAlerts /\ handled' = handled + 1
      /\ cache' = r.cache /\ seenVersion' = r.seen /\ lastCheck' = r.check
      /\ IF r.cache[a.sid] = "off"
           THEN UNCHANGED <<lastSeen, tokens, refilled, passed, rateDropped, cooled>>
           ELSE Allow(a, IF r.cache[a.sid] = "low" THEN "low" ELSE "own")
      /\ UNCHANGED <<now, file, state, version, since>>

\* The api writes the file anew, or someone removes or damages it.
EditFile ==
  /\ version < MaxEdits /\ version' = version + 1 /\ since' = now
  /\ state' \in {"present", "missing", "broken"}
  /\ file' \in IF state' = "present" THEN Contents ELSE {file}
  /\ UNCHANGED <<now, cache, seenVersion, lastCheck, lastSeen, tokens, refilled, passed,
                 rateDropped, cooled, handled>>

Tick ==
  /\ now < MaxTime + Refresh /\ now' = now + 1
  /\ UNCHANGED <<file, state, version, since, cache, seenVersion, lastCheck, lastSeen, tokens, refilled,
                 passed, rateDropped, cooled, handled>>

SnortDone ==
  /\ handled = MaxAlerts \/ now = MaxTime + Refresh
  /\ UNCHANGED snortVars

SnortNext == (\E a \in Alerts : HandleAlert(a)) \/ EditFile \/ Tick \/ SnortDone

SnortSpec == SnortInit /\ [][SnortNext]_snortVars

-----------------------------------------------------------------------------
(* Properties.                                                             *)

Hits == [alert: Alerts, at: Nat]

\* Types of the variables.
SnortTypeOK ==
  /\ {now, version, since, seenVersion, lastCheck, refilled, handled} \subseteq Nat
  /\ {file, cache} \subseteq Contents \cup {None} /\ state \in {"present", "missing", "broken"}
  /\ DOMAIN lastSeen \subseteq Sids \X Conns \X Ends
  /\ tokens \in 0..(MaxRate * Unit)
  /\ \A i \in DOMAIN passed : passed[i].severity \in {"own", "low"}
  /\ rateDropped \cup cooled \subseteq Hits

\* Of one rule on one connection nothing is published twice within the
\* cooldown, whichever side's packet triggered the rule and however often the
\* map was purged.
CooldownKept ==
  \A i, j \in DOMAIN passed :
    i < j /\ passed[i].alert.sid = passed[j].alert.sid /\ passed[i].alert.conn = passed[j].alert.conn
      => passed[j].at - passed[i].at >= Cooldown

PassedIn(from, to) == Cardinality({i \in DOMAIN passed : passed[i].at \in from..to})

\* Over every interval no more is published than a full bucket and its refill.
RateKept ==
  MaxRate = 0 \/ \A i, j \in DOMAIN passed : i <= j =>
    PassedIn(passed[i].at, passed[j].at) * Unit
      <= MaxRate * Unit + (passed[j].at - passed[i].at) * MaxRate

\* The rate limit drops an alert only if that many were published during the
\* last second.
RateDropsJustified ==
  \A h \in rateDropped : PassedIn(h.at - Unit + 1, h.at) >= MaxRate

\* An override that has been in the file for REFRESH_INTERVAL_S governs what
\* is published, a file that is gone counting as no override.
OverridesInForce ==
  [][passed' # passed /\ now - since >= Refresh /\ state # "broken" =>
       LET p == passed'[Len(passed')]
           o == IF state = "present" THEN file[p.alert.sid] ELSE "keep"
       IN  o # "off" /\ (p.severity = "low" <=> o = "low")]_snortVars

\* throttle.py:22: the first hit passes, what the cooldown drops are
\* repetitions of it.
CooldownDropsRepetitions ==
  \A h \in cooled : \E i \in DOMAIN passed :
    /\ passed[i].alert.sid = h.alert.sid /\ passed[i].alert.conn = h.alert.conn
    /\ passed[i].at <= h.at /\ h.at - passed[i].at < Cooldown

=============================================================================
