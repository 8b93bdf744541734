---------------------------- MODULE ConfigSync ----------------------------
(***************************************************************************)
(* The configuration bundle: master-uplink reads the rule files and the    *)
(* side files into a bundle, keeps it for a while in _bundle_cache and     *)
(* serves it under an ETag; a tap (config_poll_loop) asks with             *)
(* If-None-Match and writes the files one by one.  A bundle carries        *)
(* generated_at, so that every build has an ETag of its own: the stamp.    *)
(* One tap is followed; of another only the builds that its requests cause *)
(* matter, which share the cache with this one's: the later answer of the  *)
(* database wins.  The side files are one here.                            *)
(***************************************************************************)
EXTENDS Naturals, FiniteSetsExt

CONSTANTS
  NRules,                      \* rule files are written in the order of their names
  MaxRuleEdits, MaxSyncFailures        \* bounds

SyncAssumption == {NRules, MaxRuleEdits, MaxSyncFailures} \subseteq Nat

Rules == 1..NRules
Absent == 0
NoStamp == 0
Stamps == 1..5

VARIABLES
  master, masterSide,  \* versions of the files at the master, Absent without one
  removed,             \* rules that were missing at the master at some time (history)
  cache, cacheValid,   \* _bundle_cache; its time is not over
  poll,                  \* the tap: "idle", "build" (its request waits for the
                       \* database), "answer", "write", "clean", "side"
  body,                \* the bundle built for it or received by it
  other,               \* the one being built for another tap
  inTime,              \* which of these builds began within the current cache time
  files, side,         \* versions of the tap's files
  etag,                \* last_etag
  ruleEdits, syncFailures

syncVars == <<master, masterSide, removed, cache, cacheValid, poll, body, other, inTime, files, side, etag,
              ruleEdits, syncFailures>>
rulesVars == <<master, masterSide, removed, ruleEdits>>
cacheVars == <<cache, cacheValid, other, inTime>>
diskVars == <<files, side>>
pollVars == <<poll, body, files, side, etag>>

Bundles == [rules: [Rules -> 0..MaxRuleEdits + 1], side: 0..MaxRuleEdits + 1,
            complete: BOOLEAN, stamp: Stamps \cup {NoStamp}]
NoBundle == [rules |-> [r \in Rules |-> Absent], side |-> Absent, complete |-> TRUE,
             stamp |-> NoStamp]

SyncInit ==
  /\ master = [r \in Rules |-> 1] /\ masterSide = Absent /\ removed = {}
  /\ cache = NoBundle /\ cacheValid = FALSE
  /\ poll = "idle" /\ body = NoBundle
  /\ other = NoBundle /\ inTime = {}
  /\ files = [r \in Rules |-> Absent] /\ side = Absent
  /\ etag = NoStamp
  /\ ruleEdits = 0 /\ syncFailures = 0

Fails == syncFailures < MaxSyncFailures /\ syncFailures' = syncFailures + 1

\* The api writes or removes a rule file, or writes a side file.
Edit ==
  /\ ruleEdits < MaxRuleEdits /\ ruleEdits' = ruleEdits + 1
  /\ \/ \E r \in Rules :
          \/ master' = [master EXCEPT ![r] = ruleEdits' + 1] /\ UNCHANGED <<masterSide, removed>>
          \/ /\ master[r] # Absent /\ master' = [master EXCEPT ![r] = Absent]
             /\ removed' = removed \cup {r} /\ UNCHANGED masterSide
     \/ masterSide' = ruleEdits' + 1 /\ UNCHANGED <<master, removed>>
  /\ UNCHANGED <<cacheVars, pollVars, syncFailures>>

-----------------------------------------------------------------------------
(* The master: build_config_bundle and _http_config.                       *)

\* _BUNDLE_CACHE_TTL_S passes.
CacheExpires ==
  /\ cacheValid \/ inTime # {}
  /\ cacheValid' = FALSE /\ inTime' = {}
  /\ UNCHANGED <<rulesVars, cache, other, pollVars, syncFailures>>

\* generated_at is later than in any bundle still around.
NewStamp ==
  Min(Stamps \ {cache.stamp, etag, body.stamp, other.stamp})

\* _build_bundle_sync; what cannot be read is left out.
BundleWithout(lost) ==
  [rules |-> [r \in Rules |-> IF r \in lost THEN Absent ELSE master[r]],
   side |-> IF Absent \in lost THEN Absent ELSE masterSide,
   complete |-> lost = {},
   stamp |-> NewStamp]

\* Bug: the cache does not expire.
ServesCacheForEver == cache # NoBundle
ServesCache == cache # NoBundle /\ cacheValid

NewBundle(b) ==
  \/ b = BundleWithout({}) /\ UNCHANGED syncFailures
  \/ \E x \in Rules \cup {Absent} : b = BundleWithout({x}) /\ Fails

AskCached ==
  /\ poll = "idle" /\ ServesCache
  /\ body' = cache /\ poll' = "answer"
  /\ UNCHANGED <<rulesVars, cacheVars, diskVars, etag, syncFailures>>

Ask ==
  /\ poll = "idle" /\ ~ServesCache
  /\ poll' = "build" /\ NewBundle(body') /\ inTime' = inTime \cup {"tap"}
  /\ UNCHANGED <<rulesVars, cache, cacheValid, other, diskVars, etag>>

OtherAsks ==
  /\ other = NoBundle /\ ~ServesCache
  /\ NewBundle(other') /\ inTime' = inTime \cup {"other"}
  /\ UNCHANGED <<rulesVars, cache, cacheValid, pollVars>>

\* get_dns_resolvers answered: the bundle is cached for 30 s from the request on.
CacheBundle(b, who) ==
  cache' = b /\ cacheValid' = (who \in inTime) /\ inTime' = inTime \ {who}

Built ==
  /\ poll = "build" /\ poll' = "answer" /\ CacheBundle(body, "tap")
  /\ UNCHANGED <<rulesVars, body, other, diskVars, etag, syncFailures>>

OtherBuilt ==
  /\ other # NoBundle /\ other' = NoBundle /\ CacheBundle(other, "other")
  /\ UNCHANGED <<rulesVars, pollVars, syncFailures>>

-----------------------------------------------------------------------------
(* The tap: config_poll_loop and _apply_config_bundle.                     *)

EndPoll == poll' = "idle" /\ body' = NoBundle

\* 304 for the bundle it has.
NotModified ==
  /\ poll = "answer" /\ body.stamp = etag /\ EndPoll
  /\ UNCHANGED <<rulesVars, cacheVars, diskVars, etag, syncFailures>>

\* Bug: the tag is stored as soon as the answer is there.
TagOnAnswerEarly == body.stamp
TagOnAnswer == etag

Receive ==
  /\ poll = "answer" /\ body.stamp # etag /\ poll' = "write"
  /\ etag' = TagOnAnswer
  /\ UNCHANGED <<rulesVars, cacheVars, body, diskVars, syncFailures>>

ToWrite == {r \in Rules : body.rules[r] # Absent /\ files[r] # body.rules[r]}

WriteRule ==
  /\ poll = "write"
  /\ IF ToWrite # {}
     THEN LET r == Min(ToWrite) IN
          files' = [files EXCEPT ![r] = body.rules[r]] /\ UNCHANGED poll
     ELSE poll' = "clean" /\ UNCHANGED files
  /\ UNCHANGED <<rulesVars, cacheVars, body, side, etag, syncFailures>>

\* Bug: an incomplete bundle deletes as well.
ObsoleteAlways == {r \in Rules : body.rules[r] = Absent}
Obsolete == IF body.complete THEN {r \in Rules : body.rules[r] = Absent} ELSE {}

\* A file that cannot be unlinked is logged and left.
CleanUp ==
  /\ poll = "clean" /\ poll' = "side"
  /\ \/ /\ files' = [r \in Rules |-> IF r \in Obsolete THEN Absent ELSE files[r]]
        /\ UNCHANGED syncFailures
     \/ Obsolete # {} /\ Fails /\ UNCHANGED files
  /\ UNCHANGED <<rulesVars, cacheVars, body, side, etag>>

\* A side file the bundle lacks stays; then the tag is stored.
WriteSide ==
  /\ poll = "side" /\ EndPoll
  /\ side' = IF body.side # Absent THEN body.side ELSE side
  /\ etag' = body.stamp
  /\ UNCHANGED <<rulesVars, cacheVars, files, syncFailures>>

\* The database, the connection or the disk fails; the next poll begins anew.
PollFails ==
  /\ poll # "idle" /\ Fails /\ EndPoll /\ inTime' = inTime \ {"tap"}
  /\ UNCHANGED <<rulesVars, cache, cacheValid, other, diskVars, etag>>

TapRestarts ==
  /\ poll # "idle" \/ etag # NoStamp
  /\ Fails /\ EndPoll /\ etag' = NoStamp /\ inTime' = inTime \ {"tap"}
  /\ UNCHANGED <<rulesVars, cache, cacheValid, other, diskVars>>

TapStep ==
  \/ AskCached \/ Ask \/ Built \/ NotModified \/ Receive \/ WriteRule \/ CleanUp \/ WriteSide

SyncNext ==
  \/ Edit \/ CacheExpires \/ OtherAsks \/ OtherBuilt \/ TapStep \/ PollFails \/ TapRestarts

SyncSpec == SyncInit /\ [][SyncNext]_syncVars

\* Time passes, the database answers, and the tap polls on.
SyncFairness == WF_syncVars(CacheExpires) /\ WF_syncVars(OtherBuilt) /\ WF_<<poll, files>>(TapStep)

SyncFairSpec == SyncSpec /\ SyncFairness

-----------------------------------------------------------------------------
SyncTypeOK ==
  /\ master \in [Rules -> 0..MaxRuleEdits + 1] /\ masterSide \in 0..MaxRuleEdits + 1
  /\ removed \subseteq Rules /\ {cache, body, other} \subseteq Bundles
  /\ cacheValid \in BOOLEAN /\ inTime \subseteq {"tap", "other"}
  /\ poll \in {"idle", "build", "answer", "write", "clean", "side"}
  /\ files \in [Rules -> 0..MaxRuleEdits + 1] /\ side \in 0..MaxRuleEdits + 1
  /\ etag \in Stamps \cup {NoStamp} /\ ruleEdits \in 0..MaxRuleEdits /\ syncFailures \in 0..MaxSyncFailures

\* tap-uplink main.py:811: a read error at the master takes no rule from a tap;
\* what disappears there was removed at the master.
OnlyRemovedRulesDeleted ==
  [][\A r \in Rules : files[r] # Absent /\ files'[r] = Absent => r \in removed]_syncVars

\* "Not modified" is true: whatever stopped in the middle before, the tap has
\* every file of the bundle it is told it has.
NotModifiedMeansApplied ==
  poll = "answer" /\ body.stamp = etag =>
    /\ \A r \in Rules : body.rules[r] # Absent => files[r] = body.rules[r]
    /\ body.side # Absent => side = body.side

\* A tap told 304 has applied what the master had, and deletes a rule only when
\* the master dropped it.
ConfigSyncOK == [](SyncTypeOK /\ NotModifiedMeansApplied) /\ OnlyRemovedRulesDeleted

\* The tap ends with the rules of the master, whatever failed on the way and
\* whichever of two concurrent builds was cached last.
TapConverges == <>[](files = master)

\* tap-uplink main.py:927: unchanged configuration is not applied again.
UnchangedSkipped ==
  [][poll = "answer" /\ etag # NoStamp /\ poll' = "write" =>
       \/ ToWrite # {} \/ \E r \in Obsolete : files[r] # Absent
       \/ body.side \notin {Absent, side}]_syncVars

=============================================================================
