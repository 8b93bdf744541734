---------------------------- MODULE MasterProofs ----------------------------
(***************************************************************************)
(* Promises of the master, for every window, interval and delay and any    *)
(* number of hosts' edits, uploads, alerts, trainings, saves and failures. *)
(*                                                                         *)
(* Of a host: the alert that it is unknown has a reason and is not         *)
(* repeated (HostTrust), and the role it is said to have was served not    *)
(* long ago and is not one the operator refused (HostRoles).  In both,     *)
(* evidence is handed on: the doubt from the row to the answer in hand,    *)
(* from there to the cache or to the alert, and from the cache to a later  *)
(* alert; the role from the slot of the tap to a frame, a profile of the   *)
(* master, the detector and the entry.  At each of these places the        *)
(* invariant says how old it may be.                                       *)
(*                                                                         *)
(* Of the jobs behind the console: no upload is left on the disk           *)
(* (OfflineUpdate), a capture holds its whole window (PcapStore), a locked *)
(* threshold and a finished training stand (MlConfig, AnomalyModel), and a *)
(* rule reported as written is in its file (SuricataRules).                *)
(***************************************************************************)
EXTENDS HostTrust, HostRoles, OfflineUpdate, PcapStore, MlConfig, AnomalyModel, SuricataRules, TLAPS

-----------------------------------------------------------------------------
(* The trust of a host.                                                    *)

(* None lies before all moments. *)
Past(t) == t \in Int /\ None <= t /\ t <= now

Moments ==
  /\ now \in Nat /\ untrusted \in Nat
  /\ Past(untrusted) /\ Past(cache.at) /\ Past(dedup) /\ Past(lastAlert) /\ Past(unread)

Truths == host.trusted \in BOOLEAN /\ cache.trusted \in BOOLEAN /\ info \in BOOLEAN

(* The address was untrusted, or its trust unreadable, at t or later. *)
DoubtSince(t) == untrusted >= t \/ (unread # None /\ unread >= t)

(* An untrusted row is noted at every moment; an answer in the cache or in *)
(* hand that says untrusted is no older than the last doubt, and an alert  *)
(* is due only while the doubt is younger than a cached answer may be.     *)
DoubtIsNoted == ~host.trusted => untrusted = now
CacheFounded == cache.at # None /\ ~cache.trusted => DoubtSince(cache.at)
AnswerFounded == pc \in {"lookup", "store", "store named"} /\ ~info => DoubtSince(now)
Doubted == Within(untrusted, TTL) \/ Within(unread, TTL)
AlertFounded == pc \in {"check", "insert"} => Doubted

(* The table of repetitions is never behind the alerts. *)
ClaimFirst == lastAlert # None => dedup # None /\ lastAlert <= dedup
ClaimSpaced ==
  pc = "insert" => dedup = now /\ (lastAlert = None \/ lastAlert < now - Dedup)

TrustInv ==
  /\ Moments /\ Truths
  /\ DoubtIsNoted /\ CacheFounded /\ AnswerFounded /\ AlertFounded
  /\ ClaimFirst /\ ClaimSpaced /\ UnknownHostAlertsJustified
-----------------------------------------------------------------------------
LEMMA TrustConstants == TTL \in Nat /\ Dedup \in Nat
  BY TrustAssumption DEF TrustAssumption

LEMMA TrustInitially == TrustInit => TrustInv
<1> SUFFICES ASSUME TrustInit PROVE TrustInv
  OBVIOUS
<1> USE TrustConstants DEF TrustInit, None, Empty, NoHost
<1>1. Moments
  BY DEF Moments, Past
<1>2. Truths /\ DoubtIsNoted
  BY DEF Truths, DoubtIsNoted
<1>3. CacheFounded /\ AnswerFounded /\ AlertFounded
  BY DEF CacheFounded, AnswerFounded, AlertFounded
<1>4. ClaimFirst /\ ClaimSpaced
  BY DEF ClaimFirst, ClaimSpaced
<1>5. UnknownHostAlertsJustified
  BY DEF UnknownHostAlertsJustified
<1> QED
  BY <1>1, <1>2, <1>3, <1>4, <1>5 DEF TrustInv

(* The edits of the operator, in one. *)
LEMMA EditsAreEdits ==
  ASSUME TrustNext
  PROVE  \/ UseCache \/ ReadTrust \/ TrustUnreadable
         \/ \E named, redis \in BOOLEAN : LookedUp(named, redis)
         \/ \E stored \in BOOLEAN : Store(stored)
         \/ ClaimAlert \/ InsertAlert \/ GiveUp
         \/ \E given, said, redis : given.trusted \in BOOLEAN /\ Edit(given, said, redis)
         \/ DeleteHost \/ TrustTick
<1>1. ASSUME NEW src, NEW redis, TrustHost(src, redis)
      PROVE  \E given, said, r : given.trusted \in BOOLEAN /\ Edit(given, said, r)
  <2> DEFINE given == [known |-> TRUE, trusted |-> TRUE,
                     source |-> IF host.source = "manual" THEN "manual" ELSE src]
  <2>1. given.trusted \in BOOLEAN
    OBVIOUS
  <2>2. Edit(given, "trust", redis)
    BY <1>1 DEF TrustHost
  <2> HIDE DEF given
  <2> QED
    BY <2>1, <2>2
<1>2. ASSUME NEW redis, DistrustHost(redis)
      PROVE  \E given, said, r : given.trusted \in BOOLEAN /\ Edit(given, said, r)
  <2> DEFINE given == [known |-> TRUE, trusted |-> FALSE, source |-> "manual"]
  <2>1. given.trusted \in BOOLEAN
    OBVIOUS
  <2>2. Edit(given, "distrust", redis)
    BY <1>2 DEF DistrustHost
  <2> HIDE DEF given
  <2> QED
    BY <2>1, <2>2
<1> QED
  BY <1>1, <1>2, Zenon DEF TrustNext

-----------------------------------------------------------------------------
(* Steps in which no time passes: what they may change of the moments, and *)
(* what holds of them for that reason alone.                               *)
Instant ==
  /\ now' = now
  /\ untrusted' = untrusted \/ untrusted' = now
  /\ unread' = unread \/ unread' = now
  /\ dedup' = dedup \/ dedup' = now
  /\ lastAlert' = lastAlert \/ lastAlert' = now
  /\ cache'.at = cache.at \/ cache'.at = now \/ cache'.at = None

LEMMA InstantMoments ==
  ASSUME Moments, Instant
  PROVE  /\ Moments'
         /\ \A t \in Int : t <= now /\ DoubtSince(t) => DoubtSince(t)'
         /\ Doubted => Doubted'
<1> USE TrustConstants DEF None
<1>1. /\ now \in Nat /\ untrusted \in Nat /\ untrusted <= now
      /\ cache.at \in Int /\ -1 <= cache.at /\ cache.at <= now
      /\ dedup \in Int /\ -1 <= dedup /\ dedup <= now
      /\ lastAlert \in Int /\ -1 <= lastAlert /\ lastAlert <= now
      /\ unread \in Int /\ -1 <= unread /\ unread <= now
  BY DEF Moments, Past
<1>2. Moments'
  BY <1>1 DEF Moments, Past, Instant
<1>3. ASSUME NEW t \in Int, t <= now, DoubtSince(t) PROVE DoubtSince(t)'
  BY <1>1, <1>3 DEF DoubtSince, Instant
<1>4. now - now <= TTL
  BY <1>1
<1>5. Doubted => Doubted'
  <2>1. now' = now /\ (untrusted' = untrusted \/ untrusted' = now) /\ (unread' = unread \/ unread' = now)
    BY DEF Instant
  <2>2. untrusted' = untrusted \/ (untrusted' # None /\ now' - untrusted' <= TTL)
    BY <1>1, <1>4, <2>1
  <2>3. unread' = unread \/ (unread' # None /\ now' - unread' <= TTL)
    BY <1>1, <1>4, <2>1
  <2> QED
    BY <2>1, <2>2, <2>3, Zenon DEF Doubted, Within
<1> QED
  BY <1>2, <1>3, <1>5

(* UseCache: a doubt in the cache is younger than TTL. *)
LEMMA UseCacheKeeps == TrustInv /\ UseCache => TrustInv'
<1> SUFFICES ASSUME TrustInv, UseCache PROVE TrustInv'
  OBVIOUS
<1>1. /\ UNCHANGED <<now, host, cache, dedup, lastAlert, untrusted, unread, repeated, unfounded>>
      /\ info' = cache.trusted /\ pc' = AfterAnswer(cache.trusted)
      /\ pc' # "insert" /\ pc' \notin {"lookup", "store", "store named"}
  BY DEF UseCache, trustHistory, AfterAnswer
<1>2. Instant
  BY <1>1 DEF Instant
<1>3. Moments /\ Moments'
  BY <1>2, InstantMoments DEF TrustInv
<1>4. Truths' /\ DoubtIsNoted' /\ CacheFounded'
  BY <1>1 DEF TrustInv, Truths, DoubtIsNoted, CacheFounded, DoubtSince
<1>5. AnswerFounded' /\ ClaimFirst' /\ ClaimSpaced' /\ UnknownHostAlertsJustified'
  BY <1>1 DEF TrustInv, AnswerFounded, ClaimFirst, ClaimSpaced, UnknownHostAlertsJustified
<1>6. AlertFounded'
  <2>1. CASE cache.trusted
    <3>1. pc' = "idle"
      BY <1>1, <2>1 DEF AfterAnswer
    <3> QED
      BY <3>1 DEF AlertFounded
  <2>2. CASE ~cache.trusted
    <3>1. cache.at # None /\ now - cache.at < TTL
      BY DEF UseCache, Cached
    <3>2. DoubtSince(cache.at)
      BY <2>2, <3>1 DEF TrustInv, CacheFounded
    <3>3. Doubted
      BY <1>3, <3>1, <3>2, TrustConstants DEF Moments, Past, DoubtSince, Doubted, Within, None
    <3> QED
      BY <1>1, <3>3 DEF AlertFounded, Doubted, Within
  <2> QED
    BY <2>1, <2>2
<1> QED
  BY <1>3, <1>4, <1>5, <1>6 DEF TrustInv

(* ReadTrust and TrustUnreadable: an answer that says untrusted is fresh. *)
LEMMA ReadKeeps == TrustInv /\ (ReadTrust \/ TrustUnreadable) => TrustInv'
<1> SUFFICES ASSUME TrustInv, ReadTrust \/ TrustUnreadable PROVE TrustInv'
  OBVIOUS
<1>1. /\ UNCHANGED <<now, host, cache, dedup, lastAlert, untrusted, repeated, unfounded>>
      /\ unread' = unread \/ unread' = now
      /\ pc' = "lookup"
      /\ \/ info' = host.trusted
         \/ info' = FALSE /\ unread' = now
  BY DEF ReadTrust, TrustUnreadable, trustHistory
<1>2. Instant
  BY <1>1 DEF Instant
<1>3. /\ Moments /\ Moments'
      /\ \A t \in Int : t <= now /\ DoubtSince(t) => DoubtSince(t)'
  BY <1>2, InstantMoments DEF TrustInv
<1>4. Truths' /\ DoubtIsNoted'
  BY <1>1 DEF TrustInv, Truths, DoubtIsNoted
<1>5. CacheFounded'
  <2> SUFFICES ASSUME cache'.at # None, ~cache'.trusted PROVE DoubtSince(cache.at)'
    BY <1>1 DEF CacheFounded, DoubtSince
  <2>1. DoubtSince(cache.at) /\ cache.at \in Int /\ cache.at <= now
    BY <1>1 DEF TrustInv, CacheFounded, Moments, Past
  <2>2. unread' = unread \/ (unread' = now /\ now \in Nat)
    BY <1>1, <1>3 DEF Moments
  <2> QED
    BY <1>1, <2>1, <2>2 DEF DoubtSince, None
<1>6. AnswerFounded'
  <2> SUFFICES ASSUME ~info' PROVE DoubtSince(now)'
    BY DEF AnswerFounded
  <2>1. untrusted' = now' \/ unread' = now'
    BY <1>1 DEF TrustInv, DoubtIsNoted
  <2>2. now' \in Nat /\ now' # None
    BY <1>3 DEF Moments, None
  <2> QED
    BY <2>1, <2>2 DEF DoubtSince
<1>7. AlertFounded' /\ ClaimFirst' /\ ClaimSpaced' /\ UnknownHostAlertsJustified'
  BY <1>1 DEF TrustInv, AlertFounded, ClaimFirst, ClaimSpaced, UnknownHostAlertsJustified
<1> QED
  BY <1>3, <1>4, <1>5, <1>6, <1>7 DEF TrustInv

(* LookedUp: what is cached is the answer in hand. *)
LEMMA LookedUpKeeps ==
  ASSUME TrustInv, NEW named \in BOOLEAN, NEW redis \in BOOLEAN, LookedUp(named, redis)
  PROVE  TrustInv'
<1>1. /\ UNCHANGED <<now, host, dedup, lastAlert, untrusted, unread, repeated, unfounded>>
      /\ pc = "lookup" /\ pc' \in {"store", "store named"}
      /\ info' = (info \/ named)
      /\ cache' = IF redis THEN [trusted |-> info', at |-> now] ELSE cache
  BY DEF LookedUp, trustHistory
<1>2. cache' = cache \/ (cache'.trusted = info' /\ cache'.at = now)
  <2>1. CASE redis
    <3>1. cache' = [trusted |-> info', at |-> now]
      BY <1>1, <2>1
    <3> QED
      BY <3>1
  <2>2. CASE ~redis
    BY <1>1, <2>2
  <2> QED
    BY <2>1, <2>2
<1>3. Instant
  <2>1. cache'.at = cache.at \/ cache'.at = now
    BY <1>2
  <2> QED
    BY <1>1, <2>1 DEF Instant
<1>4. Moments /\ Moments' /\ now \in Nat
  BY <1>3, InstantMoments DEF TrustInv, Moments
<1>5. info \in BOOLEAN
  BY DEF TrustInv, Truths
<1>6. info' \in BOOLEAN /\ (~info' => ~info)
  BY <1>1, <1>5
<1>7. Truths' /\ DoubtIsNoted'
  <2>1. cache'.trusted = cache.trusted \/ cache'.trusted = info'
    BY <1>2
  <2>2. cache'.trusted \in BOOLEAN
    BY <1>6, <2>1 DEF TrustInv, Truths
  <2>3. host'.trusted \in BOOLEAN
    BY <1>1 DEF TrustInv, Truths
  <2>4. DoubtIsNoted'
    BY <1>1 DEF TrustInv, DoubtIsNoted
  <2> QED
    BY <1>6, <2>2, <2>3, <2>4 DEF Truths
<1>8. ~info' => DoubtSince(now)
  BY <1>1, <1>6 DEF TrustInv, AnswerFounded
<1>9. AnswerFounded'
  BY <1>1, <1>8 DEF AnswerFounded, DoubtSince
<1>10. CacheFounded'
  <2>1. CASE cache' = cache
    BY <1>1, <2>1 DEF TrustInv, CacheFounded, DoubtSince
  <2>2. CASE cache'.trusted = info' /\ cache'.at = now
    BY <1>1, <1>8, <2>2 DEF CacheFounded, DoubtSince
  <2> QED
    BY <1>2, <2>1, <2>2
<1>11. AlertFounded' /\ ClaimFirst' /\ ClaimSpaced' /\ UnknownHostAlertsJustified'
  BY <1>1 DEF TrustInv, AlertFounded, ClaimFirst, ClaimSpaced, UnknownHostAlertsJustified
<1> QED
  BY <1>4, <1>7, <1>9, <1>10, <1>11 DEF TrustInv

(* Store: the row is only made more trusted, and a doubt of this moment is *)
(* young enough for an alert.                                              *)
LEMMA StoreKeeps ==
  ASSUME TrustInv, NEW stored \in BOOLEAN, Store(stored)
  PROVE  TrustInv'
<1>1. /\ UNCHANGED <<now, cache, dedup, info, lastAlert, untrusted, unread, repeated, unfounded>>
      /\ pc \in {"store", "store named"} /\ pc' = AfterAnswer(info)
      /\ host' = host \/ host' = Raised(pc = "store named")
  BY DEF Store, trustHistory
<1>2. Instant
  BY <1>1 DEF Instant
<1>3. Moments /\ Moments' /\ now \in Nat
  BY <1>2, InstantMoments DEF TrustInv, Moments
<1>4. host'.trusted \in BOOLEAN /\ (~host'.trusted => ~host.trusted)
  <2>1. CASE host' = host
    BY <2>1 DEF TrustInv, Truths
  <2>2. CASE host' = Raised(pc = "store named")
    <3>1. host'.trusted = (host.trusted \/ pc = "store named")
      BY <2>2 DEF Raised
    <3> QED
      BY <3>1 DEF TrustInv, Truths
  <2> QED
    BY <1>1, <2>1, <2>2
<1>5. Truths' /\ DoubtIsNoted' /\ CacheFounded'
  BY <1>1, <1>4 DEF TrustInv, Truths, DoubtIsNoted, CacheFounded, DoubtSince
<1>6. AlertFounded'
  <2>1. CASE info
    <3>1. pc' = "idle"
      BY <1>1, <2>1 DEF AfterAnswer
    <3> QED
      BY <3>1 DEF AlertFounded
  <2>2. CASE ~info
    <3>1. DoubtSince(now)
      BY <1>1, <2>2 DEF TrustInv, AnswerFounded
    <3>2. Doubted
      BY <1>3, <3>1, TrustConstants DEF Moments, Past, DoubtSince, Doubted, Within, None
    <3> QED
      BY <1>1, <3>2 DEF AlertFounded, Doubted, Within
  <2> QED
    BY <2>1, <2>2
<1>7. AnswerFounded' /\ ClaimFirst' /\ ClaimSpaced' /\ UnknownHostAlertsJustified'
  BY <1>1 DEF TrustInv, AnswerFounded, ClaimFirst, ClaimSpaced, UnknownHostAlertsJustified,
              AfterAnswer
<1> QED
  BY <1>3, <1>5, <1>6, <1>7 DEF TrustInv

(* ClaimAlert: what is entered in the table of repetitions is spaced. *)
LEMMA ClaimKeeps == TrustInv /\ ClaimAlert => TrustInv'
<1> SUFFICES ASSUME TrustInv, ClaimAlert PROVE TrustInv'
  OBVIOUS
<1>1. /\ UNCHANGED <<now, host, cache, info, lastAlert, untrusted, unread, repeated, unfounded>>
      /\ pc = "check"
      /\ \/ MayRepeat /\ dedup' = now /\ pc' = "insert"
         \/ dedup' = dedup /\ pc' = "idle"
  BY DEF ClaimAlert, trustHistory
<1>2. Instant
  BY <1>1 DEF Instant
<1>3. Moments /\ Moments'
  BY <1>2, InstantMoments DEF TrustInv
<1>4. Truths' /\ DoubtIsNoted' /\ CacheFounded' /\ AnswerFounded'
  BY <1>1 DEF TrustInv, Truths, DoubtIsNoted, CacheFounded, AnswerFounded, DoubtSince
<1>5. AlertFounded'
  BY <1>1 DEF TrustInv, AlertFounded, Doubted, Within
<1>6. CASE MayRepeat /\ dedup' = now /\ pc' = "insert"
  <2>1. ClaimFirst
    BY DEF TrustInv
  <2>2. lastAlert = None \/ (lastAlert <= dedup /\ dedup < now - Dedup)
    BY <1>6, <2>1 DEF ClaimFirst, MayRepeat
  <2>3. lastAlert = None \/ lastAlert < now - Dedup
    BY <1>3, <2>2, TrustConstants DEF Moments, Past
  <2>4. ClaimFirst'
    BY <1>1, <1>3, <1>6 DEF ClaimFirst, Moments, Past, None
  <2>5. ClaimSpaced'
    BY <1>1, <1>6, <2>3 DEF ClaimSpaced
  <2> QED
    BY <1>1, <1>3, <1>4, <1>5, <2>4, <2>5 DEF TrustInv, UnknownHostAlertsJustified
<1>7. CASE dedup' = dedup /\ pc' = "idle"
  <2>1. ClaimFirst' /\ ClaimSpaced'
    BY <1>1, <1>7 DEF TrustInv, ClaimFirst, ClaimSpaced
  <2> QED
    BY <1>1, <1>3, <1>4, <1>5, <2>1 DEF TrustInv, UnknownHostAlertsJustified
<1> QED
  BY <1>1, <1>6, <1>7

(* InsertAlert: a spaced and founded alert. *)
LEMMA InsertKeeps == TrustInv /\ InsertAlert => TrustInv'
<1> SUFFICES ASSUME TrustInv, InsertAlert PROVE TrustInv'
  OBVIOUS
<1>1. /\ UNCHANGED <<now, host, cache, dedup, info, untrusted, unread>>
      /\ pc = "insert" /\ pc' = "idle" /\ lastAlert' = now
      /\ repeated' = (repeated \/ Within(lastAlert, Dedup))
      /\ unfounded' = (unfounded \/ ~(Within(untrusted, TTL) \/ Within(unread, TTL)))
  BY DEF InsertAlert
<1>2. Instant
  BY <1>1 DEF Instant
<1>3. Moments /\ Moments'
  BY <1>2, InstantMoments DEF TrustInv
<1>4. Truths' /\ DoubtIsNoted' /\ CacheFounded' /\ AnswerFounded' /\ AlertFounded'
  BY <1>1 DEF TrustInv, Truths, DoubtIsNoted, CacheFounded, AnswerFounded, AlertFounded,
              DoubtSince
<1>5. dedup = now /\ (lastAlert = None \/ lastAlert < now - Dedup)
  BY <1>1 DEF TrustInv, ClaimSpaced
<1>6. ClaimFirst' /\ ClaimSpaced'
  BY <1>1, <1>3, <1>5 DEF ClaimFirst, ClaimSpaced, Moments, Past, None
<1>7. ~Within(lastAlert, Dedup)
  BY <1>3, <1>5, TrustConstants DEF Within, Moments, Past
<1>8. Within(untrusted, TTL) \/ Within(unread, TTL)
  BY <1>1 DEF TrustInv, AlertFounded, Doubted
<1>9. UnknownHostAlertsJustified'
  BY <1>1, <1>7, <1>8, Zenon DEF TrustInv, UnknownHostAlertsJustified
<1> QED
  BY <1>3, <1>4, <1>6, <1>9 DEF TrustInv

LEMMA GiveUpKeeps == TrustInv /\ GiveUp => TrustInv'
<1> SUFFICES ASSUME TrustInv, GiveUp PROVE TrustInv'
  OBVIOUS
<1>1. /\ UNCHANGED <<now, host, cache, dedup, info, lastAlert, untrusted, unread, repeated,
                     unfounded>>
      /\ pc' = "idle"
  BY DEF GiveUp, trustHistory
<1> QED
  BY <1>1 DEF TrustInv, Moments, Past, Truths, DoubtIsNoted, CacheFounded, AnswerFounded,
              AlertFounded, ClaimFirst, ClaimSpaced, UnknownHostAlertsJustified, DoubtSince

(* Edit and DeleteHost: a host that is or becomes untrusted is noted; what *)
(* the service has in hand or in the cache stays as old as it was.         *)
LEMMA EditKeeps ==
  ASSUME TrustInv, NEW given, given.trusted \in BOOLEAN,
         UNCHANGED <<now, dedup, pc, info, lastAlert, unread, repeated, unfounded>>,
         host' = given, cache' = cache \/ cache' = Empty,
         untrusted' = IF given.trusted /\ host.trusted THEN untrusted ELSE now
  PROVE  TrustInv'
<1>1. (cache'.at = cache.at /\ cache'.trusted = cache.trusted)
        \/ (cache'.at = None /\ cache'.trusted = FALSE)
  <2>1. Empty.at = None /\ Empty.trusted = FALSE
    BY DEF Empty
  <2> QED
    BY <2>1
<1>2. /\ untrusted' = untrusted \/ untrusted' = now
      /\ ~given.trusted => untrusted' = now
  OBVIOUS
<1>3. Instant
  BY <1>1, <1>2 DEF Instant
<1>4. Moments /\ Moments' /\ (Doubted => Doubted')
  BY <1>3, InstantMoments DEF TrustInv
<1>5. \A t \in Int : t <= now /\ DoubtSince(t) => untrusted' >= t \/ (unread # None /\ unread >= t)
  BY <1>2, <1>4 DEF DoubtSince, Moments
<1>6. Truths'
  BY <1>1 DEF TrustInv, Truths
<1>7. DoubtIsNoted'
  BY <1>2 DEF DoubtIsNoted
<1>8. CacheFounded'
  <2>1. CASE cache'.at = None
    BY <2>1 DEF CacheFounded
  <2>2. CASE cache'.at = cache.at /\ cache'.trusted = cache.trusted
    <3> SUFFICES ASSUME cache.at # None, ~cache.trusted PROVE DoubtSince(cache.at)'
      BY <2>2 DEF CacheFounded
    <3>1. DoubtSince(cache.at) /\ cache.at \in Int /\ cache.at <= now
      BY DEF TrustInv, CacheFounded, Moments, Past
    <3> QED
      BY <1>5, <2>2, <3>1 DEF DoubtSince
  <2> QED
    BY <1>1, <2>1, <2>2
<1>9. DoubtSince(now) => untrusted' >= now \/ (unread # None /\ unread >= now)
  <2>1. now \in Int /\ now <= now
    BY <1>4 DEF Moments
  <2> QED
    BY <1>5, <2>1
<1>10. AnswerFounded'
  <2> SUFFICES ASSUME pc \in {"lookup", "store", "store named"}, ~info PROVE DoubtSince(now)'
    BY DEF AnswerFounded
  <2>1. DoubtSince(now)
    BY Zenon DEF TrustInv, AnswerFounded
  <2> QED
    BY <1>9, <2>1 DEF DoubtSince
<1>11. AlertFounded'
  BY <1>4 DEF TrustInv, AlertFounded
<1>12. ClaimFirst' /\ ClaimSpaced' /\ UnknownHostAlertsJustified'
  BY DEF TrustInv, ClaimFirst, ClaimSpaced, UnknownHostAlertsJustified
<1> QED
  BY <1>4, <1>6, <1>7, <1>8, <1>10, <1>11, <1>12 DEF TrustInv

(* TrustTick: between two alerts nothing is in hand. *)
LEMMA TickKeeps == TrustInv /\ TrustTick => TrustInv'
<1> SUFFICES ASSUME TrustInv, TrustTick PROVE TrustInv'
  OBVIOUS
<1>1. /\ UNCHANGED <<host, cache, dedup, info, lastAlert, unread, repeated, unfounded>>
      /\ pc' = "idle" /\ now' = now + 1
      /\ untrusted' = IF host.trusted THEN untrusted ELSE now'
  BY DEF TrustTick
<1>2. Moments
  BY DEF TrustInv
<1>3. /\ untrusted' = untrusted \/ untrusted' = now + 1
      /\ ~host.trusted => untrusted' = now'
  BY <1>1
<1>4. Moments'
  BY <1>1, <1>2, <1>3 DEF Moments, Past, None
<1>5. Truths' /\ DoubtIsNoted'
  BY <1>1, <1>3 DEF TrustInv, Truths, DoubtIsNoted
<1>6. CacheFounded'
  <2> SUFFICES ASSUME cache.at # None, ~cache.trusted PROVE DoubtSince(cache.at)'
    BY <1>1 DEF CacheFounded
  <2>1. DoubtSince(cache.at)
    BY DEF TrustInv, CacheFounded
  <2> QED
    BY <1>1, <1>2, <1>3, <2>1 DEF DoubtSince, Moments, Past
<1>7. /\ AnswerFounded' /\ AlertFounded' /\ ClaimFirst' /\ ClaimSpaced'
      /\ UnknownHostAlertsJustified'
  BY <1>1 DEF TrustInv, AnswerFounded, AlertFounded, ClaimFirst, ClaimSpaced,
              UnknownHostAlertsJustified
<1> QED
  BY <1>4, <1>5, <1>6, <1>7 DEF TrustInv

LEMMA TrustStep == TrustInv /\ [TrustNext]_trustVars => TrustInv'
<1> SUFFICES ASSUME TrustInv, [TrustNext]_trustVars PROVE TrustInv'
  OBVIOUS
<1>1. CASE UseCache \/ ReadTrust \/ TrustUnreadable \/ ClaimAlert \/ InsertAlert \/ GiveUp
           \/ TrustTick
  BY <1>1, UseCacheKeeps, ReadKeeps, ClaimKeeps, InsertKeeps, GiveUpKeeps, TickKeeps
<1>2. ASSUME NEW named \in BOOLEAN, NEW redis \in BOOLEAN, LookedUp(named, redis)
      PROVE  TrustInv'
  BY <1>2, LookedUpKeeps
<1>3. ASSUME NEW stored \in BOOLEAN, Store(stored) PROVE TrustInv'
  BY <1>3, StoreKeeps
<1>4. ASSUME NEW given, NEW said, NEW redis, given.trusted \in BOOLEAN, Edit(given, said, redis)
      PROVE  TrustInv'
  <2>1. /\ UNCHANGED <<now, dedup, pc, info, lastAlert, unread, repeated, unfounded>>
        /\ host' = given
        /\ untrusted' = IF given.trusted /\ host.trusted THEN untrusted ELSE now
    BY <1>4 DEF Edit
  <2>2. cache' = cache \/ cache' = Empty
    BY <1>4 DEF Edit
  <2> QED
    BY <1>4, <2>1, <2>2, EditKeeps
<1>5. CASE DeleteHost
  <2> DEFINE given == NoHost
  <2>1. given.trusted \in BOOLEAN /\ ~given.trusted
    BY DEF NoHost
  <2>2. /\ UNCHANGED <<now, cache, dedup, pc, info, lastAlert, unread, repeated, unfounded>>
        /\ host' = given /\ untrusted' = now
    BY <1>5 DEF DeleteHost
  <2> HIDE DEF given
  <2> QED
    BY <2>1, <2>2, EditKeeps
<1>6. CASE UNCHANGED trustVars
  <2>1. UNCHANGED <<now, host, cache, dedup, pc, info, lastAlert, untrusted, unread, repeated,
                    unfounded>>
    BY <1>6 DEF trustVars
  <2> QED
    BY <2>1 DEF TrustInv, Moments, Past, Truths, DoubtIsNoted, CacheFounded, AnswerFounded,
                AlertFounded, Doubted, Within, ClaimFirst, ClaimSpaced,
                UnknownHostAlertsJustified, DoubtSince
<1> QED
  BY <1>1, <1>2, <1>3, <1>4, <1>5, <1>6, EditsAreEdits

(* UNKNOWN_HOST_001 of enrichment-service is not repeated within           *)
(* UNKNOWN_HOST_DEDUP_S, and does not come for a host that was trusted,    *)
(* and readable, for longer than an answer is cached, whatever edits,      *)
(* failures and crashes fall between reading, caching, claiming and        *)
(* inserting.                                                              *)
THEOREM AlertsJustified == TrustSpec => []UnknownHostAlertsJustified
<1>1. TrustInv => UnknownHostAlertsJustified
  BY DEF TrustInv
<1> QED
  BY <1>1, TrustInitially, TrustStep, PTL DEF TrustSpec

-----------------------------------------------------------------------------
(* The roles of the hosts.                                                 *)

(* How long evidence may be under way until the detector has it.           *)
Underway == TapWindow + MaxDelay + MasterWindow

(* The role was served, and no longer than so many days before a day.      *)
ServedNear(t, reach) == served # Never /\ t - served <= reach

RolesRow == [known : BOOLEAN,
             entry : [source : {"none", "auto", "manual"}, confirmed : Nat \cup {Never}],
             lock : {"none", "locked", "suppressed"}]

(* Wherever evidence is -- in the slot of the tap, in a frame, in either   *)
(* table of the master, in the hands of the detector, in the entry -- the  *)
(* role was served as near to its date as the way so far allows.           *)
EvidenceOK ==
  /\ day \in Nat /\ served \in Nat \cup {Never} /\ served <= day
  /\ slot \in [port : Nat \cup {Never}, seen : Nat \cup {Never}]
  /\ slot.port # Never => slot.port <= day /\ ServedNear(slot.port, 0)
  /\ frames \in Seq(Nat)
  /\ \A i \in DOMAIN frames :
       frames[i] <= day /\ day <= frames[i] + MaxDelay /\ ServedNear(frames[i], TapWindow)
  /\ profile \in Nat \cup {Never}
  /\ profile # Never => profile <= day /\ ServedNear(profile, TapWindow + MaxDelay)
  /\ own \in Nat \cup {Never} /\ (own # Never => own <= day /\ ServedNear(own, 0))

EntryOK ==
  /\ corrections \in Nat /\ roles \in RolesRow /\ (~roles.known => roles = NoRow)
  /\ roles.entry.confirmed # Never =>
       roles.entry.confirmed <= day /\ ServedNear(roles.entry.confirmed, Underway)
  /\ roles.lock = "locked" => roles.entry.source = "manual"
  /\ roles.lock = "suppressed" => roles.entry = NoEntry

DetectorOK ==
  /\ detector \in {"idle", "host", "insert"} /\ cycled \in BOOLEAN
  /\ detector # "idle" /\ found = "role" => ServedNear(day, Underway)
  /\ cycled /\ roles.entry.source = "auto" /\ roles.entry.confirmed # Never =>
       roles.entry.confirmed >= day - StaleDays

RolesInv == EvidenceOK /\ EntryOK /\ DetectorOK

LEMMA RolesConstants ==
  ASSUME RolesAssumption
  PROVE  TapWindow \in Nat /\ MasterWindow \in Nat /\ StaleDays \in Nat /\ MaxDelay \in Nat
         /\ Underway \in Nat /\ Underway = TapWindow + MaxDelay + MasterWindow /\ Never = -1
  BY DEF RolesAssumption, Underway, Never

LEMMA RolesInitOK == ASSUME RolesAssumption, RolesInit PROVE RolesInv
<1>1. DOMAIN frames = {} /\ frames \in Seq(Nat)
  <2>1. frames = <<>>
    BY DEF RolesInit
  <2> QED
    BY <2>1
<1>2. EvidenceOK
  BY <1>1 DEF RolesInit, EvidenceOK, NoSlot, Never
<1>3. EntryOK
  BY DEF RolesInit, EntryOK, NoRow, NoEntry, RolesRow
<1>4. DetectorOK
  BY DEF RolesInit, DetectorOK
<1> QED
  BY <1>2, <1>3, <1>4 DEF RolesInv

LEMMA FlowsKeepRoles ==
  ASSUME RolesAssumption, RolesInv, TapFlow \/ MasterFlow
  PROVE  RolesInv'
<1>1. served' = day /\ UNCHANGED <<day, frames, profile, roles, detector, found, corrections, restarts, cycled>>
  BY DEF TapFlow, MasterFlow
<1>2. day \in Nat /\ served \in Nat \cup {Never} /\ served <= day /\ day # Never /\ Never = -1
  BY RolesConstants DEF RolesInv, EvidenceOK
<1>3. \A t \in Int, reach \in Nat : ServedNear(t, reach) => day # Never /\ t - day <= reach
  BY <1>2 DEF ServedNear
<1>4. \A t \in Int, reach \in Nat : ServedNear(t, reach) => ServedNear(t, reach)'
  BY <1>1, <1>3 DEF ServedNear
<1>5. ServedNear(day, 0)'
  BY <1>1, <1>2 DEF ServedNear
<1>6. \/ slot' = [port |-> day, seen |-> day] /\ own' = own
      \/ slot' = slot /\ own' = day
  BY DEF TapFlow, MasterFlow
<1>7. EvidenceOK'
  <2>1. frames' = frames /\ day' = day /\ profile' = profile
    BY <1>1
  <2>2. day' \in Nat /\ served' \in Nat \cup {Never} /\ served' <= day'
    BY <1>1, <1>2
  <2>3. slot' \in [port : Nat \cup {Never}, seen : Nat \cup {Never}] /\ own' \in Nat \cup {Never}
    BY <1>2, <1>6 DEF RolesInv, EvidenceOK
  <2>4. slot'.port # Never => slot'.port <= day' /\ ServedNear(slot.port, 0)'
    BY <1>1, <1>2, <1>4, <1>6 DEF RolesInv, EvidenceOK, ServedNear
  <2>5. own' # Never => own' <= day' /\ ServedNear(own, 0)'
    BY <1>1, <1>2, <1>4, <1>6 DEF RolesInv, EvidenceOK, ServedNear
  <2>6. profile' # Never => profile' <= day' /\ ServedNear(profile, TapWindow + MaxDelay)'
    BY <1>1, <1>2, <1>4, RolesConstants DEF RolesInv, EvidenceOK, ServedNear
  <2>7. \A i \in DOMAIN frames' :
          frames'[i] <= day' /\ day' <= frames'[i] + MaxDelay /\ ServedNear(frames[i], TapWindow)'
    BY <1>1, <1>2, <1>4, RolesConstants DEF RolesInv, EvidenceOK, ServedNear
  <2>8. frames' \in Seq(Nat) /\ profile' \in Nat \cup {Never}
    BY <2>1 DEF RolesInv, EvidenceOK
  <2> QED
    BY <2>2, <2>3, <2>4, <2>5, <2>6, <2>7, <2>8 DEF EvidenceOK
<1>8. EntryOK'
  BY <1>1, <1>2, <1>4, RolesConstants DEF RolesInv, EntryOK, ServedNear, RolesRow
<1>9. DetectorOK'
  BY <1>1, <1>2, <1>4, RolesConstants DEF RolesInv, DetectorOK, ServedNear
<1> QED
  BY <1>7, <1>8, <1>9 DEF RolesInv

(* The tap and the way to the master.                                      *)
LEMMA TapKeepsRoles ==
  ASSUME RolesAssumption, RolesInv,
         \/ ClientFlow \/ EmitProfile \/ RestartTap
         \/ \E again \in BOOLEAN : StoreProfile(again)
  PROVE  RolesInv'
<1>1. UNCHANGED <<day, own, roles, detector, found, corrections, served, cycled>>
  BY DEF ClientFlow, EmitProfile, RestartTap, StoreProfile
<1>2. EntryOK' /\ DetectorOK'
  BY <1>1 DEF RolesInv, EntryOK, DetectorOK, ServedNear
<1>3. day \in Nat /\ Never = -1 /\ slot \in [port : Nat \cup {Never}, seen : Nat \cup {Never}]
  BY RolesConstants DEF RolesInv, EvidenceOK
<1>4. CASE ClientFlow
  <2>1. slot' \in [port : Nat \cup {Never}, seen : Nat \cup {Never}] /\ slot'.port = slot.port
    BY <1>3, <1>4 DEF ClientFlow
  <2>2. EvidenceOK'
    BY <1>1, <1>4, <2>1 DEF ClientFlow, RolesInv, EvidenceOK, ServedNear
  <2> QED
    BY <1>2, <2>2 DEF RolesInv
<1>5. CASE RestartTap
  <2>1. slot' \in [port : Nat \cup {Never}, seen : Nat \cup {Never}] /\ slot'.port = Never
    BY <1>5 DEF RestartTap, NoSlot
  <2>2. EvidenceOK'
    BY <1>1, <1>5, <2>1 DEF RestartTap, RolesInv, EvidenceOK, ServedNear
  <2> QED
    BY <1>2, <2>2 DEF RolesInv
<1>6. CASE EmitProfile
  <2>1. slot' \in [port : Nat \cup {Never}, seen : Nat \cup {Never}]
        /\ (slot'.port = Never \/ slot'.port = slot.port)
    BY <1>3, <1>6 DEF EmitProfile, NoSlot
  <2>2. profile' = profile
    BY <1>6 DEF EmitProfile
  <2>3. frames' \in Seq(Nat) /\ \A i \in DOMAIN frames' :
          frames'[i] <= day /\ day <= frames'[i] + MaxDelay /\ ServedNear(frames'[i], TapWindow)
    <3>1. CASE ~KeptPorts
      BY <1>6, <3>1 DEF EmitProfile, RolesInv, EvidenceOK
    <3>2. CASE KeptPorts
      <4>1. frames' = Append(frames, day)
        BY <1>6, <3>2 DEF EmitProfile
      <4>2. day <= day /\ day <= day + MaxDelay /\ ServedNear(day, TapWindow)
        BY <1>3, <3>2, RolesConstants DEF KeptPorts, WithinDays, RolesInv, EvidenceOK, ServedNear
      <4> QED
        BY <4>1, <4>2, <1>3 DEF RolesInv, EvidenceOK
    <3> QED
      BY <3>1, <3>2
  <2>4. EvidenceOK'
    BY <1>1, <2>1, <2>2, <2>3 DEF RolesInv, EvidenceOK, ServedNear
  <2> QED
    BY <1>2, <2>4 DEF RolesInv
<1>7. CASE \E again \in BOOLEAN : StoreProfile(again)
  <2>1. frames # <<>> /\ profile' = day /\ slot' = slot
        /\ (frames' = frames \/ frames' = Tail(frames))
    BY <1>7 DEF StoreProfile
  <2>2. frames \in Seq(Nat) /\ 1 \in DOMAIN frames /\ Head(frames) = frames[1]
    BY <2>1 DEF RolesInv, EvidenceOK
  <2>3. frames[1] \in Nat /\ day <= frames[1] + MaxDelay /\ ServedNear(frames[1], TapWindow)
    BY <2>2 DEF RolesInv, EvidenceOK
  <2>4. ServedNear(day, TapWindow + MaxDelay)
    BY <1>3, <2>3, RolesConstants DEF RolesInv, EvidenceOK, ServedNear
  <2>5. frames' \in Seq(Nat) /\ \A i \in DOMAIN frames' : \E j \in DOMAIN frames : frames'[i] = frames[j]
    <3>1. CASE frames' = frames
      BY <3>1, <2>2
    <3>2. CASE frames' = Tail(frames)
      BY <3>2, <2>1, <2>2
    <3> QED
      BY <2>1, <3>1, <3>2
  <2>6. \A i \in DOMAIN frames' :
          frames'[i] <= day /\ day <= frames'[i] + MaxDelay /\ ServedNear(frames'[i], TapWindow)
    BY <2>5 DEF RolesInv, EvidenceOK
  <2>7. day <= day /\ profile' \in Nat
    BY <1>3, <2>1
  <2>8. EvidenceOK'
    BY <1>1, <2>1, <2>4, <2>5, <2>6, <2>7 DEF RolesInv, EvidenceOK, ServedNear
  <2> QED
    BY <1>2, <2>8 DEF RolesInv
<1> QED
  BY <1>4, <1>5, <1>6, <1>7

(* What the detector takes for evidence, it has within the window.         *)
LEMMA AggregateKeepsRoles ==
  ASSUME RolesAssumption, RolesInv, \E others \in BOOLEAN : Aggregate(others)
  PROVE  RolesInv'
<1>1. cycled' = FALSE /\ detector' = "host" /\ UNCHANGED <<day, slot, frames, profile, own, served, roles, corrections>>
      /\ (found' = "role" => Recent(own) \/ Recent(profile))
  BY DEF Aggregate, tapVars
<1>2. EvidenceOK' /\ EntryOK'
  BY <1>1 DEF RolesInv, EvidenceOK, EntryOK, ServedNear
<1>3. Recent(own) => ServedNear(day, Underway)
  BY RolesConstants DEF Recent, WithinDays, RolesInv, EvidenceOK, ServedNear
<1>4. Recent(profile) => ServedNear(day, Underway)
  BY RolesConstants DEF Recent, WithinDays, RolesInv, EvidenceOK, ServedNear
<1>5. found' = "role" => ServedNear(day, Underway)'
  BY <1>1, <1>3, <1>4 DEF ServedNear
<1> QED
  BY <1>1, <1>2, <1>5 DEF RolesInv, DetectorOK

(* The detector writes.                                                    *)
LEMMA DetectorKeepsRoles ==
  ASSUME RolesAssumption, RolesInv, EvaluateHost \/ FindNoRow \/ InsertRow
  PROVE  RolesInv'
<1>1. UNCHANGED <<day, slot, frames, profile, own, served, found, corrections>> /\ corrections \in Nat
  BY DEF RolesInv, EntryOK, EvaluateHost, FindNoRow, InsertRow, tapVars
<1>2. EvidenceOK'
  BY <1>1 DEF RolesInv, EvidenceOK, ServedNear
<1>3. /\ roles \in RolesRow /\ roles.entry \in [source : {"none", "auto", "manual"}, confirmed : Nat \cup {Never}]
      /\ day \in Nat /\ Never = -1 /\ StaleDays \in Nat
  BY RolesConstants DEF RolesInv, EvidenceOK, EntryOK, RolesRow
<1>4. CASE FindNoRow
  BY <1>1, <1>2, <1>4 DEF FindNoRow, RolesInv, EntryOK, DetectorOK, ServedNear
<1>5. CASE InsertRow
  <2> DEFINE e == Detected(NoRow)
  <2>1. roles' = [known |-> TRUE, entry |-> e, lock |-> "none"] /\ detector' = "idle" /\ cycled' = TRUE
        /\ detector = "insert"
    BY <1>5 DEF InsertRow
  <2>2. \/ e = [source |-> "auto", confirmed |-> day] /\ found = "role"
        \/ e = NoEntry
    BY DEF Detected, Manual, NoRow, NoEntry
  <2> HIDE DEF e
  <2>3. found = "role" => ServedNear(day, Underway)
    BY <2>1 DEF RolesInv, DetectorOK
  <2>4. roles'.entry = e /\ roles'.lock = "none" /\ roles'.known
    BY <2>1
  <2>5. e \in [source : {"none", "auto", "manual"}, confirmed : Nat \cup {Never}]
        /\ (e.confirmed # Never => e.confirmed = day /\ found = "role")
    BY <2>2, <1>3 DEF NoEntry
  <2>6. roles' \in RolesRow
    BY <2>1, <2>5 DEF RolesRow
  <2>7. EntryOK'
    BY <1>1, <1>3, <2>3, <2>4, <2>5, <2>6 DEF EntryOK, ServedNear
  <2>8. DetectorOK'
    BY <1>1, <1>3, <2>1, <2>4, <2>5 DEF DetectorOK
  <2> QED
    BY <1>2, <2>7, <2>8 DEF RolesInv
<1>6. CASE EvaluateHost
  <2> DEFINE e == IF found = "nothing" THEN Aged(roles) ELSE Detected(roles)
  <2>1. roles' = [roles EXCEPT !.entry = e] /\ detector' = "idle" /\ cycled' = TRUE /\ detector = "host"
        /\ (found = "nothing" \/ roles.known)
    BY <1>6 DEF EvaluateHost
  <2>2. \/ e = roles.entry /\ Manual(roles)
        \/ e = roles.entry /\ ~(roles.entry.confirmed # Never /\ roles.entry.confirmed < day - StaleDays)
        \/ e = [source |-> "auto", confirmed |-> day] /\ found = "role" /\ ~Manual(roles) /\ roles.lock # "suppressed"
           /\ roles.known
        \/ e = NoEntry /\ ~Manual(roles)
    BY <2>1 DEF Detected, Aged
  <2>3. ~roles.known => e = roles.entry
    <3>1. ASSUME ~roles.known PROVE e = Aged(roles) /\ roles = NoRow
      BY <2>1, <3>1 DEF RolesInv, EntryOK
    <3>2. ASSUME roles = NoRow PROVE Aged(roles) = roles.entry
      BY <3>2 DEF Aged, NoRow, NoEntry
    <3> QED
      BY <3>1, <3>2
  <2> HIDE DEF e
  <2>4. roles'.entry = e /\ roles'.lock = roles.lock /\ roles'.known = roles.known
    BY <2>1, <1>3 DEF RolesRow
  <2>5. e \in [source : {"none", "auto", "manual"}, confirmed : Nat \cup {Never}]
    BY <2>2, <1>3 DEF NoEntry
  <2>6. roles' \in RolesRow
    BY <2>1, <2>5, <1>3 DEF RolesRow
  <2>7. ~roles'.known => roles' = NoRow
    <3>1. ASSUME ~roles.known PROVE roles' = roles
      BY <2>1, <2>3, <3>1, <1>3 DEF RolesRow
    <3> QED
      BY <2>4, <3>1 DEF RolesInv, EntryOK
  <2>8. e.confirmed # Never =>
          (e = roles.entry \/ (e.confirmed = day /\ found = "role"))
    BY <2>2 DEF NoEntry
  <2>9. ServedNear(day, Underway) \/ found # "role"
    BY <2>1 DEF RolesInv, DetectorOK
  <2>10. e.confirmed # Never => e.confirmed <= day /\ ServedNear(e.confirmed, Underway)
    BY <2>8, <2>9, <1>3 DEF RolesInv, EntryOK
  <2>11. (roles.lock = "locked" => e.source = "manual") /\ (roles.lock = "suppressed" => e = NoEntry)
    BY <2>2 DEF RolesInv, EntryOK, Manual
  <2>12. EntryOK'
    BY <1>1, <2>4, <2>6, <2>7, <2>10, <2>11 DEF EntryOK, ServedNear
  <2>13. e.source = "auto" /\ e.confirmed # Never => e.confirmed >= day - StaleDays
    <3>1. CASE e = roles.entry /\ Manual(roles)
      BY <3>1 DEF Manual, RolesInv, EntryOK
    <3>2. CASE e = roles.entry /\ ~(roles.entry.confirmed # Never /\ roles.entry.confirmed < day - StaleDays)
      BY <3>2, <1>3
    <3>3. CASE e = [source |-> "auto", confirmed |-> day]
      BY <3>3, <1>3
    <3>4. CASE e = NoEntry
      BY <3>4 DEF NoEntry
    <3> QED
      BY <2>2, <3>1, <3>2, <3>3, <3>4
  <2>14. DetectorOK'
    BY <1>1, <2>1, <2>4, <2>13 DEF DetectorOK
  <2> QED
    BY <1>2, <2>12, <2>14 DEF RolesInv
<1> QED
  BY <1>4, <1>5, <1>6

(* The operator writes: an entry keeps its date or loses it.               *)
LEMMA OperatorKeepsRoles ==
  ASSUME RolesAssumption, RolesInv,
         CreateRow \/ SetRole \/ ResetRole \/ RemoveRole \/ SuppressRole \/ DeleteRow
  PROVE  RolesInv'
<1>1. UNCHANGED <<day, slot, frames, profile, own, served, found, detector>> /\ cycled' = FALSE
  BY DEF CreateRow, SetRole, ResetRole, RemoveRole, SuppressRole, DeleteRow, EditRow, tapVars
<1>2. EvidenceOK'
  BY <1>1 DEF RolesInv, EvidenceOK, ServedNear
<1>3. DetectorOK'
  BY <1>1 DEF RolesInv, DetectorOK, ServedNear
<1>4. roles \in RolesRow /\ roles.entry \in [source : {"none", "auto", "manual"}, confirmed : Nat \cup {Never}]
      /\ Never = -1
  BY RolesConstants DEF RolesInv, EntryOK, RolesRow
<1>5. /\ roles' \in RolesRow /\ (~roles'.known => roles' = NoRow)
      /\ roles'.entry.confirmed = roles.entry.confirmed \/ roles'.entry.confirmed = Never
      /\ roles'.lock = "locked" => roles'.entry.source = "manual"
      /\ roles'.lock = "suppressed" => roles'.entry = NoEntry
  <2>1. CASE CreateRow
    BY <2>1 DEF CreateRow, EditRow, NoRow, NoEntry, RolesRow, Never
  <2>2. CASE SetRole
    <3> DEFINE m == [roles.entry EXCEPT !.source = "manual"]
    <3>1. m \in [source : {"none", "auto", "manual"}, confirmed : Nat \cup {Never}]
          /\ m.source = "manual" /\ m.confirmed = roles.entry.confirmed
      BY <1>4
    <3>2. roles' = [[roles EXCEPT !.entry = m] EXCEPT !.lock = "locked"] /\ roles.known
      BY <2>2 DEF SetRole, EditRow
    <3> HIDE DEF m
    <3>3. roles' \in RolesRow /\ roles'.known = roles.known /\ roles'.entry = m /\ roles'.lock = "locked"
      BY <1>4, <3>1, <3>2 DEF RolesRow
    <3> QED
      BY <3>1, <3>2, <3>3
  <2>3. CASE ResetRole
    <3> DEFINE src == IF roles.entry = NoEntry THEN "none" ELSE "auto"
               m == [roles.entry EXCEPT !.source = src]
    <3>1. m \in [source : {"none", "auto", "manual"}, confirmed : Nat \cup {Never}]
          /\ m.confirmed = roles.entry.confirmed
      BY <1>4
    <3>2. roles' = [[roles EXCEPT !.entry = m] EXCEPT !.lock = "none"] /\ roles.known
      BY <2>3 DEF ResetRole, EditRow
    <3> HIDE DEF m
    <3>3. roles' \in RolesRow /\ roles'.known = roles.known /\ roles'.entry = m /\ roles'.lock = "none"
      BY <1>4, <3>1, <3>2 DEF RolesRow
    <3> QED
      BY <3>1, <3>2, <3>3
  <2>4. CASE RemoveRole
    <3>1. roles' = [[roles EXCEPT !.entry = NoEntry] EXCEPT !.lock = "none"] /\ roles.known
      BY <2>4 DEF RemoveRole, EditRow
    <3>2. roles' \in RolesRow /\ roles'.known = roles.known /\ roles'.entry = NoEntry /\ roles'.lock = "none"
      BY <1>4, <3>1 DEF RolesRow, NoEntry
    <3> QED
      BY <3>1, <3>2 DEF NoEntry
  <2>5. CASE SuppressRole
    <3>1. roles' = [[roles EXCEPT !.entry = NoEntry] EXCEPT !.lock = "suppressed"] /\ roles.known
      BY <2>5 DEF SuppressRole, EditRow
    <3>2. roles' \in RolesRow /\ roles'.known = roles.known /\ roles'.entry = NoEntry /\ roles'.lock = "suppressed"
      BY <1>4, <3>1 DEF RolesRow, NoEntry
    <3> QED
      BY <3>1, <3>2 DEF NoEntry
  <2>6. CASE DeleteRow
    BY <2>6 DEF DeleteRow, EditRow, NoRow, NoEntry, RolesRow, Never
  <2> QED
    BY <2>1, <2>2, <2>3, <2>4, <2>5, <2>6
<1>6. corrections' \in Nat
  BY DEF RolesInv, EntryOK, CreateRow, SetRole, ResetRole, RemoveRole, SuppressRole, DeleteRow, EditRow
<1>7. EntryOK'
  BY <1>1, <1>5, <1>6 DEF RolesInv, EntryOK, ServedNear
<1> QED
  BY <1>2, <1>3, <1>7 DEF RolesInv

LEMMA TickKeepsRoles == ASSUME RolesAssumption, RolesInv, RolesTick PROVE RolesInv'
<1>1. /\ detector = "idle" /\ detector' = detector /\ cycled' = FALSE /\ day' = day + 1
      /\ \A i \in DOMAIN frames : day < frames[i] + MaxDelay
      /\ UNCHANGED <<slot, frames, profile, own, served, roles, found, corrections>>
  BY DEF RolesTick, tapVars
<1>2. day \in Nat /\ frames \in Seq(Nat)
  BY DEF RolesInv, EvidenceOK
<1>3. \A i \in DOMAIN frames : frames[i] \in Nat
  BY <1>2
<1>4. EvidenceOK'
  <2>1. \A i \in DOMAIN frames' : day' <= frames'[i] + MaxDelay
    BY <1>1, <1>2, <1>3, RolesConstants
  <2>2. \A i \in DOMAIN frames' : frames'[i] <= day' /\ ServedNear(frames[i], TapWindow)'
    BY <1>1, <1>2, <1>3 DEF RolesInv, EvidenceOK, ServedNear
  <2>3. day' \in Nat /\ served' \in Nat \cup {Never} /\ served' <= day'
    BY <1>1, <1>2 DEF RolesInv, EvidenceOK, Never
  <2>4. slot.port <= day => slot'.port <= day'
    BY <1>1, <1>2 DEF RolesInv, EvidenceOK, Never
  <2>5. profile <= day => profile' <= day'
    BY <1>1, <1>2 DEF RolesInv, EvidenceOK, Never
  <2>6. own <= day => own' <= day'
    BY <1>1, <1>2 DEF RolesInv, EvidenceOK, Never
  <2> QED
    BY <1>1, <2>1, <2>2, <2>3, <2>4, <2>5, <2>6 DEF RolesInv, EvidenceOK, ServedNear
<1>5. EntryOK'
  BY <1>1, <1>2, RolesConstants DEF RolesInv, EntryOK, ServedNear, RolesRow
<1>6. DetectorOK'
  BY <1>1 DEF RolesInv, DetectorOK
<1> QED
  BY <1>4, <1>5, <1>6 DEF RolesInv

LEMMA RolesStep == ASSUME RolesAssumption, RolesInv, [RolesNext]_rolesVars PROVE RolesInv'
<1>1. CASE UNCHANGED rolesVars
  BY <1>1 DEF rolesVars, RolesInv, EvidenceOK, EntryOK, DetectorOK, ServedNear
<1>2. CASE RolesNext
  BY <1>2, FlowsKeepRoles, TapKeepsRoles, AggregateKeepsRoles, DetectorKeepsRoles, OperatorKeepsRoles,
     TickKeepsRoles DEF RolesNext
<1> QED
  BY <1>1, <1>2

LEMMA RolesInvImplies == ASSUME RolesAssumption, RolesInv PROVE RolesTypeOK /\ RoleBacked
<1>1. RolesTypeOK
  BY DEF RolesInv, EntryOK, DetectorOK, RolesTypeOK, RolesRow
<1>2. roles.entry.confirmed \in Nat \cup {Never}
  BY DEF RolesInv, EntryOK, RolesRow
<1>3. RoleBacked
  BY SMTT(30), <1>2, RolesConstants DEF RolesInv, EvidenceOK, EntryOK, DetectorOK, ServedNear, RoleBacked
<1> QED
  BY <1>1, <1>3

(* Only EvaluateHost writes for a host without the operator.               *)
LEMMA LockStep ==
  ASSUME RolesAssumption, RolesInv, [RolesNext]_rolesVars, corrections' = corrections, detector = "host",
         roles.lock # "none"
  PROVE  roles'.lock = roles.lock /\ roles'.entry = roles.entry
<1>2. CASE roles' = roles
  BY <1>2
<1>3. CASE EvaluateHost
  <2> DEFINE e == IF found = "nothing" THEN Aged(roles) ELSE Detected(roles)
  <2>1. roles' = [roles EXCEPT !.entry = e]
    BY <1>3 DEF EvaluateHost
  <2>2. e = roles.entry \/ (e = NoEntry /\ roles.lock = "suppressed") \/ (~Manual(roles) /\ roles.lock # "suppressed")
    BY DEF Detected, Aged, Manual
  <2> HIDE DEF e
  <2>3. roles'.entry = e /\ roles'.lock = roles.lock
    BY <2>1 DEF RolesInv, EntryOK, RolesRow
  <2>4. roles.lock = "suppressed" => roles.entry = NoEntry
    BY DEF RolesInv, EntryOK
  <2>5. roles.lock \in {"locked", "suppressed"}
    BY DEF RolesInv, EntryOK, RolesRow
  <2> QED
    BY <2>2, <2>3, <2>4, <2>5 DEF Manual
<1>4. CASE RolesNext /\ ~EvaluateHost /\ roles' # roles
  <2>1. \/ InsertRow
        \/ CreateRow \/ SetRole \/ ResetRole \/ RemoveRole \/ SuppressRole \/ DeleteRow
    BY <1>4 DEF RolesNext, TapFlow, ClientFlow, EmitProfile, RestartTap, MasterFlow, StoreProfile, Aggregate,
       FindNoRow, RolesTick
  <2>2. ~InsertRow
    BY DEF InsertRow
  <2>3. corrections \in Nat
    BY DEF RolesInv, EntryOK
  <2>4. ~(CreateRow \/ SetRole \/ ResetRole \/ RemoveRole \/ SuppressRole \/ DeleteRow)
    BY <2>3 DEF CreateRow, SetRole, ResetRole, RemoveRole, SuppressRole, DeleteRow, EditRow
  <2> QED
    BY <2>1, <2>2, <2>4
<1> QED
  BY <1>2, <1>3, <1>4 DEF rolesVars

(* A role the detector holds was served within what the windows and the    *)
(* delay on the way add up to, and what the operator locked stays locked   *)
(* (matcher.py:142-263, db.py:144-251): for all windows and delays, and    *)
(* any number of frames on the way, days, corrections and restarts.        *)
THEOREM HostRolesCorrect == RolesAssumption => (RolesSpec => HostRolesOK)
<1> SUFFICES ASSUME RolesAssumption PROVE RolesSpec => HostRolesOK
  OBVIOUS
<1>1. RolesInit => RolesInv
  BY RolesInitOK
<1>2. RolesInv /\ [RolesNext]_rolesVars => RolesInv'
  BY RolesStep
<1>3. RolesInv => RolesTypeOK /\ RoleBacked
  BY RolesInvImplies
<1>4. RolesInv /\ [RolesNext]_rolesVars =>
        (corrections' = corrections /\ detector = "host" /\ roles.lock # "none"
           => roles'.lock = roles.lock /\ roles'.entry = roles.entry)
  BY LockStep
<1> QED
  BY <1>1, <1>2, <1>3, <1>4, PTL DEF RolesSpec, LockRespected, HostRolesOK

-----------------------------------------------------------------------------
(* The offline update.  A refresh runs exactly when the flag says so.      *)
UpdateInv ==
  /\ OfflineUpdateOK /\ release \in [Uploads -> Versions]
  /\ (refreshing => refreshes = 1) /\ (~refreshing => refreshes = 0)

LEMMA UpdateInitOK == ASSUME UpdateAssumption, UpdateInit PROVE UpdateInv
<1>1. 1 \in Versions
  BY DEF UpdateAssumption, Versions
<1>2. stage \in [Uploads -> {"none", "copying", "refused", "scheduled", "extracting", "loading",
                            "spawning", "ended"}]
  BY DEF UpdateInit
<1>3. ~refreshing /\ refreshing \in BOOLEAN /\ refreshes = 0
  BY Zenon DEF UpdateInit
<1>4. phase = "idle" /\ runner = "none" /\ zips = {} /\ version = 1 /\ images = 1 /\ running = 1
      /\ release \in [Uploads -> Versions]
  BY DEF UpdateInit
<1>5. UpdateTypeOK
  BY <1>1, <1>2, <1>3, <1>4 DEF UpdateTypeOK, Free
<1> QED
  BY <1>3, <1>4, <1>5 DEF UpdateInv, OfflineUpdateOK, ZipsRemoved, OneRefresh

LEMMA UpdateStep == ASSUME UpdateAssumption, UpdateInv, [UpdateNext]_updateVars PROVE UpdateInv'
<1> USE DEF UpdateInv, OfflineUpdateOK, UpdateTypeOK, ZipsRemoved, OneRefresh, Free, Goes, Mishap
<1>1. CASE UNCHANGED updateVars
  BY <1>1 DEF updateVars
<1>2. ASSUME NEW u \in Uploads, BeginUpload(u) \/ CopyFails(u) PROVE UpdateInv'
  BY <1>2 DEF BeginUpload, CopyFails, dockerVars, refreshVars
<1>3. ASSUME NEW u \in Uploads, Validate(u) PROVE UpdateInv'
  BY <1>3 DEF Validate, dockerVars, refreshVars
<1>4. ASSUME NEW u \in Uploads, BeginUpdate(u) \/ LoadImages(u) PROVE UpdateInv'
  <2>1. release[u] = images' \/ images' = images
    BY <1>4 DEF BeginUpdate, LoadImages, dockerVars
  <2>2. release[u] \in Versions
    BY <1>4
  <2> QED
    BY <1>4, <2>1, <2>2 DEF BeginUpdate, LoadImages, dockerVars, refreshVars
<1>5. ASSUME NEW u \in Uploads, Extract(u) \/ UpdateFails(u) PROVE UpdateInv'
  <2>1. release[u] \in Versions /\ version \in Versions
    BY <1>5
  <2>2. version' \in Versions
    BY <1>5, <2>1 DEF Extract, UpdateFails
  <2>3. CASE Extract(u)
    BY <2>2, <2>3 DEF Extract, refreshVars
  <2>4. CASE UpdateFails(u)
    BY <2>2, <2>4 DEF UpdateFails, FailedPhase, Remaining, refreshVars
  <2> QED
    BY <1>5, <2>3, <2>4
<1>6. ASSUME NEW u \in Uploads, Finish(u) PROVE UpdateInv'
  BY <1>6 DEF Finish, Remaining, refreshVars
<1>7. CASE Recreate \/ Restart
  <2>1. stage' \in [Uploads -> {"none", "copying", "refused", "scheduled", "extracting", "loading",
                                 "spawning", "ended"}]
    BY <1>7 DEF Recreate, Restart, Killed
  <2>2. ~refreshing' /\ refreshing' \in BOOLEAN /\ refreshes' = 0
    BY <1>7, Zenon DEF Recreate, Restart, Killed
  <2>3. phase' = "idle" /\ runner' = "none"
    BY <1>7 DEF Recreate, Restart, Killed
  <2>4. CASE Recreate
    <3>1. UNCHANGED <<release, version, images>> /\ running' = images /\ zips' = {} /\ leaked' = {}
      BY <2>4 DEF Recreate
    <3> QED
      BY <2>1, <2>2, <2>3, <3>1
  <2>5. CASE Restart
    <3>1. UNCHANGED <<release, zips, version, images, running>> /\ leaked' = zips
      BY <2>5 DEF Restart
    <3> QED
      BY <2>1, <2>2, <2>3, <3>1
  <2> QED
    BY <1>7, <2>4, <2>5
<1>8. CASE RequestRestart
  BY <1>8 DEF RequestRestart, refreshVars
<1>9. CASE BeginRefresh \/ EndRefresh
  <2>1. CASE BeginRefresh
    BY <2>1 DEF BeginRefresh, Taken, dockerVars
  <2>2. CASE EndRefresh
    <3>1. ~refreshing' /\ refreshing' \in BOOLEAN
      BY <2>2, Zenon DEF EndRefresh
    <3>2. refreshes = 1 /\ refreshes' = 0
      BY <2>2 DEF EndRefresh
    <3> QED
      BY <2>2, <3>1, <3>2 DEF EndRefresh, dockerVars
  <2> QED
    BY <1>9, <2>1, <2>2
<1> QED
  BY <1>1, <1>2, <1>3, <1>4, <1>5, <1>6, <1>7, <1>8, <1>9 DEF UpdateNext, UploadStep, TaskStep

(* Of an upload that is over no file is left on the disk, but for a copy   *)
(* that failed and a restart of the stack, and no two refreshes of the     *)
(* bundle run at a time (update.py:441-580, tap_update.py:33-120): for any *)
(* number of uploads, failures and restarts, however they overlap.         *)
THEOREM OfflineUpdateCorrect == UpdateAssumption => (UpdateSpec => []OfflineUpdateOK)
<1> SUFFICES ASSUME UpdateAssumption PROVE UpdateSpec => []OfflineUpdateOK
  OBVIOUS
<1>1. UpdateInit => UpdateInv
  BY UpdateInitOK
<1>2. UpdateInv /\ [UpdateNext]_updateVars => UpdateInv'
  BY UpdateStep
<1>3. UpdateInv => OfflineUpdateOK
  BY DEF UpdateInv
<1> QED
  BY <1>1, <1>2, <1>3, PTL DEF UpdateSpec

-----------------------------------------------------------------------------
(* The captures of alerts.                                                 *)

(* What has been received since the start and is not too old is in the     *)
(* buffer.                                                                 *)
RecentKept == \A t \in since..(received - 1) : t >= clock - Kept => t \in buf

(* An alert that came promptly and waits is not ready before this instant, *)
(* and was not received later than Slack after its time.                   *)
PromptOnTime ==
  \A a \in prompt \cap Waiting :
    clock <= pending[a].ready /\ pending[a].ready - Window - pending[a].at <= Slack

StoreInv ==
  /\ StoreTypeOK /\ PromisesKept /\ RecentKept /\ PromptOnTime
  /\ received <= clock /\ prompt \subseteq Waiting \cup done
  /\ ~storeUp => Waiting = {}

LEMMA StoreConstants ==
  ASSUME StoreAssumption
  PROVE  Window \in Nat /\ Slack \in Nat /\ MaxClock \in Nat /\ Kept = 2 * Window + Slack /\ Kept \in Nat
  BY DEF StoreAssumption, Kept

LEMMA StoreInitOK == ASSUME StoreAssumption, StoreInit PROVE StoreInv
<1> USE StoreConstants
<1>1. StoreTypeOK
  BY DEF StoreTypeOK, StoreInit, Times, NotPending, NoPcap
<1>2. Waiting = {} /\ Ripe = {}
  BY DEF StoreInit, Waiting, Ripe
<1>3. WholeWindow /\ PromisesKept /\ RecentKept /\ PromptOnTime
  BY <1>2 DEF WholeWindow, PromisesKept, RecentKept, PromptOnTime, StoreInit
<1> QED
  BY <1>1, <1>2, <1>3 DEF StoreInv, StoreInit

(* A ripe alert that came promptly is ready now, so that its window lies   *)
(* in what the buffer keeps.                                               *)
LEMMA WindowInBuffer ==
  ASSUME StoreAssumption, StoreTypeOK, RecentKept, PromptOnTime
  PROVE  WholeWindow
<1> SUFFICES ASSUME NEW a \in Ripe \cap prompt,
                    NEW t \in (pending[a].at - Window)..(pending[a].at + Window),
                    t \in since..(received - 1)
             PROVE  t \in buf
  BY DEF WholeWindow
<1>1. a \in Waiting /\ a \in Alerts /\ pending[a].ready <= clock
  BY DEF Ripe, Waiting
<1>2. pending[a] \in [at : Times \cup {-1}, ready : -1..(MaxClock + Window)]
  BY <1>1 DEF StoreTypeOK
<1>3. pending[a].at \in Int /\ pending[a].ready \in Int /\ clock \in Int /\ since \in Int /\ received \in Int
  BY <1>2, StoreConstants DEF StoreTypeOK, Times
<1>4. clock <= pending[a].ready /\ pending[a].ready - Window - pending[a].at <= Slack
  BY <1>1 DEF PromptOnTime
<1>5. t >= clock - Kept
  BY <1>1, <1>3, <1>4, StoreConstants
<1> QED
  BY <1>5 DEF RecentKept

(* What a flush does to the object and the mark of its alert. *)
LEMMA FlushKeepsPromises ==
  ASSUME StoreAssumption, StoreTypeOK, PromisesKept, NEW a \in Alerts, FlushOne(a), old' = old
  PROVE  /\ object' \in [Alerts -> SUBSET (Times \cup NoPcap)]
         /\ available' \subseteq Alerts /\ PromisesKept'
<1>1. Around(pending[a].at) \subseteq Times
  BY DEF Around, StoreTypeOK
<1>2. -1 \notin Times
  BY StoreConstants DEF Times
<1>3. Around(pending[a].at) # NoPcap /\ Around(pending[a].at) \in SUBSET (Times \cup NoPcap)
  BY <1>1, <1>2 DEF NoPcap
<1>4. object \in [Alerts -> SUBSET (Times \cup NoPcap)] /\ available \subseteq Alerts
  BY DEF StoreTypeOK
<1>5. \/ object' = object /\ available' = available
      \/ object' = [object EXCEPT ![a] = Around(pending[a].at)]
         /\ (available' = available \/ available' = available \cup {a})
  BY DEF FlushOne, Marks
<1> HIDE DEF Around, NoPcap, Times
<1> QED
  BY <1>3, <1>4, <1>5 DEF PromisesKept

LEMMA DropOne ==
  ASSUME StoreAssumption, StoreTypeOK, NEW a \in Alerts, Drop(a)
  PROVE  /\ pending' \in [Alerts -> [at : Times \cup {-1}, ready : -1..(MaxClock + Window)]]
         /\ Waiting' = Waiting \ {a} /\ done' = done \cup {a}
         /\ \A b \in Waiting' : pending'[b] = pending[b]
<1>1. NotPending \in [at : Times \cup {-1}, ready : -1..(MaxClock + Window)]
  BY StoreConstants DEF NotPending
<1>2. pending' = [pending EXCEPT ![a] = NotPending] /\ done' = done \cup {a}
  BY DEF Drop
<1>3. pending \in [Alerts -> [at : Times \cup {-1}, ready : -1..(MaxClock + Window)]]
  BY DEF StoreTypeOK
<1> HIDE DEF NotPending
<1> QED
  BY <1>1, <1>2, <1>3 DEF Waiting

LEMMA StoreStep == ASSUME StoreAssumption, StoreInv, [StoreNext]_storeVars PROVE StoreInv'
<1> USE StoreConstants DEF StoreInv, bucketVars
<1>1. CASE UNCHANGED storeVars
  BY <1>1 DEF storeVars, StoreTypeOK, PromisesKept, RecentKept, PromptOnTime, Waiting, Times
<1>2. CASE Tick
  <2>1. clock' = clock + 1 /\ clock' \in Times /\ clock \in Nat
    BY <1>2 DEF Tick, StoreTypeOK, Times
  <2>2. UNCHANGED <<received, since, buf, pending, done, object, available, old, storeUp>>
        /\ prompt' \subseteq prompt /\ (storeUp => prompt' \cap Ripe = {})
    BY <1>2 DEF Tick
  <2>3. Waiting' = Waiting /\ PromisesKept'
    BY <2>2 DEF Waiting, PromisesKept
  <2>4. StoreTypeOK' /\ RecentKept' /\ received' <= clock'
    BY <2>1, <2>2 DEF StoreTypeOK, RecentKept, Times
  <2>5. PromptOnTime'
    <3> SUFFICES ASSUME NEW a \in prompt' \cap Waiting'
                 PROVE  clock' <= pending'[a].ready /\ pending'[a].ready - Window - pending'[a].at <= Slack
      BY DEF PromptOnTime
    <3>1. a \in prompt \cap Waiting /\ a \in Alerts /\ pending'[a] = pending[a]
      BY <2>2, <2>3 DEF Waiting
    <3>2. storeUp
      BY <3>1
    <3>3. a \notin Ripe
      BY <2>2, <3>2
    <3>4. pending[a].ready \in Int /\ ~(pending[a].ready <= clock)
      BY <3>1, <3>3 DEF Ripe, StoreTypeOK
    <3> QED
      BY <2>1, <3>1, <3>4 DEF PromptOnTime
  <2> QED
    BY <2>2, <2>3, <2>4, <2>5
<1>3. CASE Packet
  <2>1. UNCHANGED <<clock, since, pending, done, prompt, object, available, old, storeUp>>
        /\ received < clock /\ received' = received + 1
        /\ buf' = {t \in buf \cup {received} : t >= clock - Kept}
    BY <1>3 DEF Packet
  <2>2. clock \in Times /\ received \in Times /\ since \in Times
    BY DEF StoreTypeOK
  <2>3. StoreTypeOK' /\ received' <= clock'
    <3>1. received' \in Times /\ received' <= clock'
      BY <2>1, <2>2 DEF Times
    <3>2. buf' \subseteq Times
      BY <2>1, <2>2 DEF StoreTypeOK
    <3> QED
      BY <2>1, <3>1, <3>2 DEF StoreTypeOK
  <2>4. RecentKept'
    BY <2>1, <2>2 DEF RecentKept, Times
  <2>5. Waiting' = Waiting /\ PromisesKept' /\ PromptOnTime'
    BY <2>1 DEF Waiting, PromisesKept, PromptOnTime
  <2> QED
    BY <2>1, <2>3, <2>4, <2>5
<1>4. ASSUME NEW a \in Alerts, Alert(a) PROVE StoreInv'
  <2>1. PICK t \in 0..clock :
          /\ pending' = [pending EXCEPT ![a] = [at |-> t, ready |-> clock + Window]]
          /\ prompt' = IF clock - t <= Slack THEN prompt \cup {a} ELSE prompt
    BY <1>4 DEF Alert
  <2>2. UNCHANGED <<clock, received, since, buf, done, object, available, old, storeUp>>
        /\ storeUp /\ a \notin done /\ a \notin Waiting
    BY <1>4 DEF Alert
  <2>3. clock \in Times /\ t \in Times
    BY DEF StoreTypeOK, Times
  <2> DEFINE p == [at |-> t, ready |-> clock + Window]
  <2>4. p \in [at : Times \cup {-1}, ready : -1..(MaxClock + Window)] /\ p # NotPending
        /\ p.ready = clock + Window /\ p.at = t
    BY <2>3 DEF Times, NotPending
  <2>5. pending' = [pending EXCEPT ![a] = p]
    BY <2>1
  <2> HIDE DEF p
  <2>6. pending' \in [Alerts -> [at : Times \cup {-1}, ready : -1..(MaxClock + Window)]]
        /\ pending'[a] = p /\ \A b \in Alerts \ {a} : pending'[b] = pending[b]
    BY <2>4, <2>5 DEF StoreTypeOK
  <2>7. Waiting' = Waiting \cup {a}
    BY <2>4, <2>6 DEF Waiting
  <2>8. a \notin prompt
    BY <2>2
  <2>9. StoreTypeOK'
    BY <2>1, <2>2, <2>6 DEF StoreTypeOK
  <2>10. PromisesKept' /\ RecentKept'
    BY <2>2 DEF PromisesKept, RecentKept
  <2>11. PromptOnTime'
    <3> SUFFICES ASSUME NEW b \in prompt' \cap Waiting'
                 PROVE  clock' <= pending'[b].ready /\ pending'[b].ready - Window - pending'[b].at <= Slack
      BY DEF PromptOnTime
    <3>1. CASE b = a
      <4>1. clock - t <= Slack
        BY <2>1, <2>8, <3>1
      <4> QED
        BY <2>2, <2>3, <2>4, <2>6, <3>1, <4>1 DEF Times
    <3>2. CASE b # a
      <4>1. b \in prompt \cap Waiting /\ pending'[b] = pending[b]
        BY <2>1, <2>6, <2>7, <3>2 DEF Waiting
      <4> QED
        BY <2>2, <4>1 DEF PromptOnTime
    <3> QED
      BY <3>1, <3>2
  <2> QED
    BY <2>1, <2>2, <2>7, <2>9, <2>10, <2>11
<1>5. CASE Flush \/ StopOne
  <2>1. PICK a \in Waiting : FlushOne(a) /\ (prompt' = prompt \/ prompt' = prompt \ {a})
    <3>1. CASE Flush
      BY <3>1 DEF Flush, Ripe
    <3>2. CASE StopOne
      BY <3>2 DEF StopOne
    <3> QED
      BY <1>5, <3>1, <3>2
  <2>2. UNCHANGED <<clock, received, since, buf, old, storeUp>> /\ storeUp
    BY <1>5 DEF Flush, StopOne
  <2>3. a \in Alerts /\ Drop(a)
    BY <2>1 DEF Waiting, FlushOne
  <2>4. object' \in [Alerts -> SUBSET (Times \cup NoPcap)] /\ available' \subseteq Alerts /\ PromisesKept'
    BY <2>1, <2>2, <2>3, FlushKeepsPromises
  <2>5. /\ pending' \in [Alerts -> [at : Times \cup {-1}, ready : -1..(MaxClock + Window)]]
        /\ Waiting' = Waiting \ {a} /\ done' = done \cup {a}
        /\ \A b \in Waiting' : pending'[b] = pending[b]
    BY <2>3, DropOne
  <2>6. StoreTypeOK'
    BY <2>1, <2>2, <2>3, <2>4, <2>5 DEF StoreTypeOK
  <2>7. RecentKept' /\ PromptOnTime'
    BY <2>1, <2>2, <2>5 DEF RecentKept, PromptOnTime
  <2> QED
    BY <2>1, <2>2, <2>4, <2>5, <2>6, <2>7
<1>6. CASE StoreCrash
  <2>1. /\ buf' = {} /\ since' = received /\ prompt' = {} /\ clock' = clock /\ received' = received
        /\ object' = object /\ available' = available /\ old' = old /\ storeUp' = FALSE
        /\ pending' = [a \in Alerts |-> NotPending]
    BY <1>6 DEF StoreCrash
  <2>2. PICK lost \in SUBSET Waiting : done' = done \cup lost
    BY <1>6 DEF StoreCrash
  <2>3. Waiting' = {} /\ lost \subseteq Alerts
    BY <2>1 DEF Waiting
  <2>4. NotPending \in [at : Times \cup {-1}, ready : -1..(MaxClock + Window)]
    BY DEF NotPending
  <2>5. StoreTypeOK'
    BY <2>1, <2>2, <2>3, <2>4 DEF StoreTypeOK
  <2>6. RecentKept' /\ PromptOnTime' /\ PromisesKept'
    BY <2>1, <2>3 DEF RecentKept, PromptOnTime, PromisesKept, StoreTypeOK, Times
  <2> QED
    BY <2>1, <2>3, <2>5, <2>6
<1>7. CASE AlertAges \/ ObjectExpires \/ Sweep \/ StartStore
  <2>1. UNCHANGED <<clock, received, since, buf, pending, done, prompt>>
    BY <1>7 DEF AlertAges, ObjectExpires, Sweep, StartStore
  <2>2. Waiting' = Waiting /\ RecentKept' /\ PromptOnTime'
    BY <2>1 DEF Waiting, RecentKept, PromptOnTime
  <2>3. storeUp' = storeUp \/ storeUp'
    BY <1>7 DEF AlertAges, ObjectExpires, Sweep, StartStore
  <2>4. StoreTypeOK'
    BY <1>7, <2>1 DEF AlertAges, ObjectExpires, Sweep, StartStore, StoreTypeOK
  <2>5. PromisesKept'
    BY <1>7 DEF AlertAges, ObjectExpires, Sweep, StartStore, PromisesKept, StoreTypeOK
  <2> QED
    BY <2>1, <2>2, <2>3, <2>4, <2>5
<1> QED
  BY <1>1, <1>2, <1>3, <1>4, <1>5, <1>6, <1>7 DEF StoreNext

(* Of an alert that came promptly the capture holds every packet of its    *)
(* window that had been received, and no row promises an object that was   *)
(* never stored (pcap-store buffer.py:30-90, main.py:120-260): for every   *)
(* window and slack, any number of alerts, crashes and failed uploads.     *)
THEOREM PcapStoreCorrect == StoreAssumption => (StoreSpec => []PcapStoreOK)
<1> SUFFICES ASSUME StoreAssumption PROVE StoreSpec => []PcapStoreOK
  OBVIOUS
<1>1. StoreInit => StoreInv
  BY StoreInitOK
<1>2. StoreInv /\ [StoreNext]_storeVars => StoreInv'
  BY StoreStep
<1>3. StoreInv => PcapStoreOK
  BY WindowInBuffer DEF StoreInv, PcapStoreOK
<1> QED
  BY <1>1, <1>2, <1>3, PTL DEF StoreSpec

-----------------------------------------------------------------------------
(* The configuration of the anomaly engine.                                *)
One(b) == IF b THEN 1 ELSE 0

(* Every threshold set is of a PATCH or of a calibration.                  *)
ThresholdsCounted ==
  /\ {sets, patches, calibrations} \subseteq Nat /\ patches <= MaxPatches /\ calibrations <= MaxCalibrations
  /\ sets + One(Patching) + One(cal["trainer"].pc # "idle") + One(cal["engine"].pc # "idle")
       <= patches + calibrations

(* While the one keeps out of the other's way, nothing is written in the   *)
(* middle of a calibration, and none begins under a lock.                  *)
Apart ==
  /\ torn \/ renamed => api.pc = "write"
  /\ ~mixed => ~(Patching /\ Calibrating) /\ ~renamed
  /\ ~mixed /\ Calibrating => wanted = 0

ConfigInv ==
  /\ MlConfigOK /\ ThresholdsCounted /\ Apart
  /\ api \in [pc : {"idle", "empty", "write"}, got : Configs, lock : BOOLEAN]
  /\ cal \in [Writers -> [pc : {"idle", "read", "rename"}, got : Configs]]

LEMMA TheWriters == Writers = {"trainer", "engine"} /\ "trainer" # "engine"
  BY DEF Writers

LEMMA ThresholdIs ==
  ASSUME ConfigAssumption, ThresholdsCounted, NEW b \in BOOLEAN,
         sets + One(b) <= patches + calibrations
  PROVE  b => sets + 1 \in Thresholds
  BY DEF ConfigAssumption, ThresholdsCounted, One, Thresholds

LEMMA ConfigInitOK == ASSUME ConfigAssumption, ConfigInit PROVE ConfigInv
<1>1. 0 \in Thresholds /\ Defaults \in Configs
  BY DEF ConfigAssumption, Thresholds, Defaults, Configs
<1>2. cal["trainer"] = NoCalibration /\ cal["engine"] = NoCalibration
  BY TheWriters DEF ConfigInit
<1>3. ConfigTypeOK /\ LockHeldApart
  BY <1>1 DEF ConfigInit, ConfigTypeOK, LockHeldApart, NoPatch, NoCalibration
<1>4. ThresholdsCounted
  BY <1>2 DEF ConfigInit, ThresholdsCounted, One, NoPatch, NoCalibration, Patching, ConfigAssumption
<1>5. Apart
  BY DEF ConfigInit, Apart, Patching, Calibrating, NoPatch, NoCalibration
<1> QED
  BY <1>1, <1>3, <1>4, <1>5 DEF ConfigInit, ConfigInv, MlConfigOK, NoPatch, NoCalibration

LEMMA ConfigStep == ASSUME ConfigAssumption, ConfigInv, [ConfigNext]_configVars PROVE ConfigInv'
<1> USE DEF ConfigInv, MlConfigOK
<1>0. Defaults \in Configs /\ Read \in Configs
  BY DEF ConfigAssumption, Thresholds, Defaults, Configs, Read, ConfigTypeOK
<1>1. CASE UNCHANGED configVars
  BY <1>1 DEF configVars, ConfigTypeOK, LockHeldApart, ThresholdsCounted, Apart, Patching, Calibrating, One
<1>2. CASE BeginPatch
  <2>1. PICK lock \in BOOLEAN : api' = [pc |-> "empty", got |-> Read, lock |-> lock]
    BY <1>2 DEF BeginPatch
  <2>2. UNCHANGED <<file, torn, renamed, cal, used, sets, calibrations, wanted>>
        /\ ~Patching /\ patches < MaxPatches /\ patches' = patches + 1 /\ mixed' = (mixed \/ Calibrating)
    BY <1>2 DEF BeginPatch
  <2>3. api' \in [pc : {"idle", "empty", "write"}, got : Configs, lock : BOOLEAN] /\ api'.pc = "empty"
    BY <1>0, <2>1
  <2>4. ConfigTypeOK' /\ LockHeldApart'
    BY <2>2, <2>3 DEF ConfigTypeOK, LockHeldApart, Patching
  <2>5. ThresholdsCounted'
    BY <2>2, <2>3 DEF ThresholdsCounted, One, Patching, ConfigAssumption
  <2>6. Apart'
    BY <2>2, <2>3 DEF Apart, Patching, Calibrating
  <2> QED
    BY <2>2, <2>3, <2>4, <2>5, <2>6
<1>3. CASE EmptyFile
  BY <1>3 DEF EmptyFile, ConfigTypeOK, LockHeldApart, ThresholdsCounted, Apart, Patching, Calibrating, One, ConfigAssumption
<1>4. CASE WriteFile
  <2>1. UNCHANGED <<cal, used, patches, calibrations, mixed>> /\ api.pc = "write" /\ api' = NoPatch
        /\ sets' = (IF api.lock THEN sets + 1 ELSE sets) /\ wanted' = (IF api.lock THEN sets + 1 ELSE 0)
        /\ file' = (IF renamed THEN file ELSE Patched) /\ torn' = FALSE /\ renamed' = FALSE
    BY <1>4 DEF WriteFile
  <2>2. sets + 1 \in Thresholds /\ 0 \in Thresholds
    BY <2>1 DEF ThresholdsCounted, ConfigAssumption, Thresholds, One, Patching
  <2>3. Patched \in Configs /\ (api.lock => Patched = [threshold |-> sets + 1, manual |-> TRUE])
    BY <2>2 DEF Patched, Configs, ConfigTypeOK
  <2>4. api' \in [pc : {"idle", "empty", "write"}, got : Configs, lock : BOOLEAN] /\ api'.pc = "idle"
    BY <1>0, <2>1 DEF NoPatch
  <2>5. ConfigTypeOK'
    BY <2>1, <2>2, <2>3, <2>4 DEF ConfigTypeOK
  <2>6. ThresholdsCounted'
    BY <2>1, <2>4 DEF ThresholdsCounted, One, Patching, ConfigAssumption
  <2>7. Patching /\ ~Patching'
    BY <2>1, <2>4 DEF Patching
  <2>8. Apart'
    BY <2>1, <2>4, <2>7 DEF Apart, Calibrating
  <2>9. LockHeldApart'
    <3> SUFFICES ASSUME ~mixed', wanted' # 0
                 PROVE  file' = [threshold |-> wanted', manual |-> TRUE] /\ ~torn'
      BY DEF LockHeldApart
    <3>1. ~renamed /\ api.lock
      BY <2>1 DEF Apart
    <3> QED
      BY <2>1, <2>3, <3>1
  <2> QED
    BY <2>1, <2>4, <2>5, <2>6, <2>8, <2>9
<1>5. ASSUME NEW w \in Writers, BeginCalibration(w) PROVE ConfigInv'
  <2>1. UNCHANGED <<file, torn, renamed, api, used, sets, patches, wanted>>
        /\ cal[w].pc = "idle" /\ calibrations < MaxCalibrations /\ calibrations' = calibrations + 1
        /\ ~Read.manual /\ cal' = [cal EXCEPT ![w] = [pc |-> "read", got |-> Read]]
        /\ mixed' = (mixed \/ Patching)
    BY <1>5 DEF BeginCalibration, MayCalibrate
  <2>2. cal' \in [Writers -> [pc : {"idle", "read", "rename"}, got : Configs]] /\ cal'[w].pc = "read"
        /\ \A x \in Writers \ {w} : cal'[x] = cal[x]
    BY <1>0, <2>1
  <2>3. ConfigTypeOK'
    BY <2>1, <2>2 DEF ConfigTypeOK
  <2>4. ThresholdsCounted'
    BY <2>1, <2>2, TheWriters DEF ThresholdsCounted, One, Patching, ConfigAssumption
  <2>5. ~mixed' /\ wanted # 0 => FALSE
    <3> SUFFICES ASSUME ~mixed', wanted # 0 PROVE FALSE
      OBVIOUS
    <3>1. ~mixed /\ ~Patching
      BY <2>1
    <3>2. file = [threshold |-> wanted, manual |-> TRUE] /\ ~torn
      BY <3>1 DEF LockHeldApart
    <3>3. Read = file /\ file.manual
      BY <3>2 DEF Read
    <3> QED
      BY <2>1, <3>3
  <2>6. Apart' /\ LockHeldApart'
    BY <2>1, <2>2, <2>5 DEF Apart, Patching, Calibrating, LockHeldApart
  <2> QED
    BY <2>1, <2>2, <2>3, <2>4, <2>6
<1>6. ASSUME NEW w \in Writers, ReadAgain(w) \/ GiveUpCalibration(w) PROVE ConfigInv'
  <2>1. UNCHANGED <<file, torn, renamed, api, used, sets, patches, calibrations, wanted, mixed>>
        /\ cal[w].pc = "read"
    BY <1>6 DEF ReadAgain, GiveUpCalibration
  <2>2. PICK c \in [pc : {"idle", "read", "rename"}, got : Configs] : cal' = [cal EXCEPT ![w] = c]
    <3>1. CASE ReadAgain(w)
      <4>1. [pc |-> "rename", got |-> IF w = "engine" THEN Read ELSE cal[w].got]
              \in [pc : {"idle", "read", "rename"}, got : Configs]
        BY <1>0
      <4> QED
        BY <3>1, <4>1 DEF ReadAgain
    <3>2. CASE GiveUpCalibration(w)
      BY <1>0, <3>2 DEF GiveUpCalibration, NoCalibration
    <3> QED
      BY <1>6, <3>1, <3>2
  <2>3. cal' \in [Writers -> [pc : {"idle", "read", "rename"}, got : Configs]]
        /\ \A x \in Writers : cal'[x].pc # "idle" => cal[x].pc # "idle"
    BY <2>1, <2>2
  <2>4. ConfigTypeOK' /\ LockHeldApart'
    BY <2>1, <2>3 DEF ConfigTypeOK, LockHeldApart, Patching
  <2>5. ThresholdsCounted'
    BY <2>1, <2>3, TheWriters DEF ThresholdsCounted, One, Patching, ConfigAssumption
  <2>6. Apart'
    BY <2>1, <2>3 DEF Apart, Patching, Calibrating
  <2> QED
    BY <2>1, <2>3, <2>4, <2>5, <2>6
<1>7. ASSUME NEW w \in Writers, Rename(w) PROVE ConfigInv'
  <2>1. UNCHANGED <<api, used, patches, calibrations, wanted, mixed>>
        /\ cal[w].pc = "rename" /\ sets' = sets + 1 /\ torn' = FALSE /\ renamed' = torn
        /\ file' = [cal[w].got EXCEPT !.threshold = sets + 1, !.manual = FALSE]
        /\ cal' = [cal EXCEPT ![w] = NoCalibration]
    BY <1>7 DEF Rename
  <2>2. NoCalibration \in [pc : {"idle", "read", "rename"}, got : Configs] /\ NoCalibration.pc = "idle"
    BY <1>0 DEF NoCalibration
  <2>3. cal' \in [Writers -> [pc : {"idle", "read", "rename"}, got : Configs]]
        /\ cal'[w].pc = "idle" /\ \A x \in Writers \ {w} : cal'[x] = cal[x]
    BY <2>1, <2>2
  <2>4. sets + 1 \in Thresholds
    BY <2>1, TheWriters DEF ThresholdsCounted, ConfigAssumption, Thresholds, One
  <2>5. file' \in Configs
    BY <2>1, <2>4 DEF Configs
  <2>6. ConfigTypeOK'
    BY <2>1, <2>3, <2>4, <2>5 DEF ConfigTypeOK
  <2>7. ThresholdsCounted'
    BY <2>1, <2>3, TheWriters DEF ThresholdsCounted, One, Patching, ConfigAssumption
  <2>8. Calibrating
    BY <2>1 DEF Calibrating
  <2>9. Apart'
    <3>1. torn' \/ renamed' => api'.pc = "write"
      BY <2>1 DEF Apart
    <3>2. ~mixed' => ~Patching /\ ~torn
      BY <2>1, <2>8 DEF Apart, Patching
    <3>3. ~mixed' => wanted' = 0
      BY <2>1, <2>8 DEF Apart
    <3>4. Patching' = Patching
      BY <2>1 DEF Patching
    <3> QED
      BY <2>1, <3>1, <3>2, <3>3, <3>4 DEF Apart
  <2>10. LockHeldApart'
    BY <2>1, <2>8 DEF LockHeldApart, Apart
  <2> QED
    BY <2>1, <2>3, <2>6, <2>7, <2>9, <2>10
<1>8. CASE PollConfig
  <2>1. used' \in Thresholds
    BY <1>0, <1>8 DEF PollConfig, Polled, Configs
  <2> QED
    BY <1>8, <2>1 DEF PollConfig, ConfigTypeOK, LockHeldApart, ThresholdsCounted, Apart, Patching, Calibrating, One
<1> QED
  BY <1>1, <1>2, <1>3, <1>4, <1>5, <1>6, <1>7, <1>8 DEF ConfigNext

(* A threshold an operator has set stays through trainings and restarts,   *)
(* as long as no PATCH fell into the middle of a calibration or the        *)
(* reverse (routers/ml.py:60-130, trainer.py:40-110, ml-engine main.py):   *)
(* for any number of patches and calibrations.                             *)
THEOREM MlConfigCorrect == ConfigAssumption => (ConfigSpec => []MlConfigOK)
<1> SUFFICES ASSUME ConfigAssumption PROVE ConfigSpec => []MlConfigOK
  OBVIOUS
<1>1. ConfigInit => ConfigInv
  BY ConfigInitOK
<1>2. ConfigInv /\ [ConfigNext]_configVars => ConfigInv'
  BY ConfigStep
<1>3. ConfigInv => MlConfigOK
  BY DEF ConfigInv
<1> QED
  BY <1>1, <1>2, <1>3, PTL DEF ConfigSpec

-----------------------------------------------------------------------------
(* The anomaly model.                                                      *)
PairTypes ==
  /\ disk \in [scaler : Trainings \cup {Torn}, forest : Trainings \cup {Torn}, time : 0..MaxWrites]
  /\ engine \in [pc : {"off", "bootstrap", "score", "loadScaler", "loadForest", "stat",
                       "dumpScaler", "dumpForest", "noteTime"},
                 scaler : Trainings, forest : Trainings, time : 0..MaxWrites,
                 saving : BOOLEAN, stop : BOOLEAN]
  /\ trainer \in [pc : {"wait", "train", "rename", "renameForest"}, id : Trainings, time : 0..MaxWrites]
  /\ newest <= trained /\ trainer.id <= trained /\ engine.forest <= trained /\ disk.forest <= trained
  /\ {disk.time, engine.time, trainer.time} \subseteq 0..written

(* A publication is of a pair younger than all that was written before.    *)
PublishesNew ==
  Publishing =>
    /\ ~EngineBusy
    /\ trainer.time = written /\ disk.time < written /\ engine.time < written
    /\ trainer.id > 0 /\ (TrainerAt("renameForest") => disk.scaler = trainer.id)

(* The forest on the volume is the newest, and so is the scaler, but       *)
(* between the two writes; or it was torn.                                 *)
DiskNewest ==
  /\ disk.forest = newest
  /\ TrainerAt("renameForest") \/ EngineAt("dumpForest") \/ disk.scaler \in {newest, Torn}

(* What the engine holds at each point of a load or a save.                *)
HoldsPair == engine.scaler = engine.forest
EngineHolds ==
  /\ EngineAt("off") \/ EngineAt("bootstrap") => engine.forest = 0
  /\ EngineAt("score") /\ Ready =>
       /\ HoldsPair /\ engine.time <= disk.time /\ (engine.time = disk.time => engine.forest = newest)
       /\ disk.scaler # Torn
  /\ EngineAt("loadScaler") => newest > 0 /\ (engine.saving => disk.scaler # Torn)
                               /\ (~engine.saving => engine.forest = 0)
  /\ EngineAt("loadForest") => newest > 0 /\ disk.scaler = newest /\ engine.scaler = newest
  /\ EngineAt("stat") => newest > 0 /\ disk.scaler = newest /\ HoldsPair /\ engine.forest = newest
  /\ EngineAt("dumpScaler") => HoldsPair /\ engine.forest > 0 /\ engine.forest >= newest
  /\ EngineAt("dumpForest") => /\ HoldsPair /\ engine.forest > 0 /\ engine.forest >= newest
                               /\ disk.scaler = engine.scaler
  /\ EngineAt("noteTime") => newest > 0 /\ HoldsPair /\ engine.forest = newest /\ disk.scaler = newest

Flags == due \in BOOLEAN /\ first \in BOOLEAN /\ retrain \in BOOLEAN /\ disturbed \in BOOLEAN
Counts == /\ written \in 0..MaxWrites /\ {trained, newest} \subseteq Trainings
          /\ {marked, samples, fresh} \subseteq 0..MaxMarks

ModelInv ==
  /\ Flags /\ Counts /\ PairTypes
  /\ ~disturbed => PublishesNew /\ DiskNewest /\ EngineHolds

LEMMA ModelConstants ==
  ASSUME ModelAssumption
  PROVE  /\ MaxTrainings \in Nat /\ MaxWrites \in Nat /\ MaxMarks \in Nat
         /\ 0 \in Trainings /\ 0 \in 0..MaxWrites /\ Trainings \subseteq Nat /\ Torn = -1 /\ Torn \notin Trainings
  BY DEF ModelAssumption, Trainings, Torn

LEMMA ModelInitOK == ASSUME ModelAssumption, ModelInit PROVE ModelInv
<1> USE ModelConstants
<1>1. PairTypes
  BY DEF ModelInit, PairTypes, NoModel, Off, IdleTrainer
<1>2. Counts
  BY DEF ModelInit, Counts
<1>4. Flags
  BY Zenon DEF ModelInit, Flags
<1>3. PublishesNew /\ DiskNewest /\ EngineHolds
  BY DEF ModelInit, PublishesNew, DiskNewest, EngineHolds, NoModel, Off, IdleTrainer, Publishing,
     TrainerAt, EngineAt
<1> QED
  BY <1>1, <1>2, <1>3, <1>4 DEF ModelInv

(* What a step that leaves the pairs alone has to keep. *)
PairVars == <<disk, written, trained, engine, trainer, newest>>

LEMMA PairsUntouched ==
  ASSUME ModelInv, UNCHANGED PairVars, Flags', Counts', disturbed' = disturbed
  PROVE  ModelInv'
  BY DEF ModelInv, PairVars, PairTypes, PublishesNew, DiskNewest, EngineHolds, HoldsPair, Publishing,
     EngineBusy, TrainerAt, EngineAt, Ready

(* The collector and the clock of the training-loop. *)
LEMMA LoopWaits ==
  ASSUME ModelAssumption, ModelInv, Mark \/ Collect \/ IntervalPasses \/ Click \/ Skip
  PROVE  ModelInv'
<1> USE ModelConstants
<1>1. UNCHANGED PairVars /\ disturbed' = disturbed
  BY DEF Mark, Collect, IntervalPasses, Click, Skip, PairVars, engineVars
<1>2. Flags /\ Counts
  BY DEF ModelInv
<1>3. {marked', samples', fresh'} \subseteq 0..MaxMarks
  BY <1>2 DEF Mark, Collect, IntervalPasses, Click, Skip, RowAccepted, Counts
<1>4. Counts'
  BY <1>1, <1>2, <1>3 DEF PairVars, Counts
<1>5. /\ due' = due \/ due' = TRUE \/ due' = FALSE
      /\ first' = first
      /\ retrain' = retrain \/ retrain' = TRUE
  BY DEF Mark, Collect, IntervalPasses, Click, Skip, engineVars
<1>6. Flags'
  BY <1>1, <1>2, <1>5, Zenon DEF Flags
<1> QED
  BY <1>1, <1>4, <1>6, PairsUntouched

(* A training begins or fails. *)
LEMMA TrainingStarts ==
  ASSUME ModelAssumption, ModelInv, Train \/ TrainFails
  PROVE  ModelInv'
<1> USE ModelConstants
<1>1. UNCHANGED <<disk, written, engine, newest, trained, disturbed, marked, samples, fresh, due, first>>
      /\ (retrain' = FALSE \/ retrain' = retrain)
  BY DEF Train, TrainFails, engineVars, TriggerTaken
<1>2. trainer' \in [pc : {"wait", "train", "rename", "renameForest"}, id : Trainings, time : 0..MaxWrites]
      /\ trainer'.pc \in {"wait", "train"} /\ ~Publishing
  BY DEF Train, TrainFails, IdleTrainer, ModelInv, PairTypes, TrainerAt, Publishing
<1>3. Counts' /\ PairTypes'
  BY <1>1, <1>2 DEF ModelInv, Counts, PairTypes, Train, TrainFails, IdleTrainer, Trainings
<1>5. Flags'
  BY <1>1, Zenon DEF ModelInv, Flags
<1>4. ~disturbed' => PublishesNew' /\ DiskNewest' /\ EngineHolds'
  BY <1>1, <1>2 DEF ModelInv, PublishesNew, DiskNewest, EngineHolds, HoldsPair, Publishing, TrainerAt,
     EngineAt, Ready
<1> QED
  BY <1>3, <1>4, <1>5 DEF ModelInv

LEMMA TemporaryDumped ==
  ASSUME ModelAssumption, ModelInv, DumpTemporary
  PROVE  ModelInv'
<1> USE ModelConstants
<1>1. /\ UNCHANGED <<disk, engine, newest, due, first, retrain, marked, samples, fresh>>
      /\ trainer.pc = "train" /\ trained < MaxTrainings /\ written < MaxWrites
      /\ trained' = trained + 1 /\ written' = written + 1
      /\ trainer' = [pc |-> "rename", id |-> trained + 1, time |-> written + 1]
      /\ disturbed' = (disturbed \/ EngineBusy)
  BY DEF DumpTemporary, TrainerAt
<1>2. trained \in Nat /\ written \in Nat /\ newest \in Nat
  BY DEF ModelInv, Counts, Trainings
<1>3. trained + 1 \in Trainings /\ written + 1 \in 0..MaxWrites
  BY <1>1, <1>2 DEF Trainings
<1>4. trainer' \in [pc : {"wait", "train", "rename", "renameForest"}, id : Trainings, time : 0..MaxWrites]
  BY <1>1, <1>3
<1>5. PairTypes'
  BY <1>1, <1>2, <1>3, <1>4 DEF ModelInv, PairTypes
<1>6. Counts'
  BY <1>1, <1>3 DEF ModelInv, Counts
<1>8. Flags'
  BY <1>1, Zenon DEF ModelInv, Flags, EngineBusy
<1>7. ASSUME ~disturbed' PROVE PublishesNew' /\ DiskNewest' /\ EngineHolds'
  <2>1. ~EngineBusy /\ DiskNewest /\ EngineHolds
    BY <1>1, <1>7 DEF ModelInv
  <2>2. PublishesNew'
    BY <1>1, <1>2, <2>1 DEF PublishesNew, EngineBusy, TrainerAt, ModelInv, PairTypes
  <2> QED
    BY <1>1, <2>1, <2>2 DEF DiskNewest, EngineHolds, HoldsPair, TrainerAt, EngineAt, Ready
<1> QED
  BY <1>5, <1>6, <1>7, <1>8 DEF ModelInv

LEMMA PairPublished ==
  ASSUME ModelAssumption, ModelInv, RenameScaler \/ RenameForest
  PROVE  ModelInv'
<1> USE ModelConstants
<1>0. /\ disk \in [scaler : Trainings \cup {Torn}, forest : Trainings \cup {Torn}, time : 0..MaxWrites]
      /\ trainer \in [pc : {"wait", "train", "rename", "renameForest"}, id : Trainings, time : 0..MaxWrites]
  BY DEF ModelInv, PairTypes
<1>1. CASE RenameScaler
  <2>1. /\ UNCHANGED <<written, engine, newest, trained, due, first, retrain, marked, samples, fresh, disturbed>>
        /\ trainer.pc = "rename" /\ disk' = [disk EXCEPT !.scaler = trainer.id]
        /\ trainer' = [trainer EXCEPT !.pc = "renameForest"]
    BY <1>1 DEF RenameScaler, TrainerAt
  <2>2. /\ disk' \in [scaler : Trainings \cup {Torn}, forest : Trainings \cup {Torn}, time : 0..MaxWrites]
        /\ trainer' \in [pc : {"wait", "train", "rename", "renameForest"}, id : Trainings, time : 0..MaxWrites]
        /\ disk'.scaler = trainer.id /\ disk'.forest = disk.forest /\ disk'.time = disk.time
        /\ trainer'.pc = "renameForest" /\ trainer'.id = trainer.id /\ trainer'.time = trainer.time
    BY <1>0, <2>1
  <2>3. PairTypes' /\ Counts'
    BY <2>1, <2>2 DEF ModelInv, PairTypes, Counts
  <2>5. Flags'
    BY <2>1 DEF ModelInv, Flags
  <2>4. ASSUME ~disturbed' PROVE PublishesNew' /\ DiskNewest' /\ EngineHolds'
    <3>1. PublishesNew /\ DiskNewest /\ EngineHolds /\ Publishing
      BY <2>1, <2>4 DEF ModelInv, Publishing
    <3>2. PublishesNew' /\ ~EngineBusy
      BY <2>1, <2>2, <3>1 DEF PublishesNew, EngineBusy, TrainerAt, Publishing
    <3>3. DiskNewest'
      BY <2>1, <2>2, <3>1 DEF DiskNewest, TrainerAt
    <3>4. EngineHolds'
      BY <2>1, <2>2, <3>1, <3>2 DEF EngineHolds, PublishesNew, HoldsPair, EngineAt, Ready, EngineBusy
    <3> QED
      BY <3>2, <3>3, <3>4
  <2> QED
    BY <2>3, <2>4, <2>5 DEF ModelInv
<1>2. CASE RenameForest
  <2>1. /\ UNCHANGED <<written, engine, trained, retrain, marked, samples, disturbed>>
        /\ trainer.pc = "renameForest"
        /\ disk' = [disk EXCEPT !.forest = trainer.id, !.time = trainer.time]
        /\ trainer' = IdleTrainer /\ due' = FALSE /\ first' = TRUE /\ fresh' = 0 /\ newest' = trainer.id
    BY <1>2 DEF RenameForest, TrainerAt
  <2>2. /\ disk' \in [scaler : Trainings \cup {Torn}, forest : Trainings \cup {Torn}, time : 0..MaxWrites]
        /\ trainer' \in [pc : {"wait", "train", "rename", "renameForest"}, id : Trainings, time : 0..MaxWrites]
        /\ disk'.scaler = disk.scaler /\ disk'.forest = trainer.id /\ disk'.time = trainer.time
        /\ trainer'.pc = "wait" /\ trainer'.id = 0 /\ trainer'.time = 0
    BY <1>0, <2>1 DEF IdleTrainer
  <2>3. PairTypes' /\ Counts'
    <3>1. Counts' /\ newest' <= trained /\ trained \in Nat
      BY <1>0, <2>1 DEF ModelInv, PairTypes, Counts
    <3>2. {disk'.time, engine.time, trainer'.time} \subseteq 0..written /\ disk'.forest <= trained
      BY <1>0, <2>2 DEF ModelInv, PairTypes, Counts
    <3>3. engine' = engine /\ written' = written /\ trained' = trained
      BY <2>1
    <3> QED
      BY <2>2, <3>1, <3>2, <3>3 DEF ModelInv, PairTypes
  <2>5. Flags'
    BY <2>1, Zenon DEF ModelInv, Flags
  <2>4. ASSUME ~disturbed' PROVE PublishesNew' /\ DiskNewest' /\ EngineHolds'
    <3>1. PublishesNew /\ DiskNewest /\ EngineHolds /\ Publishing
      BY <2>1, <2>4 DEF ModelInv, Publishing
    <3>2. PublishesNew' /\ ~EngineBusy /\ disk.scaler = trainer.id /\ engine.time < trainer.time
      BY <2>1, <2>2, <3>1 DEF PublishesNew, EngineBusy, TrainerAt, Publishing
    <3>3. DiskNewest'
      BY <2>1, <2>2, <3>1, <3>2 DEF DiskNewest
    <3>4. engine.time \in Nat /\ trainer.time \in Nat /\ trainer.id > 0
      BY <1>0, <3>1, <2>1 DEF ModelInv, PairTypes, PublishesNew
    <3>5. EngineHolds'
      BY <2>1, <2>2, <3>1, <3>2, <3>4 DEF EngineHolds, HoldsPair, EngineAt, Ready, EngineBusy
    <3> QED
      BY <3>2, <3>3, <3>5
  <2> QED
    BY <2>3, <2>4, <2>5 DEF ModelInv
<1> QED
  BY <1>1, <1>2

(* A restart in the middle of a publication leaves the pair torn apart, in *)
(* which case nothing is promised.                                         *)
LEMMA TrainerAnew ==
  ASSUME ModelAssumption, ModelInv, TrainerRestarts
  PROVE  ModelInv'
<1> USE ModelConstants
<1>1. /\ UNCHANGED <<disk, written, engine, newest, trained, retrain, marked, samples>>
      /\ trainer' = IdleTrainer /\ due' = TRUE /\ first' = FALSE /\ fresh' = samples
      /\ disturbed' = (disturbed \/ TrainerAt("renameForest"))
  BY DEF TrainerRestarts
<1>2. trainer'.pc = "wait" /\ trainer'.id = 0 /\ trainer'.time = 0
      /\ trainer' \in [pc : {"wait", "train", "rename", "renameForest"}, id : Trainings, time : 0..MaxWrites]
  BY <1>1 DEF IdleTrainer
<1>3. Counts' /\ PairTypes'
  BY <1>1, <1>2 DEF ModelInv, Counts, PairTypes, Trainings
<1>5. Flags'
  BY <1>1, Zenon DEF ModelInv, Flags, TrainerAt
<1>4. ASSUME ~disturbed' PROVE PublishesNew' /\ DiskNewest' /\ EngineHolds'
  <2>1. DiskNewest /\ EngineHolds /\ ~TrainerAt("renameForest")
    BY <1>1, <1>4 DEF ModelInv
  <2>2. PublishesNew'
    BY <1>2 DEF PublishesNew, Publishing
  <2> QED
    BY <1>1, <1>2, <2>1, <2>2 DEF DiskNewest, EngineHolds, HoldsPair, TrainerAt, EngineAt, Ready
<1> QED
  BY <1>3, <1>4, <1>5 DEF ModelInv

-----------------------------------------------------------------------------
(* Steps of the engine: none is undisturbed while a training is published. *)
EngineRecord ==
  [pc : {"off", "bootstrap", "score", "loadScaler", "loadForest", "stat",
         "dumpScaler", "dumpForest", "noteTime"},
   scaler : Trainings, forest : Trainings, time : 0..MaxWrites, saving : BOOLEAN, stop : BOOLEAN]

LEMMA EngineTouches ==
  ASSUME ModelAssumption, ModelInv, Touches, trainer' = trainer, ~disturbed'
  PROVE  ~disturbed /\ ~Publishing /\ ~Publishing' /\ PublishesNew' /\ ~TrainerAt("renameForest")'
         /\ DiskNewest /\ EngineHolds
  BY DEF ModelInv, Touches, Publishing, PublishesNew, TrainerAt

(* Steps that read the volume, or nothing. *)
Reads == StartLoading \/ StartWithout \/ LoadScaler \/ LoadForest \/ Stat \/ BeginSave \/ StopWithout \/ NoteTime

LEMMA ReadsTypes ==
  ASSUME ModelAssumption, ModelInv, Reads
  PROVE  /\ UNCHANGED <<disk, written, newest, trainVars>> /\ Touches
         /\ engine' \in EngineRecord /\ engine'.time \in {0, engine.time, disk.time}
         /\ engine'.forest <= trained
<1> USE ModelConstants DEF EngineRecord
<1>1. UNCHANGED <<disk, written, newest, trainVars>> /\ Touches
  BY DEF Reads, StartLoading, StartWithout, LoadScaler, LoadForest, Stat, BeginSave, StopWithout, NoteTime
<1>2. engine \in EngineRecord /\ disk.time \in 0..MaxWrites
      /\ disk.scaler \in Trainings \cup {Torn} /\ disk.forest \in Trainings \cup {Torn}
      /\ disk.forest <= trained /\ engine.forest <= trained /\ trained \in Nat
  BY DEF ModelInv, PairTypes, Counts, Trainings
<1>3. Off \in EngineRecord /\ Off.time = 0 /\ Off.forest = 0
  BY DEF Off
<1> HIDE DEF Off
<1>4. CASE StartLoading \/ StartWithout
  BY <1>2, <1>3, <1>4 DEF StartLoading, StartWithout
<1>5. CASE StopWithout
  BY <1>2, <1>3, <1>5 DEF StopWithout
<1>6. CASE LoadScaler
  BY <1>2, <1>6 DEF LoadScaler, Unreadable
<1>7. CASE LoadForest
  BY <1>2, <1>7 DEF LoadForest, Unreadable
<1>8. CASE Stat
  BY <1>2, <1>8 DEF Stat, AfterLoad
<1>9. CASE BeginSave
  BY <1>2, <1>9 DEF BeginSave
<1>10. CASE NoteTime
  <2>1. CASE engine.stop
    BY <1>1, <1>2, <1>3, <1>10, <2>1 DEF NoteTime
  <2>2. CASE ~engine.stop
    <3>1. engine' = [engine EXCEPT !.pc = "score", !.time = disk.time, !.saving = FALSE]
      BY <1>10, <2>2 DEF NoteTime
    <3>2. engine' \in EngineRecord
      BY <1>2, <3>1
    <3>3. engine'.time = disk.time /\ engine'.forest = engine.forest
      BY <1>2, <3>1
    <3> QED
      BY <1>1, <1>2, <3>2, <3>3
  <2> QED
    BY <2>1, <2>2
<1> QED
  BY <1>1, <1>4, <1>5, <1>6, <1>7, <1>8, <1>9, <1>10 DEF Reads

LEMMA ReadsHold ==
  ASSUME ModelAssumption, ModelInv, Reads, ~disturbed'
  PROVE  EngineHolds' /\ ~EngineAt("dumpForest") /\ ~EngineAt("dumpForest")'
<1> USE ModelConstants
<1>1. UNCHANGED <<disk, written, newest, trainer>> /\ Touches
  BY ReadsTypes DEF trainVars
<1>14. trainer' = trainer
  BY <1>1
<1>2. ~Publishing /\ DiskNewest /\ EngineHolds /\ ~TrainerAt("renameForest")
  BY <1>1, <1>14, EngineTouches DEF TrainerAt
<1>3. /\ engine \in EngineRecord
      /\ disk \in [scaler : Trainings \cup {Torn}, forest : Trainings \cup {Torn}, time : 0..MaxWrites]
      /\ newest \in Nat /\ engine.time \in Nat /\ disk.time \in Nat /\ disk.forest = newest
      /\ engine.forest \in Nat /\ engine.scaler \in Nat
  BY <1>2 DEF ModelInv, PairTypes, EngineRecord, Counts, DiskNewest, Trainings
<1>4. ~EngineAt("dumpForest")
  BY DEF Reads, StartLoading, StartWithout, LoadScaler, LoadForest, Stat, BeginSave, StopWithout, NoteTime,
     EngineAt
<1>5. disk.scaler = newest \/ disk.scaler = Torn
  BY <1>2, <1>4 DEF DiskNewest
<1> USE DEF EngineHolds, HoldsPair, EngineAt, Ready
<1>6. CASE StartLoading
  BY <1>1, <1>3, <1>6 DEF StartLoading, Off
<1>7. CASE StartWithout
  BY <1>1, <1>3, <1>7 DEF StartWithout, Off
<1>8. CASE LoadScaler
  <2>1. CASE disk.scaler = Torn
    <3>1. ~engine.saving /\ engine.forest = 0
      BY <1>2, <1>8, <2>1 DEF LoadScaler
    <3>2. engine' = [engine EXCEPT !.pc = "bootstrap"]
      BY <1>8, <2>1, <3>1 DEF LoadScaler, Unreadable
    <3>3. engine'.pc = "bootstrap" /\ engine'.forest = 0
      BY <1>3, <3>1, <3>2 DEF EngineRecord
    <3> QED
      BY <1>4, <3>3
  <2>2. CASE disk.scaler # Torn
    <3>1. newest > 0 /\ disk.scaler = newest
      BY <1>2, <1>5, <1>8, <2>2 DEF LoadScaler
    <3>2. engine' = [engine EXCEPT !.pc = "loadForest", !.scaler = disk.scaler]
      BY <1>8, <2>2 DEF LoadScaler
    <3>3. engine'.pc = "loadForest" /\ engine'.scaler = disk.scaler
      BY <1>3, <3>2 DEF EngineRecord
    <3>4. disk' = disk /\ newest' = newest
      BY <1>1
    <3> QED
      BY <1>3, <1>4, <3>1, <3>3, <3>4
  <2> QED
    BY <2>1, <2>2
<1>9. CASE LoadForest
  <2>1. newest > 0 /\ disk.scaler = newest /\ engine.scaler = newest /\ disk.forest # Torn
    BY <1>2, <1>3, <1>9 DEF LoadForest
  <2>2. engine' = [engine EXCEPT !.pc = "stat", !.forest = disk.forest]
    BY <1>9, <2>1 DEF LoadForest
  <2>3. engine'.pc = "stat" /\ engine'.forest = disk.forest /\ engine'.scaler = engine.scaler
    BY <1>3, <2>2 DEF EngineRecord
  <2>4. disk' = disk /\ newest' = newest
    BY <1>1
  <2> QED
    BY <1>3, <1>4, <2>1, <2>3, <2>4
<1>10. CASE Stat
  <2>1. newest > 0 /\ disk.scaler = newest /\ engine.scaler = newest /\ engine.forest = newest
    BY <1>2, <1>10 DEF Stat
  <2>2. PICK next \in {"dumpScaler", "score"} : engine' = [engine EXCEPT !.pc = next, !.time = disk.time]
    BY <1>10 DEF Stat, AfterLoad
  <2>3. /\ engine'.pc = next /\ engine'.time = disk.time
        /\ engine'.forest = engine.forest /\ engine'.scaler = engine.scaler
    BY <1>3, <2>2 DEF EngineRecord
  <2>4. disk' = disk /\ newest' = newest /\ newest # Torn
    BY <1>1, <1>3
  <2> QED
    BY <1>3, <1>4, <2>1, <2>3, <2>4
<1>11. CASE BeginSave
  <2>1. /\ HoldsPair /\ engine.forest > 0 /\ engine.time <= disk.time /\ disk.scaler # Torn
        /\ (engine.time = disk.time => engine.forest = newest)
    BY <1>2, <1>3, <1>11 DEF BeginSave
  <2>2. PICK stop \in BOOLEAN :
          engine' = [engine EXCEPT !.stop = stop, !.saving = TRUE,
                                   !.pc = IF NewerOnDisk THEN "loadScaler" ELSE "dumpScaler"]
    BY <1>11 DEF BeginSave
  <2>3. CASE NewerOnDisk
    <3>1. newest > 0
      BY <1>3, <2>3 DEF NewerOnDisk
    <3>2. engine'.pc = "loadScaler" /\ engine'.saving
      BY <1>3, <2>2, <2>3 DEF EngineRecord
    <3>3. disk' = disk /\ newest' = newest
      BY <1>1
    <3> QED
      BY <1>3, <1>4, <2>1, <3>1, <3>2, <3>3
  <2>4. CASE ~NewerOnDisk
    <3>1. engine.forest >= newest
      BY <1>3, <2>1, <2>4 DEF NewerOnDisk
    <3>2. engine'.pc = "dumpScaler" /\ engine'.forest = engine.forest /\ engine'.scaler = engine.scaler
      BY <1>3, <2>2, <2>4 DEF EngineRecord
    <3>3. newest' = newest
      BY <1>1
    <3> QED
      BY <1>3, <1>4, <2>1, <3>1, <3>2, <3>3
  <2> QED
    BY <2>3, <2>4
<1>12. CASE StopWithout
  BY <1>1, <1>3, <1>12 DEF StopWithout, Off
<1>13. CASE NoteTime
  <2>1. newest > 0 /\ HoldsPair /\ engine.forest = newest /\ disk.scaler = newest
    BY <1>2, <1>13 DEF NoteTime
  <2>2. CASE engine.stop
    BY <1>1, <1>3, <1>13, <2>2 DEF NoteTime, Off
  <2>3. CASE ~engine.stop
    <3>1. engine' = [engine EXCEPT !.pc = "score", !.time = disk.time, !.saving = FALSE]
      BY <1>13, <2>3 DEF NoteTime
    <3>2. /\ engine'.pc = "score" /\ engine'.time = disk.time
          /\ engine'.forest = engine.forest /\ engine'.scaler = engine.scaler
      BY <1>3, <3>1 DEF EngineRecord
    <3>3. disk' = disk /\ newest' = newest /\ newest # Torn
      BY <1>1, <1>3
    <3> QED
      BY <1>3, <1>4, <2>1, <3>2, <3>3
  <2> QED
    BY <2>2, <2>3
<1> QED
  BY <1>4, <1>6, <1>7, <1>8, <1>9, <1>10, <1>11, <1>12, <1>13 DEF Reads

LEMMA EngineReads == ASSUME ModelAssumption, ModelInv, Reads PROVE ModelInv'
<1> USE ModelConstants
<1>1. UNCHANGED <<disk, written, newest, trainVars>> /\ Touches
      /\ engine' \in EngineRecord /\ engine'.time \in {0, engine.time, disk.time} /\ engine'.forest <= trained
  BY ReadsTypes
<1>2. PairTypes'
  <2>1. disk' = disk /\ written' = written /\ newest' = newest /\ trained' = trained /\ trainer' = trainer
    BY <1>1 DEF trainVars
  <2>2. {disk.time, engine'.time, trainer.time} \subseteq 0..written
    BY <1>1 DEF ModelInv, PairTypes, Counts
  <2> QED
    BY <1>1, <2>1, <2>2 DEF ModelInv, PairTypes, EngineRecord
<1>3. Flags'
  BY <1>1, Zenon DEF Touches, Publishing, ModelInv, Flags, trainVars
<1>4. Counts'
  BY <1>1 DEF ModelInv, Counts, trainVars
<1>5. ASSUME ~disturbed' PROVE PublishesNew' /\ DiskNewest' /\ EngineHolds'
  <2>1. EngineHolds' /\ ~EngineAt("dumpForest") /\ ~EngineAt("dumpForest")'
    BY <1>5, ReadsHold
  <2>2. PublishesNew' /\ DiskNewest /\ ~TrainerAt("renameForest") /\ ~TrainerAt("renameForest")'
    <3>1. trainer' = trainer
      BY <1>1 DEF trainVars
    <3> QED
      BY <1>1, <1>5, <3>1, EngineTouches DEF TrainerAt
  <2> QED
    BY <1>1, <2>1, <2>2 DEF DiskNewest
<1> QED
  BY <1>2, <1>3, <1>4, <1>5 DEF ModelInv

(* Steps that make or write a pair. *)
LEMMA EngineBootstraps == ASSUME ModelAssumption, ModelInv, Bootstrap PROVE ModelInv'
<1> USE ModelConstants
<1>1. /\ UNCHANGED <<disk, written, newest, trainer, due, first, retrain, marked, samples, fresh>> /\ Touches
      /\ engine.pc = "bootstrap"
  BY DEF Bootstrap, EngineAt
<1>2. \/ /\ trained < MaxTrainings /\ trained' = trained + 1
         /\ engine' = [engine EXCEPT !.pc = "dumpScaler", !.scaler = trained + 1, !.forest = trained + 1]
      \/ engine' = [engine EXCEPT !.pc = "score"] /\ trained' = trained
  BY DEF Bootstrap
<1>3. engine \in EngineRecord /\ trained \in Nat /\ newest \in Nat /\ newest <= trained
      /\ trainer.id \in Nat /\ trainer.id <= trained /\ engine.forest <= trained
      /\ disk.forest \in Int /\ disk.forest <= trained /\ engine.forest \in Nat
  BY DEF ModelInv, PairTypes, Counts, EngineRecord, Trainings
<1>4. trained' \in Nat /\ trained <= trained' /\ trained' \in Trainings
  BY <1>2, <1>3 DEF Trainings, ModelInv, Counts
<1>5. engine' \in EngineRecord /\ engine'.time = engine.time /\ engine'.forest <= trained'
  <2>1. CASE engine' = [engine EXCEPT !.pc = "score"] /\ trained' = trained
    BY <1>3, <2>1 DEF EngineRecord
  <2>2. CASE /\ trained < MaxTrainings /\ trained' = trained + 1
             /\ engine' = [engine EXCEPT !.pc = "dumpScaler", !.scaler = trained + 1, !.forest = trained + 1]
    <3>1. trained + 1 \in Trainings
      BY <1>4, <2>2
    <3>2. engine' \in EngineRecord
      BY <1>3, <2>2, <3>1 DEF EngineRecord
    <3>3. engine'.time = engine.time /\ engine'.forest = trained + 1
      BY <1>3, <2>2 DEF EngineRecord
    <3> QED
      BY <1>3, <2>2, <3>2, <3>3
  <2> QED
    BY <1>2, <2>1, <2>2
<1>6. PairTypes'
  BY <1>1, <1>3, <1>4, <1>5 DEF ModelInv, PairTypes, EngineRecord
<1>7. Flags'
  BY <1>1, Zenon DEF Touches, Publishing, ModelInv, Flags
<1>8. Counts'
  BY <1>1, <1>4 DEF ModelInv, Counts
<1>9. ASSUME ~disturbed' PROVE PublishesNew' /\ DiskNewest' /\ EngineHolds'
  <2>1. PublishesNew' /\ DiskNewest /\ EngineHolds /\ ~TrainerAt("renameForest")
    <3>1. trainer' = trainer
      BY <1>1
    <3> QED
      BY <1>1, <1>9, <3>1, EngineTouches DEF TrainerAt
  <2>2. engine.forest = 0
    BY <1>1, <2>1 DEF EngineHolds, EngineAt
  <2>3. \/ engine'.pc = "dumpScaler" /\ engine'.scaler = trained + 1 /\ engine'.forest = trained + 1
        \/ engine'.pc = "score" /\ engine'.forest = 0
    BY <1>2, <1>3, <2>2 DEF EngineRecord
  <2>4. DiskNewest'
    BY <1>1, <2>1 DEF DiskNewest, EngineAt, TrainerAt
  <2>5. EngineHolds'
    BY <1>1, <1>3, <2>3 DEF EngineHolds, HoldsPair, EngineAt, Ready
  <2> QED
    BY <2>1, <2>4, <2>5
<1> QED
  BY <1>6, <1>7, <1>8, <1>9 DEF ModelInv

LEMMA EngineDumps == ASSUME ModelAssumption, ModelInv, DumpScaler \/ DumpForest PROVE ModelInv'
<1> USE ModelConstants
<1>1. /\ UNCHANGED <<trained, trainer, due, first, retrain, marked, samples, fresh>> /\ Touches
      /\ written < MaxWrites /\ written' = written + 1
  BY DEF DumpScaler, DumpForest, trainVars
<1>2. /\ engine \in EngineRecord /\ written \in Nat /\ newest \in Nat /\ newest <= trained /\ newest \in Trainings
      /\ disk \in [scaler : Trainings \cup {Torn}, forest : Trainings \cup {Torn}, time : 0..MaxWrites]
      /\ {disk.time, engine.time, trainer.time} \subseteq 0..written /\ trained \in Nat /\ engine.forest \in Nat
  BY DEF ModelInv, PairTypes, Counts, EngineRecord, Trainings
<1>3. written' \in 0..MaxWrites
  BY <1>1, <1>2
<1>4. Flags'
  BY <1>1, Zenon DEF Touches, Publishing, ModelInv, Flags
<1>5. CASE DumpScaler
  <2>1. /\ newest' = newest /\ engine.pc = "dumpScaler"
        /\ disk' = [disk EXCEPT !.scaler = engine.scaler] /\ engine' = [engine EXCEPT !.pc = "dumpForest"]
    BY <1>5 DEF DumpScaler, EngineAt
  <2>2. /\ disk' \in [scaler : Trainings \cup {Torn}, forest : Trainings \cup {Torn}, time : 0..MaxWrites]
        /\ engine' \in EngineRecord
        /\ disk'.scaler = engine.scaler /\ disk'.forest = disk.forest /\ disk'.time = disk.time
        /\ engine'.pc = "dumpForest" /\ engine'.scaler = engine.scaler /\ engine'.forest = engine.forest
        /\ engine'.time = engine.time
    BY <1>2, <2>1 DEF EngineRecord
  <2>3. PairTypes' /\ Counts'
    BY <1>1, <1>2, <1>3, <2>1, <2>2 DEF ModelInv, PairTypes, EngineRecord, Counts
  <2>4. ASSUME ~disturbed' PROVE PublishesNew' /\ DiskNewest' /\ EngineHolds'
    <3>1. PublishesNew' /\ DiskNewest /\ EngineHolds
      BY <1>1, <2>4, EngineTouches
    <3>2. DiskNewest'
      BY <2>1, <2>2, <3>1 DEF DiskNewest, EngineAt
    <3>3. EngineHolds'
      BY <2>1, <2>2, <3>1 DEF EngineHolds, HoldsPair, EngineAt, Ready
    <3> QED
      BY <3>1, <3>2, <3>3
  <2> QED
    BY <1>4, <2>3, <2>4 DEF ModelInv
<1>6. CASE DumpForest
  <2>1. /\ engine.pc = "dumpForest" /\ engine' = [engine EXCEPT !.pc = "noteTime"]
        /\ disk' = [disk EXCEPT !.forest = engine.forest, !.time = written + 1]
        /\ newest' = (IF engine.forest > newest THEN engine.forest ELSE newest)
    BY <1>6 DEF DumpForest, EngineAt
  <2>2. /\ disk' \in [scaler : Trainings \cup {Torn}, forest : Trainings \cup {Torn}, time : 0..MaxWrites]
        /\ engine' \in EngineRecord
        /\ disk'.scaler = disk.scaler /\ disk'.forest = engine.forest /\ disk'.time = written + 1
        /\ engine'.pc = "noteTime" /\ engine'.scaler = engine.scaler /\ engine'.forest = engine.forest
        /\ engine'.time = engine.time
    BY <1>1, <1>2, <1>3, <2>1 DEF EngineRecord
  <2>3. engine.forest <= trained /\ newest' \in Trainings /\ newest' <= trained
    BY <1>2, <2>1 DEF EngineRecord, ModelInv, PairTypes
  <2>4. PairTypes' /\ Counts'
    BY <1>1, <1>2, <1>3, <2>2, <2>3 DEF ModelInv, PairTypes, EngineRecord, Counts
  <2>5. ASSUME ~disturbed' PROVE PublishesNew' /\ DiskNewest' /\ EngineHolds'
    <3>1. PublishesNew' /\ DiskNewest /\ EngineHolds
      BY <1>1, <2>5, EngineTouches
    <3>2. engine.scaler = engine.forest /\ engine.forest > 0 /\ engine.forest >= newest /\ disk.scaler = engine.scaler
      BY <2>1, <3>1 DEF EngineHolds, HoldsPair, EngineAt
    <3>3. newest' = engine.forest
      BY <1>2, <2>1, <3>2
    <3>4. DiskNewest'
      BY <2>2, <3>2, <3>3 DEF DiskNewest
    <3>5. EngineHolds'
      BY <1>2, <2>2, <3>2, <3>3 DEF EngineHolds, HoldsPair, EngineAt, Ready
    <3> QED
      BY <3>1, <3>4, <3>5
  <2> QED
    BY <1>4, <2>4, <2>5 DEF ModelInv
<1> QED
  BY <1>5, <1>6

LEMMA EngineCrashes == ASSUME ModelAssumption, ModelInv, Crash PROVE ModelInv'
<1> USE ModelConstants
<1>1. /\ UNCHANGED <<written, newest, trainVars>> /\ engine' = Off
      /\ disturbed' = (disturbed \/ EngineAt("dumpForest"))
  BY DEF Crash
<1>2. /\ engine' \in EngineRecord /\ engine'.pc = "off" /\ engine'.time = 0
      /\ engine'.scaler = 0 /\ engine'.forest = 0
  BY <1>1 DEF Off, EngineRecord
<1>3. \/ disk' = disk
      \/ EngineAt("dumpScaler") /\ disk' = [disk EXCEPT !.scaler = Torn]
      \/ EngineAt("dumpForest") /\ disk' = [disk EXCEPT !.forest = Torn]
  BY DEF Crash
<1>4. disk \in [scaler : Trainings \cup {Torn}, forest : Trainings \cup {Torn}, time : 0..MaxWrites]
  BY DEF ModelInv, PairTypes
<1>5. /\ disk' \in [scaler : Trainings \cup {Torn}, forest : Trainings \cup {Torn}, time : 0..MaxWrites]
      /\ disk'.time = disk.time
  BY <1>3, <1>4
<1>6. written \in Nat /\ trained \in Nat
  BY DEF ModelInv, Counts, Trainings
<1>9. disk'.forest <= trained
  BY <1>3, <1>4, <1>6, ModelConstants DEF ModelInv, PairTypes
<1>7. PairTypes' /\ Counts'
  BY <1>1, <1>2, <1>5, <1>6, <1>9 DEF ModelInv, PairTypes, Counts, EngineRecord, trainVars
<1>10. Flags'
  BY <1>1, Zenon DEF ModelInv, Flags, trainVars, EngineAt
<1>8. ASSUME ~disturbed' PROVE PublishesNew' /\ DiskNewest' /\ EngineHolds'
  <2>1. ~disturbed /\ ~EngineAt("dumpForest") /\ PublishesNew /\ DiskNewest
    BY <1>1, <1>8 DEF ModelInv
  <2>2. \/ disk' = disk
        \/ EngineAt("dumpScaler") /\ disk'.scaler = Torn /\ disk'.forest = disk.forest /\ disk'.time = disk.time
    BY <1>3, <1>4, <2>1
  <2>3. PublishesNew'
    <3>1. EngineAt("dumpScaler") => ~Publishing
      BY <2>1 DEF PublishesNew, EngineBusy, EngineAt
    <3> QED
      BY <1>1, <1>2, <1>6, <2>1, <2>2, <3>1 DEF PublishesNew, Publishing, EngineBusy, TrainerAt, trainVars,
         ModelInv, PairTypes
  <2>4. DiskNewest'
    BY <1>1, <2>1, <2>2 DEF DiskNewest, TrainerAt, trainVars
  <2>5. EngineHolds'
    BY <1>2 DEF EngineHolds, EngineAt
  <2> QED
    BY <2>3, <2>4, <2>5
<1> QED
  BY <1>7, <1>8, <1>10 DEF ModelInv

LEMMA ModelStep == ASSUME ModelAssumption, ModelInv, [ModelNext]_modelVars PROVE ModelInv'
<1>1. CASE UNCHANGED modelVars
  BY <1>1 DEF modelVars, ModelInv, Flags, Counts, PairTypes, PublishesNew, DiskNewest, EngineHolds, HoldsPair,
     Publishing, EngineBusy, TrainerAt, EngineAt, Ready
<1>2. CASE Mark \/ Collect \/ IntervalPasses \/ Click \/ Skip
  BY <1>2, LoopWaits
<1>3. CASE Train \/ TrainFails
  BY <1>3, TrainingStarts
<1>4. CASE DumpTemporary \/ RenameScaler \/ RenameForest \/ TrainerRestarts
  BY <1>4, TemporaryDumped, PairPublished, TrainerAnew
<1>5. CASE Reads
  BY <1>5, EngineReads
<1>6. CASE Bootstrap \/ DumpScaler \/ DumpForest \/ Crash
  BY <1>6, EngineBootstraps, EngineDumps, EngineCrashes
<1> QED
  BY <1>1, <1>2, <1>3, <1>4, <1>5, <1>6 DEF ModelNext, TrainerStep, EngineStep, Reads

LEMMA ModelTypes == ASSUME ModelAssumption, ModelInv PROVE ModelTypeOK
<1>1. {due, first, retrain, disturbed, engine.stop, engine.saving} \subseteq BOOLEAN
  BY Zenon DEF ModelInv, Flags, PairTypes
<1> QED
  BY <1>1 DEF ModelInv, Counts, PairTypes, ModelTypeOK

LEMMA ModelInvImplies == ASSUME ModelAssumption, ModelInv PROVE AnomalyModelOK
<1> USE ModelConstants
<1>1. ASSUME ~disturbed, ~Publishing, ~EngineBusy
      PROVE  /\ disk.scaler > 0 /\ disk.forest > 0 => disk.scaler = newest /\ disk.forest = newest
             /\ Ready => engine.scaler = engine.forest
  <2>1. DiskNewest /\ EngineHolds
    BY <1>1 DEF ModelInv
  <2>2. engine.pc = "off" \/ engine.pc = "score"
    BY <1>1 DEF EngineBusy
  <2>3. ~TrainerAt("renameForest") /\ ~EngineAt("dumpForest")
    BY <1>1, <2>2 DEF TrainerAt, EngineAt, Publishing
  <2>4. disk.forest = newest /\ (disk.scaler = newest \/ disk.scaler = Torn)
    BY <2>1, <2>3 DEF DiskNewest
  <2>5. engine.pc = "off" => ~Ready
    BY <2>1 DEF EngineHolds, EngineAt, Ready
  <2> QED
    BY <2>1, <2>2, <2>4, <2>5 DEF EngineHolds, EngineAt, HoldsPair
<1> QED
  BY <1>1, ModelTypes DEF AnomalyModelOK, TrainingTakesEffect

(* While no training is published in the middle of a save or a load, the   *)
(* pair on the volume is that of the newest training, and flows are scored *)
(* with a pair trained together (ml-engine model.py:225-300, training-loop *)
(* trainer.py): for any number of trainings, saves, restarts and crashes.  *)
THEOREM AnomalyModelCorrect == ModelAssumption => (ModelSpec => []AnomalyModelOK)
<1> SUFFICES ASSUME ModelAssumption PROVE ModelSpec => []AnomalyModelOK
  OBVIOUS
<1>1. ModelInit => ModelInv
  BY ModelInitOK
<1>2. ModelInv /\ [ModelNext]_modelVars => ModelInv'
  BY ModelStep
<1>3. ModelInv => AnomalyModelOK
  BY ModelInvImplies
<1> QED
  BY <1>1, <1>2, <1>3, PTL DEF ModelSpec

-----------------------------------------------------------------------------
(* The rules of Suricata.                                                  *)
Rules == Sids \cup {"own", "et", Broken}
AllRules == UNION {RuleSet(f) : f \in Files}

FilesOK ==
  /\ present \subseteq Files /\ held \in [Files -> SUBSET Rules]
  /\ \A f \in Files : held[f] \subseteq RuleSet(f) \cup {Broken}
  /\ \A f \in Files \ present : held[f] = {}

SaveRecord == [pc : {"idle", "test", "judge"}, file : Files, had : BOOLEAN, backup : SUBSET Rules,
               ran : BOOLEAN, ok : BOOLEAN, dirty : BOOLEAN]
SaveOK == save \in SaveRecord /\ save.backup \subseteq RuleSet(save.file) \cup {Broken}

McpRecord == [pc : {"idle", "replace", "trigger"}, lines : SUBSET (Sids \cup {Broken}), sid : Sids \cup {Nothing}]

RestOK ==
  /\ source \in {"on", "off", "deleted"} /\ urls \in {Nothing, "with", "without"}
  /\ trigger \in {Nothing, "time", "word"} /\ entry \in {"poll", "download", "reload"}
  /\ loaded \subseteq AllRules

RuleTypes == FilesOK /\ SaveOK /\ mcp \in McpRecord /\ RestOK /\ up \in BOOLEAN /\ reported \subseteq Sids

SavingAi == save.pc # "idle" /\ save.file = "ai"

(* A reported rule is in the file, or in what a save keeps of it; a call   *)
(* of the orchestrator that is under way will not take it away.            *)
ReportedKept ==
  /\ ~SavingAi => reported \subseteq held["ai"]
  /\ SavingAi => reported \subseteq save.backup \cup held["ai"]
  /\ SavingAi /\ ~save.dirty => reported \subseteq save.backup
  /\ mcp.pc = "replace" =>
       reported \subseteq mcp.lines \cup (IF SavingAi THEN save.backup \ held["ai"] ELSE {})

RulesInv == RuleTypes /\ (~crossed => ReportedKept)

LEMMA RulesInitOK == RulesInit => RulesInv
<1> SUFFICES ASSUME RulesInit PROVE RulesInv
  OBVIOUS
<1>1. SaveOK /\ save.pc = "idle"
  BY DEF RulesInit, NoSave, SaveRecord, SaveOK, Files
<1>2. mcp \in McpRecord /\ mcp.pc = "idle"
  BY DEF RulesInit, NoCall, Nothing, McpRecord
<1>3. up \in BOOLEAN
  BY Zenon DEF RulesInit
<1>4. FilesOK /\ RestOK /\ reported = {}
  BY DEF RulesInit, FilesOK, RestOK, Files, Nothing
<1>5. ReportedKept
  BY <1>1, <1>2, <1>4 DEF ReportedKept, SavingAi
<1> QED
  BY <1>1, <1>2, <1>3, <1>4, <1>5 DEF RulesInv, RuleTypes

LEMMA RuleTypesImply == RuleTypes => RulesTypeOK
<1>1. SaveOK => save.pc \in {"idle", "test", "judge"}
  BY DEF SaveOK, SaveRecord
<1>2. mcp \in McpRecord => mcp.pc \in {"idle", "replace", "trigger"}
  BY DEF McpRecord
<1> QED
  BY <1>1, <1>2, Zenon DEF RuleTypes, RulesTypeOK, FilesOK, RestOK, AllRules

(* A file is written.                                                      *)
LEMMA WrittenOK ==
  ASSUME FilesOK, NEW f \in Files, NEW rules \in SUBSET (RuleSet(f) \cup {Broken}), Write(f, rules)
  PROVE  FilesOK' /\ held'[f] = rules /\ \A g \in Files \ {f} : held'[g] = held[g]
<1>1. held' = [held EXCEPT ![f] = rules] /\ present' = present \cup {f}
  BY DEF Write
<1>2. held \in [Files -> SUBSET Rules] /\ present \subseteq Files
  BY DEF FilesOK
<1>3. rules \subseteq Rules
  BY DEF Rules, RuleSet, Files
<1>4. held'[f] = rules /\ \A g \in Files \ {f} : held'[g] = held[g]
  BY <1>1, <1>2
<1>5. held' \in [Files -> SUBSET Rules]
  BY <1>1, <1>2, <1>3
<1>6. ASSUME NEW g \in Files PROVE held'[g] \subseteq RuleSet(g) \cup {Broken}
  <2>1. CASE g = f
    BY <1>4, <2>1
  <2>2. CASE g # f
    BY <1>4, <2>2 DEF FilesOK
  <2> QED
    BY <2>1, <2>2
<1>7. \A g \in Files \ present' : held'[g] = {}
  BY <1>1, <1>4 DEF FilesOK
<1> QED
  BY <1>1, <1>2, <1>4, <1>5, <1>6, <1>7 DEF FilesOK

(* What Suricata loads are rules of the files.                             *)
LEMMA LoadsRules ==
  ASSUME up \in BOOLEAN, loaded \subseteq AllRules,
         NEW files, \A s \in files : \E f \in Files : s \subseteq RuleSet(f) \cup {Broken}
  PROVE  Reloaded(files) \subseteq AllRules
<1>1. ASSUME NEW r \in (UNION files) \ {Broken} PROVE r \in AllRules
  <2>1. PICK s \in files : r \in s
    BY <1>1
  <2>2. PICK f \in Files : s \subseteq RuleSet(f) \cup {Broken}
    BY <2>1
  <2>3. r \in RuleSet(f)
    BY <1>1, <2>1, <2>2
  <2> QED
    BY <2>3, Zenon DEF AllRules
<1>2. Reloaded(files) = (UNION files) \ {Broken} \/ Reloaded(files) = loaded
  BY DEF Reloaded
<1> QED
  BY <1>1, <1>2

(* A save is noted as disturbed, and nothing else of it changes.           *)
LEMMA TouchedOK ==
  ASSUME SaveOK, save' = Touched
  PROVE  /\ SaveOK' /\ SavingAi' = SavingAi /\ (SavingAi => save'.dirty)
         /\ save'.backup = save.backup /\ save'.file = save.file /\ save'.pc = save.pc
<1>1. CASE save.pc = "idle"
  BY <1>1 DEF Touched, SavingAi, SaveOK
<1>2. CASE save.pc # "idle"
  <2>1. save \in SaveRecord /\ save' = [save EXCEPT !.dirty = TRUE]
    BY <1>2 DEF Touched, SaveOK
  <2>2. save' \in SaveRecord
    BY <2>1 DEF SaveRecord
  <2>3. save'.backup = save.backup /\ save'.file = save.file /\ save'.pc = save.pc
    BY <2>1 DEF SaveRecord
  <2>4. save'.dirty
    BY <2>1 DEF SaveRecord
  <2>5. SaveOK'
    BY <2>2, <2>3 DEF SaveOK
  <2> QED
    BY <2>3, <2>4, <2>5 DEF SavingAi
<1> QED
  BY <1>1, <1>2

(* A step that leaves the rules of the orchestrator alone, and of a save at *)
(* most notes that it is disturbed.                                         *)
LEMMA KeptUntouched ==
  ASSUME SaveOK, ReportedKept, held'["ai"] = held["ai"], reported' \subseteq reported,
         mcp' = mcp, save' = save \/ save' = Touched
  PROVE  ReportedKept'
<1>1. /\ SavingAi' = SavingAi /\ save'.backup = save.backup
      /\ SavingAi /\ ~save'.dirty => ~save.dirty
  <2>1. CASE save' = save
    BY <2>1 DEF SavingAi
  <2>2. CASE save' = Touched
    BY <2>2, TouchedOK
  <2> QED
    BY <2>1, <2>2
<1> QED
  BY <1>1 DEF ReportedKept

LEMMA LoadableRules ==
  ASSUME FilesOK
  PROVE  Loadable \subseteq AllRules
<1> SUFFICES ASSUME NEW r \in Loadable PROVE r \in AllRules
  OBVIOUS
<1>1. PICK f \in present : r \in held[f] /\ r # Broken
  BY Zenon DEF Loadable
<1>2. f \in Files /\ r \in RuleSet(f)
  BY <1>1 DEF FilesOK
<1> QED
  BY <1>2, Zenon DEF AllRules

(* Sources and updates.                                                    *)
LEMMA SourcesStep ==
  ASSUME RulesInv, SwitchSource \/ DeleteSource \/ Update
  PROVE  RulesInv'
<1>1. UNCHANGED <<present, held, save, mcp, entry, up, loaded, reported, crossed>>
  BY DEF SwitchSource, DeleteSource, Update
<1>2. RestOK'
  BY <1>1 DEF SwitchSource, DeleteSource, Update, RulesInv, RuleTypes, RestOK, AllRules
<1>3. RuleTypes'
  BY <1>1, <1>2 DEF RulesInv, RuleTypes, FilesOK, SaveOK
<1>4. ~crossed' => ReportedKept'
  BY <1>1 DEF RulesInv, ReportedKept, SavingAi
<1> QED
  BY <1>3, <1>4 DEF RulesInv

(* An import holds every rule of its file, and so every reported one.      *)
LEMMA ImportStep ==
  ASSUME RulesInv, NEW f \in Files, Import(f)
  PROVE  RulesInv'
<1>1. /\ UNCHANGED <<source, urls, trigger, save, mcp, entry, up, reported, crossed>>
      /\ save.pc = "idle"
  BY DEF Import, ApiIdle
<1>2. FilesOK /\ SaveOK /\ up \in BOOLEAN /\ loaded \subseteq AllRules /\ reported \subseteq Sids
  BY DEF RulesInv, RuleTypes, RestOK
<1>3. PICK rules \in {RuleSet(f), RuleSet(f) \cup {Broken}} :
        /\ Write(f, rules)
        /\ loaded' = Reloaded({rules} \cup {held[g] : g \in present \ {f}})
  BY DEF Import
<1>4. FilesOK' /\ held'[f] = rules /\ \A g \in Files \ {f} : held'[g] = held[g]
  BY <1>2, <1>3, WrittenOK
<1>5. loaded' \subseteq AllRules
  <2> DEFINE files == {rules} \cup {held[g] : g \in present \ {f}}
  <2>1. \A s \in files : \E g \in Files : s \subseteq RuleSet(g) \cup {Broken}
    BY <1>2 DEF FilesOK
  <2> HIDE DEF files
  <2>2. Reloaded(files) \subseteq AllRules
    BY <1>2, <2>1, LoadsRules
  <2> QED
    BY <1>3, <2>2 DEF files
<1>6. RuleTypes'
  BY <1>1, <1>4, <1>5 DEF RulesInv, RuleTypes, RestOK, SaveOK, AllRules
<1>7. ASSUME ~crossed' PROVE ReportedKept'
  <2>1. ReportedKept
    BY <1>1, <1>7 DEF RulesInv
  <2>2. reported \subseteq held'["ai"]
    <3>1. CASE f = "ai"
      BY <1>2, <1>4, <3>1 DEF RuleSet
    <3>2. CASE f # "ai"
      BY <1>1, <1>4, <2>1, <3>2 DEF ReportedKept, SavingAi, Files
    <3> QED
      BY <3>1, <3>2
  <2> QED
    BY <1>1, <2>1, <2>2 DEF ReportedKept, SavingAi
<1> QED
  BY <1>6, <1>7 DEF RulesInv

(* A save: what the file held is kept until it is known to be sound.       *)
LEMMA SaveWriteStep ==
  ASSUME RulesInv, NEW f \in Files, SaveWrite(f)
  PROVE  RulesInv'
<1>1. /\ UNCHANGED <<source, urls, trigger, mcp, entry, up, loaded, reported, crossed>>
      /\ save.pc = "idle"
  BY DEF SaveWrite, ApiIdle
<1>2. FilesOK
  BY DEF RulesInv, RuleTypes
<1>3. PICK rules \in SUBSET (RuleSet(f) \cup {Broken}) : Write(f, rules)
  BY DEF SaveWrite
<1>4. FilesOK' /\ held'[f] = rules /\ \A g \in Files \ {f} : held'[g] = held[g]
  BY <1>2, <1>3, WrittenOK
<1>5. SaveOK' /\ save'.pc = "test" /\ save'.file = f /\ save'.backup = held[f]
  <2>1. PICK had \in BOOLEAN :
          save' = [pc |-> "test", file |-> f, had |-> had, backup |-> held[f],
                   ran |-> FALSE, ok |-> FALSE, dirty |-> FALSE]
    <3>1. (f \in present) \in BOOLEAN
      OBVIOUS
    <3> QED
      BY <3>1 DEF SaveWrite, NoSave
  <2>2. held[f] \in SUBSET Rules /\ held[f] \subseteq RuleSet(f) \cup {Broken}
    BY <1>2 DEF FilesOK
  <2> QED
    BY <2>1, <2>2 DEF SaveOK, SaveRecord
<1>6. RuleTypes'
  BY <1>1, <1>4, <1>5 DEF RulesInv, RuleTypes, RestOK, AllRules
<1>7. ASSUME ~crossed' PROVE ReportedKept'
  <2>1. ReportedKept /\ ~SavingAi
    BY <1>1, <1>7 DEF RulesInv, SavingAi
  <2>2. reported \subseteq held["ai"] /\ (mcp.pc = "replace" => reported \subseteq mcp.lines)
    BY <2>1 DEF ReportedKept
  <2>3. CASE f = "ai"
    BY <1>1, <1>5, <2>2, <2>3 DEF ReportedKept, SavingAi
  <2>4. CASE f # "ai"
    BY <1>1, <1>4, <1>5, <2>2, <2>4 DEF ReportedKept, SavingAi, Files
  <2> QED
    BY <2>3, <2>4
<1> QED
  BY <1>6, <1>7 DEF RulesInv

LEMMA SaveTestStep ==
  ASSUME RulesInv, SaveTest
  PROVE  RulesInv'
<1>1. UNCHANGED <<present, held, source, urls, trigger, mcp, entry, up, loaded, reported, crossed>>
  BY DEF SaveTest
<1>2. SaveOK /\ save.pc = "test" /\ up \in BOOLEAN
  BY DEF SaveTest, RulesInv, RuleTypes
<1>3. PICK ok \in BOOLEAN : save' = [save EXCEPT !.pc = "judge", !.ran = up, !.ok = ok]
  <2>1. (up /\ Sound) \in BOOLEAN
    OBVIOUS
  <2> QED
    BY <2>1 DEF SaveTest
<1>4. /\ save' \in SaveRecord /\ save'.pc = "judge" /\ save'.file = save.file
      /\ save'.backup = save.backup /\ save'.dirty = save.dirty
  BY <1>2, <1>3 DEF SaveOK, SaveRecord
<1>5. SaveOK'
  BY <1>2, <1>4 DEF SaveOK
<1>6. RuleTypes'
  BY <1>1, <1>5 DEF RulesInv, RuleTypes, FilesOK, RestOK, AllRules
<1>7. ~crossed' => ReportedKept'
  BY <1>1, <1>2, <1>4 DEF RulesInv, ReportedKept, SavingAi
<1> QED
  BY <1>6, <1>7 DEF RulesInv

(* The old content comes back: all that is reported is in it, if nobody    *)
(* was in between.                                                         *)
LEMMA RollbackStep ==
  ASSUME RulesInv, Rollback
  PROVE  RulesInv'
<1>1. /\ UNCHANGED <<source, urls, trigger, mcp, entry, up, loaded, reported>>
      /\ save.pc = "judge" /\ Write(save.file, save.backup) /\ save' = NoSave
      /\ crossed' = (crossed \/ save.dirty \/ mcp.pc # "idle")
  BY DEF Rollback
<1>2. FilesOK /\ SaveOK
  BY DEF RulesInv, RuleTypes
<1>3. save.file \in Files /\ save.backup \in SUBSET (RuleSet(save.file) \cup {Broken})
  BY <1>2 DEF SaveOK, SaveRecord
<1>4. FilesOK' /\ held'[save.file] = save.backup /\ \A g \in Files \ {save.file} : held'[g] = held[g]
  BY <1>1, <1>2, <1>3, WrittenOK
<1>5. SaveOK' /\ save'.pc = "idle"
  BY <1>1 DEF NoSave, SaveOK, SaveRecord, Files
<1>6. RuleTypes'
  BY <1>1, <1>4, <1>5 DEF RulesInv, RuleTypes, RestOK, AllRules
<1>7. ASSUME ~crossed' PROVE ReportedKept'
  <2>1. ReportedKept /\ ~save.dirty /\ mcp.pc = "idle"
    BY <1>1, <1>7 DEF RulesInv
  <2>2. reported \subseteq held'["ai"]
    <3>1. CASE save.file = "ai"
      BY <1>1, <1>4, <2>1, <3>1 DEF ReportedKept, SavingAi
    <3>2. CASE save.file # "ai"
      BY <1>1, <1>4, <2>1, <3>2 DEF ReportedKept, SavingAi, Files
    <3> QED
      BY <3>1, <3>2
  <2> QED
    BY <1>1, <1>5, <2>1, <2>2 DEF ReportedKept, SavingAi
<1> QED
  BY <1>6, <1>7 DEF RulesInv

LEMMA AcceptStep ==
  ASSUME RulesInv, Accept
  PROVE  RulesInv'
<1>1. /\ UNCHANGED <<present, held, source, urls, trigger, mcp, entry, up, crossed>>
      /\ save.pc = "judge" /\ save' = NoSave
      /\ loaded' = Reloaded({held[f] : f \in present})
      /\ reported' = reported \ (save.backup \ held[save.file])
  BY DEF Accept
<1>2. FilesOK /\ SaveOK /\ up \in BOOLEAN /\ loaded \subseteq AllRules /\ reported \subseteq Sids
  BY DEF RulesInv, RuleTypes, RestOK
<1>3. SaveOK' /\ save'.pc = "idle"
  BY <1>1 DEF NoSave, SaveOK, SaveRecord, Files
<1>4. loaded' \subseteq AllRules
  <2> DEFINE files == {held[f] : f \in present}
  <2>1. \A s \in files : \E g \in Files : s \subseteq RuleSet(g) \cup {Broken}
    BY <1>2 DEF FilesOK
  <2> HIDE DEF files
  <2>2. Reloaded(files) \subseteq AllRules
    BY <1>2, <2>1, LoadsRules
  <2> QED
    BY <1>1, <2>2 DEF files
<1>5. RuleTypes'
  BY <1>1, <1>2, <1>3, <1>4 DEF RulesInv, RuleTypes, FilesOK, RestOK, AllRules
<1>6. ASSUME ~crossed' PROVE ReportedKept'
  <2>1. ReportedKept
    BY <1>1, <1>6 DEF RulesInv
  <2>2. CASE save.file = "ai"
    BY <1>1, <1>3, <2>1, <2>2 DEF ReportedKept, SavingAi
  <2>3. CASE save.file # "ai"
    BY <1>1, <1>3, <2>1, <2>3 DEF ReportedKept, SavingAi
  <2> QED
    BY <2>2, <2>3
<1> QED
  BY <1>5, <1>6 DEF RulesInv

LEMMA DeleteFileStep ==
  ASSUME RulesInv, NEW f \in Files, DeleteFile(f)
  PROVE  RulesInv'
<1>1. /\ UNCHANGED <<source, urls, trigger, save, mcp, entry, up, crossed>>
      /\ save.pc = "idle"
      /\ present' = present \ {f} /\ held' = [held EXCEPT ![f] = {}]
      /\ loaded' = Reloaded({held[g] : g \in present \ {f}})
      /\ reported' = reported \ held[f]
  BY DEF DeleteFile, ApiIdle
<1>2. FilesOK /\ up \in BOOLEAN /\ loaded \subseteq AllRules /\ reported \subseteq Sids
  BY DEF RulesInv, RuleTypes, RestOK
<1>3. held'[f] = {} /\ \A g \in Files \ {f} : held'[g] = held[g]
  BY <1>1, <1>2 DEF FilesOK
<1>4. FilesOK'
  <2>1. held' \in [Files -> SUBSET Rules] /\ present' \subseteq Files
    BY <1>1, <1>2 DEF FilesOK
  <2>2. ASSUME NEW g \in Files
        PROVE  held'[g] \subseteq RuleSet(g) \cup {Broken} /\ (g \notin present' => held'[g] = {})
    <3>1. CASE g = f
      BY <1>3, <3>1
    <3>2. CASE g # f
      BY <1>1, <1>2, <1>3, <3>2 DEF FilesOK
    <3> QED
      BY <3>1, <3>2
  <2> QED
    BY <2>1, <2>2 DEF FilesOK
<1>5. loaded' \subseteq AllRules
  <2> DEFINE files == {held[g] : g \in present \ {f}}
  <2>1. \A s \in files : \E g \in Files : s \subseteq RuleSet(g) \cup {Broken}
    BY <1>2 DEF FilesOK
  <2> HIDE DEF files
  <2>2. Reloaded(files) \subseteq AllRules
    BY <1>2, <2>1, LoadsRules
  <2> QED
    BY <1>1, <2>2 DEF files
<1>6. RuleTypes'
  BY <1>1, <1>2, <1>4, <1>5 DEF RulesInv, RuleTypes, SaveOK, RestOK, AllRules
<1>7. ASSUME ~crossed' PROVE ReportedKept'
  <2>1. ReportedKept
    BY <1>1, <1>7 DEF RulesInv
  <2>2. reported' \subseteq held'["ai"]
    <3>1. CASE f = "ai"
      BY <1>1, <1>3, <2>1, <3>1 DEF ReportedKept, SavingAi
    <3>2. CASE f # "ai"
      BY <1>1, <1>3, <2>1, <3>2 DEF ReportedKept, SavingAi, Files
    <3> QED
      BY <3>1, <3>2
  <2> QED
    BY <1>1, <2>1, <2>2 DEF ReportedKept, SavingAi
<1> QED
  BY <1>6, <1>7 DEF RulesInv

(* The orchestrator: what it reads it writes back, whoever saves meanwhile. *)
LEMMA CallBegins ==
  ASSUME RulesInv, NEW sid \in Sids, BeginUpsert(sid) \/ BeginDelete(sid)
  PROVE  RulesInv'
<1>1. UNCHANGED <<present, held, source, urls, trigger, save, entry, up, loaded, crossed>>
  BY DEF BeginUpsert, BeginDelete
<1>2. FilesOK /\ reported \subseteq Sids /\ held["ai"] \subseteq Sids \cup {Broken}
  BY DEF RulesInv, RuleTypes, FilesOK, Files, RuleSet
<1>3. \/ /\ reported' = reported
         /\ mcp' = [pc |-> "replace", lines |-> held["ai"] \cup {sid}, sid |-> sid]
      \/ /\ reported' = reported \ {sid}
         /\ mcp' = [pc |-> "replace", lines |-> held["ai"] \ {sid}, sid |-> Nothing]
  BY DEF BeginUpsert, BeginDelete, Following, WithRule
<1>4. mcp' \in McpRecord /\ mcp'.pc = "replace" /\ reported' \subseteq reported
  BY <1>2, <1>3 DEF McpRecord
<1>5. RuleTypes'
  BY <1>1, <1>2, <1>4 DEF RulesInv, RuleTypes, FilesOK, SaveOK, RestOK, AllRules
<1>6. ASSUME ~crossed' PROVE ReportedKept'
  <2>1. ReportedKept
    BY <1>1, <1>6 DEF RulesInv
  <2>2. reported' \subseteq mcp'.lines \cup (IF SavingAi THEN save.backup \ held["ai"] ELSE {})
    BY <1>3, <2>1 DEF ReportedKept
  <2> QED
    BY <1>1, <1>4, <2>1, <2>2 DEF ReportedKept, SavingAi
<1> QED
  BY <1>5, <1>6 DEF RulesInv

LEMMA ReplaceStep ==
  ASSUME RulesInv, ReplaceAi
  PROVE  RulesInv'
<1>1. /\ UNCHANGED <<source, urls, trigger, entry, up, loaded, crossed>>
      /\ mcp.pc = "replace" /\ mcp' = [mcp EXCEPT !.pc = "trigger"]
      /\ reported' = reported /\ Write("ai", mcp.lines) /\ save' = Touched
  BY DEF ReplaceAi, Following, Finished
<1>2. FilesOK /\ SaveOK /\ mcp \in McpRecord
  BY DEF RulesInv, RuleTypes
<1>3. mcp' \in McpRecord /\ mcp'.pc = "trigger"
  BY <1>1, <1>2 DEF McpRecord
<1>4. "ai" \in Files /\ mcp.lines \in SUBSET (RuleSet("ai") \cup {Broken})
  BY <1>2 DEF McpRecord, RuleSet, Files
<1>5. FilesOK' /\ held'["ai"] = mcp.lines
  BY <1>1, <1>2, <1>4, WrittenOK
<1>6. SaveOK' /\ SavingAi' = SavingAi /\ (SavingAi => save'.dirty) /\ save'.backup = save.backup
  BY <1>1, <1>2, TouchedOK
<1>7. RuleTypes'
  BY <1>1, <1>3, <1>5, <1>6 DEF RulesInv, RuleTypes, RestOK, AllRules
<1>8. ASSUME ~crossed' PROVE ReportedKept'
  <2>1. ReportedKept
    BY <1>1, <1>8 DEF RulesInv
  <2> QED
    BY <1>1, <1>3, <1>5, <1>6, <2>1 DEF ReportedKept
<1> QED
  BY <1>7, <1>8 DEF RulesInv

LEMMA TriggerStep ==
  ASSUME RulesInv, TriggerReload
  PROVE  RulesInv'
<1>1. /\ UNCHANGED <<present, held, source, urls, entry, up, loaded, crossed>>
      /\ mcp' = [mcp EXCEPT !.pc = "idle"] /\ trigger' = "word"
      /\ reported' = reported \cup ({mcp.sid} \cap held["ai"]) /\ save' = Touched
  BY DEF TriggerReload, Following, Finished
<1>2. FilesOK /\ SaveOK /\ mcp \in McpRecord /\ held["ai"] \subseteq Sids \cup {Broken}
      /\ reported \subseteq Sids
  BY DEF RulesInv, RuleTypes, FilesOK, Files, RuleSet
<1>3. mcp' \in McpRecord /\ mcp'.pc = "idle"
  BY <1>1, <1>2 DEF McpRecord
<1>4. SaveOK' /\ SavingAi' = SavingAi /\ (SavingAi => save'.dirty) /\ save'.backup = save.backup
  BY <1>1, <1>2, TouchedOK
<1>5. reported' \subseteq Sids
  BY <1>1, <1>2 DEF McpRecord, Nothing, Broken
<1>6. RuleTypes'
  BY <1>1, <1>3, <1>4, <1>5 DEF RulesInv, RuleTypes, FilesOK, RestOK, AllRules
<1>7. ASSUME ~crossed' PROVE ReportedKept'
  <2>1. ReportedKept
    BY <1>1, <1>7 DEF RulesInv
  <2> QED
    BY <1>1, <1>3, <1>4, <2>1 DEF ReportedKept
<1> QED
  BY <1>6, <1>7 DEF RulesInv

(* The container of Suricata writes no file but its download.              *)
LEMMA ContainerStep ==
  ASSUME RulesInv, Poll \/ Download \/ Reload \/ Stop \/ Start
  PROVE  RulesInv'
<1>1. /\ UNCHANGED <<source, urls, mcp, reported, crossed>>
      /\ save' = save \/ save' = Touched
      /\ up' = up \/ up' = FALSE \/ up' = TRUE
  BY DEF Poll, Download, Reload, Stop, Start
<1>2. FilesOK /\ SaveOK /\ up \in BOOLEAN
  BY DEF RulesInv, RuleTypes
<1>3. FilesOK' /\ held'["ai"] = held["ai"]
  <2>1. CASE UNCHANGED <<present, held>>
    BY <1>2, <2>1 DEF FilesOK
  <2>2. CASE \E rules \in {RuleSet("et"), {Broken}} : Write("et", rules)
    <3>1. PICK rules \in {RuleSet("et"), {Broken}} : Write("et", rules)
      BY <2>2
    <3>2. "et" \in Files /\ "ai" \in Files \ {"et"} /\ rules \in SUBSET (RuleSet("et") \cup {Broken})
      BY DEF Files
    <3> QED
      BY <1>2, <3>1, <3>2, WrittenOK
  <2> QED
    BY <2>1, <2>2 DEF Poll, Download, Reload, Stop, Start
<1>4. SaveOK'
  BY <1>1, <1>2, TouchedOK DEF SaveOK
<1>5. up' \in BOOLEAN
  BY <1>1, <1>2, Zenon
<1>6. loaded' \subseteq AllRules
  BY <1>2, LoadableRules DEF RulesInv, RuleTypes, RestOK, Poll, Download, Reload, Stop, Start
<1>7. RestOK'
  <2>1. trigger' \in {Nothing, "time", "word"} /\ entry' \in {"poll", "download", "reload"}
    BY DEF RulesInv, RuleTypes, RestOK, Poll, Download, Reload, Stop, Start
  <2> QED
    BY <1>1, <1>6, <2>1 DEF RulesInv, RuleTypes, RestOK, AllRules
<1>8. RuleTypes'
  BY <1>1, <1>3, <1>4, <1>5, <1>7 DEF RulesInv, RuleTypes
<1>9. ~crossed' => ReportedKept'
  BY <1>1, <1>2, <1>3, KeptUntouched DEF RulesInv
<1> QED
  BY <1>8, <1>9 DEF RulesInv

LEMMA RulesStep == ASSUME RulesInv, [RulesNext]_rulesVars PROVE RulesInv'
<1>1. CASE UNCHANGED rulesVars
  BY <1>1 DEF rulesVars, RulesInv, RuleTypes, FilesOK, SaveOK, RestOK, AllRules, ReportedKept, SavingAi
<1>2. CASE SwitchSource \/ DeleteSource \/ Update
  BY <1>2, SourcesStep
<1>3. CASE \E f \in Files : Import(f) \/ SaveWrite(f) \/ DeleteFile(f)
  BY <1>3, ImportStep, SaveWriteStep, DeleteFileStep
<1>4. CASE SaveTest \/ Rollback \/ Accept
  BY <1>4, SaveTestStep, RollbackStep, AcceptStep
<1>5. CASE \E sid \in Sids : BeginUpsert(sid) \/ BeginDelete(sid)
  BY <1>5, CallBegins
<1>6. CASE ReplaceAi \/ TriggerReload
  BY <1>6, ReplaceStep, TriggerStep
<1>7. CASE Poll \/ Download \/ Reload \/ Stop \/ Start
  BY <1>7, ContainerStep
<1> QED
  BY <1>1, <1>2, <1>3, <1>4, <1>5, <1>6, <1>7 DEF RulesNext

(* An AI rule reported as written stays in the file until someone takes it *)
(* out, unless a save was rolled back over what another process had        *)
(* written (routers/rules.py:660-740, suricata_rules.py): for any number   *)
(* of rules, saves, calls, downloads and restarts, and every interleaving. *)
THEOREM AiRulesKeptCorrect == RulesSpec => [](RulesTypeOK /\ AiRulesKept)
<1>1. RulesInit => RulesInv
  BY RulesInitOK
<1>2. RulesInv /\ [RulesNext]_rulesVars => RulesInv'
  BY RulesStep
<1>3. RulesInv => RulesTypeOK /\ AiRulesKept
  BY RuleTypesImply DEF RulesInv, ReportedKept, SavingAi, AiRulesKept
<1> QED
  BY <1>1, <1>2, <1>3, PTL DEF RulesSpec

=============================================================================
