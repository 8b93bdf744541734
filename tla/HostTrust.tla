------------------------------ MODULE HostTrust ------------------------------
(***************************************************************************)
(* What enrichment-service does for one internal address of an alert       *)
(* (main.py:110-214, db.py): it takes what it knows from the cache, or     *)
(* reads the trust of the host, waits for name and ping, caches the        *)
(* answer and writes it to host_info; a host that is not trusted gets the  *)
(* alert UNKNOWN_HOST_001, once per UNKNOWN_HOST_DEDUP_S.  Meanwhile the   *)
(* operator edits the host through the api, which deletes the cached       *)
(* answer (routers/hosts.py).  Addresses share nothing.                    *)
(*                                                                         *)
(* Time passes between two alerts only: handling one takes seconds, the    *)
(* two intervals are hours.                                                *)
(***************************************************************************)
EXTENDS Integers

CONSTANTS
  TTL,           \* cache_ttl_s
  Dedup,         \* UNKNOWN_HOST_DEDUP_S
  MaxTime, MaxEdits, MaxMishaps      \* bounds

ASSUME TrustAssumption == {TTL, Dedup, MaxTime, MaxEdits, MaxMishaps} \subseteq Nat

None == -1
NoHost == [trusted |-> FALSE, source |-> "none", known |-> FALSE]

VARIABLES
  now,
  host,        \* the row of host_info
  cache,       \* cached answer: trusted, time it was set; or time None
  dedup,       \* unknown_host_alert_dedup.last_alerted, or None
  pc, info,    \* the service: where it is, the answer it has in hand
  edits, mishaps,
  lastAlert,   \* time of the last UNKNOWN_HOST_001, or None (history)
  untrusted,   \* last time the row existed without trust, or did not exist (history)
  unread,      \* last time its trust could not be read, or None (history)
  verdict,     \* what the operator said last: "none", "trust", "distrust" (history)
  repeated,    \* an alert came within Dedup of the one before (history)
  unfounded    \* an alert came for a host that was trusted, and had been
               \* readable, for longer than TTL (history)

trustVars == <<now, host, cache, dedup, pc, info, edits, mishaps, lastAlert, untrusted, unread,
               verdict, repeated, unfounded>>
trustHistory == <<lastAlert, untrusted, unread, verdict, repeated, unfounded>>

Empty == [trusted |-> FALSE, at |-> None]

TrustInit ==
  /\ now = 0 /\ host = NoHost /\ cache = Empty /\ dedup = None
  /\ pc = "idle" /\ info = FALSE /\ edits = 0 /\ mishaps = 0
  /\ lastAlert = None /\ untrusted = 0 /\ unread = None /\ verdict = "none"
  /\ repeated = FALSE /\ unfounded = FALSE

-----------------------------------------------------------------------------
\* Bug: what is cached is never thrown away.
CachedForEver == cache.at # None

\* cache.get finds an answer that has not expired.
Cached == cache.at # None /\ now - cache.at < TTL

\* A trusted host is done with; another is asked about in the table of repetitions.
AfterAnswer(trusted) == IF trusted THEN "idle" ELSE "check"

\* An alert about the address, answered from the cache ...
UseCache ==
  /\ pc = "idle" /\ Cached
  /\ info' = cache.trusted /\ pc' = AfterAnswer(cache.trusted)
  /\ UNCHANGED <<now, host, cache, dedup, edits, mishaps, trustHistory>>

\* ... or with the trust of the row; an error of the database reads as untrusted.
ReadTrust ==
  /\ pc = "idle" /\ ~Cached
  /\ info' = host.trusted /\ pc' = "lookup"
  /\ UNCHANGED <<now, host, cache, dedup, edits, mishaps, trustHistory>>

TrustUnreadable ==
  /\ pc = "idle" /\ ~Cached /\ mishaps < MaxMishaps
  /\ mishaps' = mishaps + 1
  /\ info' = FALSE /\ pc' = "lookup" /\ unread' = now
  /\ UNCHANGED <<now, host, cache, dedup, edits, lastAlert, untrusted, verdict, repeated,
                 unfounded>>

\* Name and ping are there: a name makes the host trusted; the answer is cached.
\* Without Redis it is not.
LookedUp(named, redis) ==
  /\ pc = "lookup"
  /\ redis \/ mishaps < MaxMishaps
  /\ mishaps' = IF redis THEN mishaps ELSE mishaps + 1
  /\ info' = (info \/ named)
  /\ cache' = IF redis THEN [trusted |-> info', at |-> now] ELSE cache
  /\ pc' = IF named THEN "store named" ELSE "store"
  /\ UNCHANGED <<now, host, dedup, edits, trustHistory>>

\* Bug: the answer replaces what the row says of trust.
RaisedOverwrites(named) ==
  [known |-> TRUE, trusted |-> named, source |-> IF named THEN "dns" ELSE "none"]

\* ON CONFLICT of upsert_host_info: trust is raised only; who gave it stays.
Raised(named) ==
  [known |-> TRUE, trusted |-> host.trusted \/ named,
   source |-> IF named /\ ~host.trusted THEN "dns" ELSE host.source]

\* upsert_host_info.  After three failed attempts it is given up.
Store(written) ==
  /\ pc \in {"store", "store named"}
  /\ written \/ mishaps < MaxMishaps
  /\ mishaps' = IF written THEN mishaps ELSE mishaps + 1
  /\ host' = IF written THEN Raised(pc = "store named") ELSE host
  /\ pc' = AfterAnswer(info)
  /\ UNCHANGED <<now, cache, dedup, info, edits, trustHistory>>

\* Bug: the table of repetitions is brought up to date whatever it says.
MayRepeatAlways == TRUE

\* The WHERE of should_alert_unknown_host.
MayRepeat == dedup = None \/ dedup < now - Dedup

\* should_alert_unknown_host, committed before the alert is written; an error
\* reads as no.
ClaimAlert ==
  /\ pc = "check"
  /\ \/ MayRepeat /\ dedup' = now /\ pc' = "insert" /\ UNCHANGED mishaps
     \/ ~MayRepeat /\ pc' = "idle" /\ UNCHANGED <<dedup, mishaps>>
     \/ /\ mishaps < MaxMishaps
        /\ mishaps' = mishaps + 1 /\ pc' = "idle" /\ UNCHANGED dedup
  /\ UNCHANGED <<now, host, cache, info, edits, trustHistory>>

Within(t, d) == t # None /\ now - t <= d

\* insert_unknown_host_alert.
InsertAlert ==
  /\ pc = "insert" /\ pc' = "idle"
  /\ lastAlert' = now
  /\ repeated' = (repeated \/ Within(lastAlert, Dedup))
  /\ unfounded' = (unfounded \/ ~(Within(untrusted, TTL) \/ Within(unread, TTL)))
  /\ UNCHANGED <<now, host, cache, dedup, info, edits, mishaps, untrusted, unread, verdict>>

\* Three failed attempts to write, or the end of the process, at any point.
GiveUp ==
  /\ pc # "idle" /\ mishaps < MaxMishaps
  /\ mishaps' = mishaps + 1 /\ pc' = "idle"
  /\ UNCHANGED <<now, host, cache, dedup, info, edits, trustHistory>>

-----------------------------------------------------------------------------
\* An edit of the operator, and the deletion of the cached answer; when Redis
\* cannot be reached the answer stays.
Edit(row, said, redis) ==
  /\ edits < MaxEdits
  /\ redis \/ mishaps < MaxMishaps
  /\ edits' = edits + 1
  /\ mishaps' = IF redis THEN mishaps ELSE mishaps + 1
  /\ host' = row /\ verdict' = said
  /\ cache' = IF redis THEN Empty ELSE cache
  /\ untrusted' = IF row.trusted /\ host.trusted THEN untrusted ELSE now
  /\ UNCHANGED <<now, dedup, pc, info, lastAlert, unread, repeated, unfounded>>

\* create_host, update_host and a line of import_csv: trust given by hand or by file.
TrustHost(source, redis) ==
  Edit([known |-> TRUE, trusted |-> TRUE,
        source |-> IF host.source = "manual" THEN "manual" ELSE source], "trust", redis)

\* update_host with trusted = false.
DistrustHost(redis) ==
  host.known /\ Edit([known |-> TRUE, trusted |-> FALSE, source |-> "manual"], "distrust", redis)

\* delete_host does not touch the cache.
DeleteHost ==
  /\ host.known /\ edits < MaxEdits
  /\ edits' = edits + 1 /\ host' = NoHost /\ verdict' = "none" /\ untrusted' = now
  /\ UNCHANGED <<now, cache, dedup, pc, info, mishaps, lastAlert, unread, repeated, unfounded>>

TrustTick ==
  /\ pc = "idle" /\ now < MaxTime
  /\ now' = now + 1
  /\ untrusted' = IF host.trusted THEN untrusted ELSE now'
  /\ UNCHANGED <<host, cache, dedup, pc, info, edits, mishaps, lastAlert, unread, verdict,
                 repeated, unfounded>>

TrustNext ==
  \/ UseCache \/ ReadTrust \/ TrustUnreadable
  \/ \E named, redis \in BOOLEAN : LookedUp(named, redis)
  \/ \E written \in BOOLEAN : Store(written)
  \/ ClaimAlert \/ InsertAlert \/ GiveUp
  \/ \E source \in {"manual", "csv"}, redis \in BOOLEAN : TrustHost(source, redis)
  \/ \E redis \in BOOLEAN : DistrustHost(redis)
  \/ DeleteHost \/ TrustTick

TrustSpec == TrustInit /\ [][TrustNext]_trustVars

-----------------------------------------------------------------------------
TrustTypeOK ==
  /\ host.source \in {"none", "dns", "manual", "csv"} /\ host.trusted \in BOOLEAN
  /\ cache.at \in {None} \cup 0..now /\ dedup \in {None} \cup 0..now
  /\ pc \in {"idle", "lookup", "store", "store named", "check", "insert"}

\* UNKNOWN_HOST_001 comes at most once per UNKNOWN_HOST_DEDUP_S for an address,
\* whatever crashes and failed writes lie between the table of repetitions and
\* the alert, and never for a host that has been trusted for longer than an
\* answer is cached, unless its trust could not be read: an edit that falls
\* between the reading of the trust and the caching of the answer is overruled
\* for that long at most (main.py:110-166, 205-214; db.py:287-316).
UnknownHostAlertsJustified == ~repeated /\ ~unfounded

\* What db.py:201-202 says of the trust of a host: "manuelle oder CSV-Einträge
\* werden nicht überschrieben".
ManualVerdictKept == verdict = "distrust" => ~host.trusted
=============================================================================
