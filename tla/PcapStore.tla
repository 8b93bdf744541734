------------------------------ MODULE PcapStore ------------------------------
(***************************************************************************)
(* pcap-store (main.py, buffer.py, storage.py): one thread keeps the       *)
(* packets of the last seconds, waits a window's length after an alert has *)
(* come in, and then uploads what the buffer holds around the alert's time *)
(* to MinIO and marks the alert's row.  MinIO deletes by age, and a sweep  *)
(* by the same age takes the marks back.                                   *)
(*                                                                         *)
(* One packet is captured at every instant; it and the alerts reach the    *)
(* service later, the packets in order.                                    *)
(***************************************************************************)
EXTENDS Integers, FiniteSets

CONSTANTS
  Alerts,      \* alert ids
  Window,      \* seconds before and after an alert (60)
  Slack,       \* what the buffer keeps beyond two windows (10)
  MaxClock, MaxOutages   \* bounds

StoreAssumption ==
  /\ IsFiniteSet(Alerts) /\ Window \in Nat \ {0} /\ {Slack, MaxClock, MaxOutages} \subseteq Nat

Times == 0..MaxClock
NoPcap == {-1}

VARIABLES
  clock,
  received,   \* packets of times below this one have been received
  since,      \* the first of them that this process has received
  buf,        \* times of the packets in the buffer
  pending,    \* alert -> time of the alert and when it is ready, or nothing
  done,       \* alerts dealt with
  prompt,     \* alerts received within Slack of their time and flushed when ready (history)
  object,     \* alert -> the packets of its object in MinIO
  available,  \* alerts whose row promises an object
  old,        \* alerts older than the retention
  storeUp, outages

storeVars == <<clock, received, since, buf, pending, done, prompt, object, available, old, storeUp, outages>>
bucketVars == <<object, available, old>>

NotPending == [at |-> -1, ready |-> -1]

StoreInit ==
  /\ clock = 0 /\ received = 0 /\ since = 0 /\ buf = {}
  /\ pending = [a \in Alerts |-> NotPending] /\ done = {} /\ prompt = {}
  /\ object = [a \in Alerts |-> NoPcap] /\ available = {} /\ old = {}
  /\ storeUp = TRUE /\ outages = 0

Outage == outages < MaxOutages /\ outages' = outages + 1

Waiting == {a \in Alerts : pending[a] # NotPending}
Ripe == {a \in Waiting : pending[a].ready <= clock}

-----------------------------------------------------------------------------
(* Time.  The loop polls twice a second: it passes a ready alert only when *)
(* the database or MinIO holds it up.                                      *)

Tick ==
  /\ clock < MaxClock /\ clock' = clock + 1
  /\ IF storeUp /\ Ripe # {} THEN Outage /\ prompt' = prompt \ Ripe ELSE UNCHANGED <<outages, prompt>>
  /\ UNCHANGED <<received, since, buf, pending, done, bucketVars, storeUp>>

-----------------------------------------------------------------------------
(* The two topics.                                                         *)

\* Bug: the window after the alert is forgotten.
KeptOneWindow == Window + Slack

\* _max_s
Kept == 2 * Window + Slack

\* _handle_packet, PacketBuffer.add: what is too old goes.
Packet ==
  /\ storeUp /\ received < clock
  /\ received' = received + 1
  /\ buf' = {t \in buf \cup {received} : t >= clock - Kept}
  /\ UNCHANGED <<clock, since, pending, done, prompt, bucketVars, storeUp, outages>>

\* _handle_alert: the wait begins when the alert is received.
Alert(a) ==
  /\ storeUp /\ a \notin done /\ a \notin Waiting
  /\ \E t \in 0..clock :
       /\ pending' = [pending EXCEPT ![a] = [at |-> t, ready |-> clock + Window]]
       /\ prompt' = IF clock - t <= Slack THEN prompt \cup {a} ELSE prompt
  /\ UNCHANGED <<clock, received, since, buf, done, bucketVars, storeUp, outages>>

-----------------------------------------------------------------------------
(* _flush_pending, for one alert.                                          *)

Around(t) == {p \in buf : t - Window <= p /\ p <= t + Window}

Drop(a) == pending' = [pending EXCEPT ![a] = NotPending] /\ done' = done \cup {a}

\* Bug: the row is marked whether or not the upload succeeded.
MarksAnyway(uploaded) == TRUE

Marks(uploaded) == uploaded

\* The upload or, three times, the UPDATE may fail; neither is tried again.
\* Without packets there is nothing to upload.
FlushOne(a) ==
  /\ Drop(a)
  /\ IF Around(pending[a].at) = {}
       THEN UNCHANGED <<object, available, outages>>
       ELSE \/ /\ object' = [object EXCEPT ![a] = Around(pending[a].at)]
               /\ \/ available' = available \cup {a} /\ UNCHANGED outages
                  \/ UNCHANGED available /\ Outage
            \/ /\ Outage /\ UNCHANGED object
               /\ available' = IF Marks(FALSE) THEN available \cup {a} ELSE available

Flush ==
  /\ storeUp /\ \E a \in Ripe : FlushOne(a)
  /\ UNCHANGED <<clock, received, since, buf, prompt, old, storeUp>>

-----------------------------------------------------------------------------
(* Ends.  The consumer commits on its own, every few seconds.              *)

\* SIGTERM: every alert that waits is flushed as if it were ready.
StopOne ==
  /\ storeUp /\ Waiting # {} /\ \E a \in Waiting : FlushOne(a) /\ prompt' = prompt \ {a}
  /\ UNCHANGED <<clock, received, since, buf, old, storeUp>>

\* A crash, which MinIO being out of reach is too: put_object raises what
\* upload_pcap does not catch, and the loop ends.  Alerts that wait are not
\* received again once their offset is committed.
StoreCrash ==
  /\ storeUp /\ Outage /\ storeUp' = FALSE
  /\ buf' = {} /\ since' = received /\ prompt' = {}
  /\ \E lost \in SUBSET Waiting : done' = done \cup lost
  /\ pending' = [a \in Alerts |-> NotPending]
  /\ UNCHANGED <<clock, received, bucketVars>>

-----------------------------------------------------------------------------
(* Retention, in days.                                                     *)

AlertAges ==
  /\ \E a \in done \ old : old' = old \cup {a}
  /\ UNCHANGED <<clock, received, since, buf, pending, done, prompt, object, available, storeUp, outages>>

\* MinIO's rule counts from the upload, which comes after the alert.
ObjectExpires ==
  /\ \E a \in old : object[a] # NoPcap /\ object' = [object EXCEPT ![a] = NoPcap]
  /\ UNCHANGED <<clock, received, since, buf, pending, done, prompt, available, old, storeUp, outages>>

\* Bug: only the first sweep after the start.
SweepsOnce == FALSE

\* The sweep runs when the service starts and every retention_sweep_s.
Sweeps == TRUE

\* expire_stale_pcaps
Sweep ==
  /\ storeUp /\ Sweeps /\ available' = available \ old
  /\ UNCHANGED <<clock, received, since, buf, pending, done, prompt, object, old, storeUp, outages>>

StartStore ==
  /\ ~storeUp /\ storeUp' = TRUE /\ available' = available \ old
  /\ UNCHANGED <<clock, received, since, buf, pending, done, prompt, object, old, outages>>

StoreNext ==
  \/ Tick \/ Packet \/ (\E a \in Alerts : Alert(a)) \/ Flush \/ StopOne \/ StoreCrash
  \/ AlertAges \/ ObjectExpires \/ Sweep \/ StartStore

StoreSpec == StoreInit /\ [][StoreNext]_storeVars

StoreFairness == WF_storeVars(Sweep) /\ WF_storeVars(StartStore)

StoreFairSpec == StoreSpec /\ StoreFairness

-----------------------------------------------------------------------------
StoreTypeOK ==
  /\ clock \in Times /\ {received, since} \subseteq Times /\ buf \subseteq Times
  /\ pending \in [Alerts -> [at : Times \cup {-1}, ready : -1..(MaxClock + Window)]]
  /\ done \cup prompt \cup available \cup old \subseteq Alerts
  /\ object \in [Alerts -> SUBSET (Times \cup NoPcap)] /\ storeUp \in BOOLEAN

\* The buffer reaches back far enough: of an alert that came within Slack of
\* its time the object holds every packet of the window that had been received,
\* the packets before the alert included, whatever came in meanwhile.
WholeWindow ==
  \A a \in Ripe \cap prompt :
    \A t \in (pending[a].at - Window)..(pending[a].at + Window) :
      t \in since..(received - 1) => t \in buf

\* No row promises an object that was never there: one that has gone is older
\* than the retention, and the next sweep takes the promise back.
PromisesKept == \A a \in available : object[a] # NoPcap \/ a \in old

\* A capture that is cut in time is whole, and no row promises one that never was.
PcapStoreOK == StoreTypeOK /\ WholeWindow /\ PromisesKept

\* The promise of an object that MinIO has deleted does not stand for ever.
PromiseTakenBack == []<>(available \cap old = {})

=============================================================================
