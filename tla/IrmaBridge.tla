----------------------------- MODULE IrmaBridge -----------------------------
(***************************************************************************)
(* irma-bridge (main.py): polls the alarms of an IRMA installation above a *)
(* highest known id, produces them to alerts-raw and keeps the id in a     *)
(* file.  The configuration is read again in every turn, so that the       *)
(* installation may change while the id stays.                             *)
(***************************************************************************)
EXTENDS Naturals, FiniteSets, FiniteSetsExt

CONSTANTS Sites, MaxAlarms, MaxChanges, MaxFailures          \* the last three: bounds

IrmaAssumption == {MaxAlarms, MaxChanges, MaxFailures} \subseteq Nat

None == "none"

VARIABLES
  alarms,          \* site -> highest alarm id raised there
  config,          \* the site in system_config.irma, None when disabled
  client,          \* the site the client talks to, None without a client
  token,           \* the client holds a token the site accepts
  pc,              \* "idle", "poll", "produce" or "save", down: "down"
  batch,           \* ids got from the site
  lastId, lastIdFile,
  produced,        \* <<site, id>> -> how often handed to the producer (history)
  failures, changes                    \* ends of the process and failing calls;
                                       \* changes of the configuration

irmaVars == <<alarms, config, client, token, pc, batch, lastId, lastIdFile, produced,
              failures, changes>>

IrmaInit ==
  /\ alarms = [s \in Sites |-> 0] /\ config \in Sites \cup {None} /\ client = None
  /\ token = FALSE /\ pc = "idle" /\ batch = {} /\ lastId = 0 /\ lastIdFile = 0
  /\ produced = [a \in Sites \X (1..MaxAlarms) |-> 0] /\ failures = 0 /\ changes = 0

Raise(s) ==
  /\ alarms[s] < MaxAlarms /\ alarms' = [alarms EXCEPT ![s] = @ + 1]
  /\ UNCHANGED <<config, client, token, pc, batch, lastId, lastIdFile, produced, failures, changes>>

Configure ==
  /\ changes < MaxChanges /\ changes' = changes + 1
  /\ config' \in (Sites \cup {None}) \ {config}
  /\ UNCHANGED <<alarms, client, token, pc, batch, lastId, lastIdFile, produced, failures>>

TokenExpires ==
  /\ token /\ token' = FALSE
  /\ UNCHANGED <<alarms, config, client, pc, batch, lastId, lastIdFile, produced, failures, changes>>

\* A changed configuration discards client and token.
Refreshed == config

\* Top of the loop; when the database does not answer the environment's
\* values count, which hold the same site.
RefreshConfig ==
  /\ pc = "idle"
  /\ client' = Refreshed
  /\ token' = (token /\ Refreshed = client)
  /\ pc' = IF Refreshed = None THEN "idle" ELSE "poll"
  /\ UNCHANGED <<alarms, config, batch, lastId, lastIdFile, produced, failures, changes>>

\* Bug: the alarms from the last known one on.
NewAlarms == {i \in 1..alarms[client] : i >= lastId /\ i > 0}

\* Bug: the next alarm is taken for the last known one.
AlarmsBeyond == {i \in 1..alarms[client] : i > lastId + 1}

\* What the site answers to after=last_id.
AlarmsAfter == {i \in 1..alarms[client] : i > lastId}

\* get_alarms_after: logs in without a token, and once more after a 401.
Poll ==
  /\ pc = "poll" /\ token' = TRUE
  /\ batch' = AlarmsAfter
  /\ pc' = IF batch' = {} THEN "idle" ELSE "produce"
  /\ UNCHANGED <<alarms, config, client, lastId, lastIdFile, produced, failures, changes>>

\* Counts stop at what RepeatsHaveCause can tell apart.
Produced(ids) ==
  [a \in DOMAIN produced |->
     IF a[1] = client /\ a[2] \in ids /\ produced[a] < MaxFailures + 2
       THEN produced[a] + 1 ELSE produced[a]]

\* The loop over the batch; flush waits 5 s and does not say what was delivered.
Produce ==
  /\ pc = "produce" /\ produced' = Produced(batch) /\ pc' = "save"
  /\ UNCHANGED <<alarms, config, client, token, batch, lastId, lastIdFile, failures, changes>>

NewMax == Max(batch \cup {lastId})

Save ==
  /\ pc = "save"
  /\ lastIdFile' = NewMax /\ lastId' = NewMax
  /\ pc' = "idle" /\ batch' = {}
  /\ UNCHANGED <<alarms, config, client, token, produced, failures, changes>>

\* A request, a produce in the middle of the batch, or the write of the file
\* raises: the turn ends and the id stays.
Fails ==
  /\ pc \in {"poll", "produce", "save"} /\ failures < MaxFailures
  /\ failures' = failures + 1
  /\ \E done \in SUBSET (IF pc = "produce" THEN batch ELSE {}) : produced' = Produced(done)
  /\ pc' = "idle" /\ batch' = {}
  /\ UNCHANGED <<alarms, config, client, token, lastId, lastIdFile, changes>>

Crash ==
  /\ pc # "down" /\ failures < MaxFailures /\ failures' = failures + 1
  /\ pc' = "down" /\ batch' = {} /\ client' = None /\ token' = FALSE
  /\ UNCHANGED <<alarms, config, lastId, lastIdFile, produced, changes>>

Restart ==
  /\ pc = "down" /\ pc' = "idle" /\ lastId' = lastIdFile
  /\ UNCHANGED <<alarms, config, client, token, batch, lastIdFile, produced, failures, changes>>

IrmaNext ==
  \/ \E s \in Sites : Raise(s)
  \/ Configure \/ TokenExpires \/ RefreshConfig \/ Poll \/ Produce \/ Save
  \/ Fails \/ Crash \/ Restart

IrmaSpec == IrmaInit /\ [][IrmaNext]_irmaVars
IrmaFairness ==
  /\ WF_irmaVars(RefreshConfig) /\ WF_irmaVars(Poll)
  /\ WF_irmaVars(Produce) /\ WF_irmaVars(Save) /\ WF_irmaVars(Restart)

IrmaFairSpec == IrmaSpec /\ IrmaFairness

-----------------------------------------------------------------------------
\* Types of the variables; a client with a batch or a token exists.
IrmaTypeOK ==
  /\ alarms \in [Sites -> 0..MaxAlarms] /\ {config, client} \subseteq Sites \cup {None}
  /\ token \in BOOLEAN /\ pc \in {"idle", "poll", "produce", "save", "down"}
  /\ batch \subseteq 1..MaxAlarms /\ {lastId, lastIdFile} \subseteq 0..MaxAlarms
  /\ client = None => batch = {} /\ ~token

\* As long as the installation was never changed, every alarm up to the saved
\* id has been produced, over failing calls and restarts.
CursorBehindProduced ==
  changes = 0 => \A a \in DOMAIN produced : a[1] = config /\ a[2] <= lastIdFile => produced[a] > 0

\* An alarm is produced again only after a failing call or a restart.
RepeatsHaveCause == \A a \in DOMAIN produced : produced[a] <= 1 + failures

\* Each alarm of a lasting installation is produced in the end.
AlarmsArrive ==
  \A s \in Sites, i \in 1..MaxAlarms :
    []<>(changes = 0 /\ config = s /\ alarms[s] >= i => produced[<<s, i>>] > 0)

=============================================================================
