---------------------------- MODULE ServiceProofs ----------------------------
(***************************************************************************)
(* What the protocols between two programs promise, for every number of    *)
(* users, calls, connections, edits and crashes: the settings that are     *)
(* moved to another master (SettingsMigration), the update a tap is asked  *)
(* for (UpdateTrigger), the pairing of a tap (Pairing), the alerts on      *)
(* their way to a broker (MqttBridge), the bundle a tap is given           *)
(* (ConfigSync) and the thresholds of the tuner and of the operator        *)
(* (RuleTuning).                                                           *)
(*                                                                         *)
(* The six have nothing in common but that the steps of two programs       *)
(* interleave.  Each has an inductive invariant of its own: MigrationInv,  *)
(* TriggerInv, PairingInv, MqttInv, SyncInv, TuningInv.                    *)
(***************************************************************************)
EXTENDS SettingsMigration, UpdateTrigger, Pairing, MqttBridge, ConfigSync, RuleTuning,
        FiniteSetTheorems, WellFoundedInduction, TLAPS

-----------------------------------------------------------------------------
(* The import of the settings.                                             *)

(* Until the tables are applied, and after a refusal, the target is as it  *)
(* was.                                                                    *)
MigrationInv ==
  /\ SettingsMigrationOK
  /\ step \in {"export", "ready", "refused"} => target = before

LEMMA TheTables ==
  /\ TableSet = {"users", "system_config", "notification_channels"}
  /\ Len(Tables) = 3 /\ Len(Files) = 4 /\ \A i \in 1..3 : Tables[i] \in TableSet
  /\ Outside \notin TableSet /\ OfUsers = {"notification_channels", Outside}
<1>1. DOMAIN Tables = 1..3 /\ Len(Tables) = 3 /\ Len(Files) = 4
  BY DEF Tables, Files
<1>2. Tables[1] = "users" /\ Tables[2] = "system_config" /\ Tables[3] = "notification_channels"
  BY DEF Tables
<1>3. 1..3 = {1, 2, 3}
  OBVIOUS
<1>4. TableSet = {Tables[i] : i \in 1..3}
  BY <1>1 DEF TableSet, Range
<1>5. TableSet = {"users", "system_config", "notification_channels"}
  BY <1>2, <1>3, <1>4
<1> QED
  BY <1>1, <1>4, <1>5 DEF Outside, OfUsers

LEMMA MigrationInitOK == ASSUME MigrationAssumption, MigrationInit PROVE MigrationInv
<1>1. source \in Database /\ target \in Database /\ before = target
  BY DEF MigrationInit, Database
<1>2. bundle \in [TableSet -> SUBSET SUBSET Users]
  BY DEF MigrationInit
<1>3. MigrationTypeOK
  BY <1>1, <1>2, TheTables DEF MigrationInit, MigrationTypeOK, MigrationAssumption
<1> QED
  BY <1>1, <1>3 DEF MigrationInit, MigrationInv, SettingsMigrationOK, ImportReported, RefusalKeepsDb

(* What the import writes, and what it says of it. *)
LEMMA ApplyDbReports ==
  ASSUME MigrationAssumption, MigrationInv, NEW odd \in [TableSet -> SUBSET Users], ~Unusable(odd),
         target' = [t \in DOMAIN target |->
                      IF t \in TableSet THEN Inserted(RowsOf(t), Failing(t, odd)) ELSE Truncated[t]],
         report' = [t \in TableSet |-> [rows |-> Cardinality(RowsOf(t) \ Failing(t, odd)),
                                        failed |-> Cardinality(Failing(t, odd))]],
         bundle' = bundle
  PROVE  target' \in Database /\ ImportReported'
<1>1. target \in Database /\ bundle \in [TableSet -> SUBSET SUBSET Users]
  BY DEF MigrationInv, SettingsMigrationOK, MigrationTypeOK
<1>2. DOMAIN target = TableSet \cup {Outside} /\ Outside \notin TableSet
  BY <1>1, TheTables DEF Database
<1>3. \A t \in TableSet : RowsOf(t) \subseteq Users /\ RowsOf(t)' = RowsOf(t)
  BY <1>1 DEF RowsOf
<1>4. \A t \in TableSet : Failing(t, odd) \subseteq RowsOf(t)
  BY DEF Failing
<1>5. \A t \in TableSet : target'[t] = RowsOf(t) \ Failing(t, odd)
  BY <1>2 DEF Inserted
<1>6. target'[Outside] = {}
  BY <1>2 DEF Truncated
<1>7. target' \in Database
  BY <1>2, <1>3, <1>5, <1>6 DEF Database
<1>8. ASSUME NEW t \in TableSet
      PROVE  /\ Cardinality(target'[t]) = report'[t].rows
             /\ report'[t].rows + report'[t].failed = Cardinality(RowsOf(t))
             /\ target'[t] \subseteq RowsOf(t)
  <2> DEFINE R == RowsOf(t)
             F == Failing(t, odd)
  <2>1. F \subseteq R /\ R \subseteq Users /\ target'[t] = R \ F
    BY <1>3, <1>4, <1>5
  <2>2. report'[t].rows = Cardinality(R \ F) /\ report'[t].failed = Cardinality(F)
    OBVIOUS
  <2> HIDE DEF R, F
  <2>3. IsFiniteSet(R) /\ IsFiniteSet(F) /\ R \cap F = F
    BY <2>1, FS_Subset DEF MigrationAssumption
  <2>4. Cardinality(R \ F) = Cardinality(R) - Cardinality(R \cap F)
    BY <2>3, FS_Difference
  <2>5. Cardinality(R) \in Nat /\ Cardinality(F) \in Nat
    BY <2>3, FS_CardinalityType
  <2>6. Cardinality(R \ F) + Cardinality(F) = Cardinality(R)
    <3>1. Cardinality(R \ F) = Cardinality(R) - Cardinality(F)
      BY <2>3, <2>4
    <3> QED
      BY <2>5, <3>1
  <2>7. report'[t].rows + report'[t].failed = Cardinality(R)
    BY <2>2, <2>6
  <2> QED
    BY <2>1, <2>2, <2>7 DEF R
<1>9. Sound(target')
  <2> DEFINE here == RowsOf("users")
  <2>1. "users" \in TableSet /\ "notification_channels" \in TableSet /\ "users" \notin OfUsers
    BY TheTables DEF OfUsers, Outside
  <2>2. target'["users"] = here \ (here \cap odd["users"])
    BY <1>5, <2>1 DEF Failing
  <2>3. target'["notification_channels"] \subseteq here \ (odd["users"] \cap here)
    BY <1>5, <2>1 DEF Failing, Inserted, OfUsers
  <2> QED
    BY <1>6, <2>2, <2>3 DEF Sound, OfUsers
<1>10. ImportReported'
  BY <1>3, <1>8, <1>9 DEF ImportReported, RowsOf, Sound
<1> QED
  BY <1>7, <1>10

LEMMA MigrationStep ==
  ASSUME MigrationAssumption, MigrationInv, [MigrationNext]_migrationVars PROVE MigrationInv'
<1>1. /\ source \in Database /\ target \in Database /\ before \in Database
      /\ bundle \in [TableSet -> SUBSET SUBSET Users] /\ dumped \in 0..3
      /\ step \in {"export", "ready", "refused", "files", "success", "failure"}
      /\ volumes \in 0..5 /\ writes \in 0..MaxWrites /\ MaxWrites \in Nat
      /\ step \in {"export", "ready", "refused"} => target = before
      /\ Len(Tables) = 3 /\ Len(Files) = 4 /\ \A t \in TableSet : t \in TableSet \cup {Outside}
  BY TheTables DEF MigrationInv, SettingsMigrationOK, MigrationTypeOK, MigrationAssumption
<1>2. CASE AddUser \/ AddChannel \/ DeleteUser
  <2>1. /\ step = "export" /\ writes' \in 0..MaxWrites
        /\ UNCHANGED <<target, bundle, missing, dumped, step, report, before, volumes>>
    BY <1>1, <1>2 DEF AddUser, AddChannel, DeleteUser, SourceWrites
  <2>2. source' \in Database
    <3>1. "users" \in TableSet \cup {Outside} /\ "notification_channels" \in TableSet \cup {Outside}
      BY TheTables
    <3>2. CASE AddUser
      BY <1>1, <3>1, <3>2 DEF AddUser, Database
    <3>3. CASE AddChannel
      BY <1>1, <3>1, <3>3 DEF AddChannel, Database
    <3>4. CASE DeleteUser
      BY <1>1, <3>4 DEF DeleteUser, Database
    <3> QED
      BY <1>2, <3>2, <3>3, <3>4
  <2> QED
    BY <1>1, <2>1, <2>2 DEF MigrationInv, SettingsMigrationOK, MigrationTypeOK, ImportReported,
       RefusalKeepsDb
<1>3. ASSUME NEW read \in {source, NoRows}, Dump(read), writes' \in 0..MaxWrites
      PROVE  MigrationInv'
  <2>1. /\ step = "export" /\ step' \in {"export", "ready"} /\ dumped' \in 0..3 /\ dumped + 1 \in 1..3
        /\ UNCHANGED <<source, target, missing, report, before, volumes>>
    BY <1>1, <1>3 DEF Dump
  <2>2. bundle' \in [TableSet -> SUBSET SUBSET Users]
    <3> DEFINE t == Tables[dumped + 1]
    <3>1. t \in TableSet
      BY <2>1, TheTables
    <3>2. read[t] \in SUBSET Users
      BY <1>1, <3>1 DEF Database, NoRows
    <3>3. bundle' = IF t \in missing THEN bundle ELSE [bundle EXCEPT ![t] = {read[t]}]
      BY <1>3 DEF Dump
    <3> HIDE DEF t
    <3> QED
      BY <1>1, <3>1, <3>2, <3>3
  <2> QED
    BY <1>1, <1>3, <2>1, <2>2 DEF MigrationInv, SettingsMigrationOK, MigrationTypeOK,
       ImportReported, RefusalKeepsDb
<1>4. CASE DumpTable \/ DumpSkipped
  <2>1. CASE DumpTable
    BY <1>1, <1>3, <2>1 DEF DumpTable
  <2>2. CASE DumpSkipped
    BY <1>1, <1>3, <2>2 DEF DumpSkipped, SourceWrites
  <2> QED
    BY <1>4, <2>1, <2>2
<1>5. CASE ApplyDb
  <2>1. /\ step = "ready" /\ target = before
        /\ UNCHANGED <<source, bundle, missing, dumped, before, volumes, writes>>
    BY <1>1, <1>5 DEF ApplyDb
  <2>2. PICK odd \in [TableSet -> SUBSET Users] :
       IF Unusable(odd)
         THEN target' = AfterUnusable(odd) /\ step' = "refused" /\ UNCHANGED report
         ELSE /\ target' = [t \in DOMAIN target |->
                              IF t \in TableSet THEN Inserted(RowsOf(t), Failing(t, odd)) ELSE Truncated[t]]
              /\ report' = [t \in TableSet |->
                              [rows |-> Cardinality(RowsOf(t) \ Failing(t, odd)),
                               failed |-> Cardinality(Failing(t, odd))]]
              /\ step' = "files"
    BY <1>5 DEF ApplyDb
  <2>3. CASE Unusable(odd)
    <3>1. target' = target /\ step' = "refused"
      BY <2>2, <2>3 DEF AfterUnusable
    <3> QED
      BY <1>1, <2>1, <3>1 DEF MigrationInv, SettingsMigrationOK, MigrationTypeOK, ImportReported,
         RefusalKeepsDb
  <2>4. CASE ~Unusable(odd)
    <3>1. step' = "files" /\ target' \in Database /\ ImportReported'
      BY <2>1, <2>2, <2>4, ApplyDbReports
    <3> QED
      BY <1>1, <2>1, <3>1 DEF MigrationInv, SettingsMigrationOK, MigrationTypeOK, RefusalKeepsDb
  <2> QED
    BY <2>3, <2>4
<1>6. ASSUME step \in {"files", "refused", "success", "failure"}, UNCHANGED <<target, report, bundle>>
      PROVE  step' \in {"files", "success", "failure"} /\ step = "files" => ImportReported'
  BY <1>6 DEF MigrationInv, SettingsMigrationOK, ImportReported, RowsOf
<1>7. CASE ApplyFile \/ ApplyEnv \/ ApplyFails \/ ApplySucceeds
  <2>1. /\ step = "files" /\ step' \in {"files", "success", "failure"} /\ volumes' \in 0..5
        /\ UNCHANGED <<source, target, bundle, missing, dumped, report, before, writes>>
    BY <1>1, <1>7 DEF ApplyFile, ApplyEnv, ApplyFails, ApplySucceeds
  <2> QED
    BY <1>1, <1>6, <2>1 DEF MigrationInv, SettingsMigrationOK, MigrationTypeOK, RefusalKeepsDb
<1>8. CASE Migrated \/ UNCHANGED migrationVars
  BY <1>8 DEF Migrated, migrationVars, MigrationInv, SettingsMigrationOK, MigrationTypeOK,
     ImportReported, RefusalKeepsDb, RowsOf
<1> QED
  BY <1>2, <1>4, <1>5, <1>7, <1>8 DEF MigrationNext

(* The answer of the import tells the truth about the rows taken over and  *)
(* those refused, none of them refers to a missing user, and a refusal     *)
(* leaves the tables as they were: for every set of users and rows the     *)
(* target refuses, and whatever the source did during the export.          *)
THEOREM SettingsMigrationCorrect ==
  MigrationAssumption => (MigrationSpec => []SettingsMigrationOK)
<1> SUFFICES ASSUME MigrationAssumption PROVE MigrationSpec => []SettingsMigrationOK
  OBVIOUS
<1>1. MigrationInit => MigrationInv
  BY MigrationInitOK
<1>2. MigrationInv /\ [MigrationNext]_migrationVars => MigrationInv'
  BY MigrationStep
<1>3. MigrationInv => SettingsMigrationOK
  BY DEF MigrationInv
<1> QED
  BY <1>1, <1>2, <1>3, PTL DEF MigrationSpec

-----------------------------------------------------------------------------
(* The update request.                                                     *)

(* A request is pending from its click to the acknowledgement, and while   *)
(* it is, every frame sent for it stands for an UPDATE that failed.        *)
FramesCounted ==
  /\ requestedAt # Null <=> clicks > 0
  /\ \A n \in 1..MaxClicks : n > clicks => framesFor[n] = 0
  /\ pc = "selected" => Pending
  /\ pc # "sent" /\ Pending => framesFor[clicks] <= dbErrors

TriggerInv == TriggerTypeOK /\ ConnectedTapReachable /\ OneFramePerClick /\ FramesCounted

LEMMA TriggerNumbers ==
  ASSUME TriggerAssumption
  PROVE  MaxClicks \in Nat /\ MaxConns \in Nat /\ MaxDbErrors \in Nat /\ Null = 0
         /\ Null \notin Conns /\ \A c \in Conns : c \in Nat
  BY DEF TriggerAssumption, Null, Conns

LEMMA TriggerInitOK == ASSUME TriggerAssumption, TriggerInit PROVE TriggerInv
<1>1. TriggerTypeOK
  BY TriggerNumbers DEF TriggerInit, TriggerTypeOK
<1>2. ConnectedTapReachable
  BY DEF TriggerInit, ConnectedTapReachable
<1>3. OneFramePerClick /\ FramesCounted
  BY TriggerNumbers DEF TriggerInit, OneFramePerClick, FramesCounted, Pending
<1> QED
  BY <1>1, <1>2, <1>3 DEF TriggerInv

(* What a pending request is counted under.                                *)
LEMMA PendingHasClick ==
  ASSUME TriggerAssumption, TriggerInv, Pending
  PROVE  clicks \in 1..MaxClicks /\ framesFor[clicks] \in Nat
  BY TriggerNumbers DEF TriggerInv, TriggerTypeOK, FramesCounted, Pending

LEMMA ConnectionsKeep ==
  ASSUME TriggerAssumption, TriggerInv,
         NEW c \in Conns, TapConnects(c) \/ TapDisconnects(c) \/ HandlerEnds(c)
  PROVE  TriggerInv'
<1> USE DEF TriggerInv
<1>1. UNCHANGED <<now, requestedAt, ackedAt, clicks, pc, selected, framesFor, triggers, dbErrors>>
  BY DEF TapConnects, TapDisconnects, HandlerEnds, requestVars, loopVars
<1>2. OneFramePerClick' /\ FramesCounted'
  BY <1>1 DEF OneFramePerClick, FramesCounted, Pending
<1>3. handler \in [Conns -> {"new", "open", "cut", "over"}] /\ registry \in Conns \cup {Null}
  BY DEF TriggerTypeOK
<1>4. /\ handler' \in [Conns -> {"new", "open", "cut", "over"}] /\ registry' \in Conns \cup {Null}
      /\ ConnectedTapReachable'
  <2>1. CASE TapConnects(c)
    <3>1. handler' = [handler EXCEPT ![c] = "open"] /\ registry' = c /\ \A d \in Conns : handler[d] # "open"
      BY <2>1 DEF TapConnects
    <3> QED
      BY <1>3, <3>1 DEF ConnectedTapReachable
  <2>2. CASE TapDisconnects(c)
    <3>1. handler' = [handler EXCEPT ![c] = "cut"] /\ registry' = registry
      BY <2>2 DEF TapDisconnects
    <3> QED
      BY <1>3, <3>1 DEF ConnectedTapReachable
  <2>3. CASE HandlerEnds(c)
    <3>1. /\ handler[c] = "cut" /\ handler' = [handler EXCEPT ![c] = "over"]
          /\ registry' = IF registry = c THEN Null ELSE registry
      BY <2>3 DEF HandlerEnds, WithoutEntry
    <3> QED
      BY <1>3, <3>1 DEF ConnectedTapReachable
  <2> QED
    BY <2>1, <2>2, <2>3
<1>5. TriggerTypeOK'
  BY <1>1, <1>4 DEF TriggerTypeOK
<1> QED
  BY <1>2, <1>4, <1>5

LEMMA ClickKeeps == ASSUME TriggerAssumption, TriggerInv, Click PROVE TriggerInv'
<1> USE DEF TriggerInv
<1>1. /\ clicks < MaxClicks /\ clicks' = clicks + 1 /\ now' = now + 1 /\ requestedAt' = now' /\ ackedAt' = Null
      /\ UNCHANGED <<handler, registry, pc, selected, framesFor, triggers, dbErrors>>
  BY DEF Click, connVars, loopVars
<1>2. clicks \in Nat /\ now \in Nat /\ dbErrors \in Nat /\ framesFor \in [1..MaxClicks -> Nat]
  BY TriggerNumbers DEF TriggerTypeOK
<1>3. TriggerTypeOK'
  BY <1>1, <1>2, TriggerNumbers DEF TriggerTypeOK
<1>4. ConnectedTapReachable' /\ OneFramePerClick'
  BY <1>1 DEF ConnectedTapReachable, OneFramePerClick
<1>5. framesFor[clicks'] = 0
  BY <1>1, <1>2, TriggerNumbers DEF FramesCounted
<1>6. Pending'
  BY <1>1, <1>2, TriggerNumbers DEF Pending
<1>7. \A n \in 1..MaxClicks : n > clicks' => framesFor'[n] = 0
  BY <1>1, <1>2 DEF FramesCounted
<1>8. requestedAt' # Null /\ clicks' > 0 /\ framesFor'[clicks'] <= dbErrors'
  BY <1>1, <1>2, <1>5, TriggerNumbers
<1>9. FramesCounted'
  BY <1>6, <1>7, <1>8 DEF FramesCounted
<1> QED
  BY <1>3, <1>4, <1>9

LEMMA SendKeeps == ASSUME TriggerAssumption, TriggerInv, Send PROVE TriggerInv'
<1> USE DEF TriggerInv
<1>1. /\ pc = "selected" /\ pc' \in {"sent", "asleep"}
      /\ UNCHANGED <<now, requestedAt, ackedAt, clicks, handler, registry, selected, dbErrors>>
  BY DEF Send, requestVars, connVars
<1>2. Pending /\ Pending' /\ clicks \in 1..MaxClicks /\ framesFor[clicks] \in Nat /\ framesFor[clicks] <= dbErrors
      /\ dbErrors \in Nat
  BY <1>1, PendingHasClick, TriggerNumbers DEF FramesCounted, TriggerTypeOK, Pending
<1>3. framesFor \in [1..MaxClicks -> Nat] /\ triggers \in Nat
  BY DEF TriggerTypeOK
<1>4. ConnectedTapReachable'
  BY <1>1 DEF ConnectedTapReachable
<1>5. CASE pc' = "asleep" /\ UNCHANGED <<framesFor, triggers>>
  BY <1>1, <1>2, <1>4, <1>5 DEF TriggerTypeOK, OneFramePerClick, FramesCounted
<1>6. CASE /\ pc' = "sent" /\ framesFor' = [framesFor EXCEPT ![clicks] = @ + 1]
           /\ triggers' = IF handler[selected] = "open" THEN triggers + 1 ELSE triggers
  <2>1. /\ framesFor' \in [1..MaxClicks -> Nat] /\ framesFor'[clicks] = framesFor[clicks] + 1
        /\ \A n \in 1..MaxClicks : n # clicks => framesFor'[n] = framesFor[n]
    BY <1>2, <1>3, <1>6
  <2>2. triggers' \in Nat
    BY <1>3, <1>6
  <2>3. TriggerTypeOK'
    BY <1>1, <2>1, <2>2 DEF TriggerTypeOK
  <2>4. OneFramePerClick'
    BY <1>1, <1>2, <2>1 DEF OneFramePerClick
  <2>5. FramesCounted'
    BY <1>1, <1>2, <1>6, <2>1 DEF FramesCounted
  <2> QED
    BY <1>4, <2>3, <2>4, <2>5
<1> QED
  BY <1>5, <1>6 DEF Send

LEMMA AcknowledgeKeeps == ASSUME TriggerAssumption, TriggerInv, Acknowledge PROVE TriggerInv'
<1> USE DEF TriggerInv
<1>1. /\ pc = "sent" /\ pc' = "asleep"
      /\ UNCHANGED <<requestedAt, clicks, handler, registry, selected, framesFor, triggers>>
      /\ \/ now' = now + 1 /\ ackedAt' = now' /\ dbErrors' = dbErrors
         \/ /\ dbErrors < MaxDbErrors /\ dbErrors' = dbErrors + 1
            /\ UNCHANGED <<now, ackedAt>>
  BY DEF Acknowledge, connVars
<1>2. /\ now \in Nat /\ dbErrors \in Nat /\ requestedAt \in 0..now /\ ackedAt \in 0..now /\ clicks \in 0..MaxClicks
      /\ dbErrors <= MaxDbErrors /\ framesFor \in [1..MaxClicks -> Nat]
  BY TriggerNumbers DEF TriggerTypeOK
<1>3. TriggerTypeOK'
  BY <1>1, <1>2, TriggerNumbers DEF TriggerTypeOK
<1>4. ConnectedTapReachable'
  BY <1>1 DEF ConnectedTapReachable
<1>5. dbErrors <= dbErrors' /\ dbErrors' \in Nat
  BY <1>1, <1>2
<1>6. OneFramePerClick'
  BY <1>1, <1>2, <1>5 DEF OneFramePerClick
<1>7. Pending' => framesFor[clicks] <= dbErrors'
  <2>1. ASSUME Pending' PROVE requestedAt # Null /\ dbErrors' = dbErrors + 1
    BY <1>1, <1>2, <2>1, TriggerNumbers DEF Pending
  <2>2. requestedAt # Null => clicks \in 1..MaxClicks
    BY <1>2 DEF FramesCounted
  <2>3. clicks \in 1..MaxClicks => framesFor[clicks] <= 1 + dbErrors
    BY DEF OneFramePerClick
  <2> QED
    BY <1>2, <2>1, <2>2, <2>3
<1>8. FramesCounted'
  BY <1>1, <1>7 DEF FramesCounted
<1> QED
  BY <1>3, <1>4, <1>6, <1>8

LEMMA TriggerStep ==
  ASSUME TriggerAssumption, TriggerInv, [TriggerNext]_triggerVars PROVE TriggerInv'
<1>1. CASE Select
  BY <1>1 DEF Select, requestVars, connVars, TriggerInv, TriggerTypeOK, ConnectedTapReachable, OneFramePerClick,
     FramesCounted, Pending
<1>2. CASE UNCHANGED triggerVars
  BY <1>2 DEF triggerVars, TriggerInv, TriggerTypeOK, ConnectedTapReachable, OneFramePerClick, FramesCounted, Pending
<1> QED
  BY <1>1, <1>2, ClickKeeps, SendKeeps, AcknowledgeKeeps, ConnectionsKeep DEF TriggerNext, NothingToSend

(* The registry holds the connection a tap uses, and a click is sent once  *)
(* more only for an acknowledgement that failed (handle_tap and            *)
(* update_trigger_loop of the master-uplink): for any number of clicks,    *)
(* connections and failures.                                               *)
THEOREM UpdateTriggerCorrect ==
  TriggerAssumption => (TriggerSpec => []UpdateTriggerOK)
<1> SUFFICES ASSUME TriggerAssumption
             PROVE  TriggerSpec => []UpdateTriggerOK
  OBVIOUS
<1>1. TriggerInit => TriggerInv
  BY TriggerInitOK
<1>2. TriggerInv /\ [TriggerNext]_triggerVars => TriggerInv'
  BY TriggerStep
<1>3. TriggerInv => UpdateTriggerOK
  BY DEF TriggerInv, UpdateTriggerOK
<1> QED
  BY <1>1, <1>2, <1>3, PTL DEF TriggerSpec

-----------------------------------------------------------------------------
(* Pairing.                                                                *)

Decisions == {"pending", "approved", "rejected"}
Check == [key : Keys \cup {NoKey}, answer : {"none"} \cup Decisions]

PairingTypes ==
  /\ pending \in [Keys -> {"none"} \cup Decisions] /\ rows \in [Keys -> 0..2]
  /\ token \in {"valid", "used", "expired"} /\ tokenRows \in 0..2
  /\ state \in Keys \cup {NoKey} /\ keyFile \in Keys \cup {NoKey} /\ pemFile \in Keys \cup {NoKey}
  /\ caFile \in Keys \cup {NoKey} /\ start \in Keys \cup {NoKey} /\ pair \in Keys \cup {NoKey}
  /\ keys \in Keys \cup {NoKey} /\ reply \in {"none", "refused"} \cup Decisions
  /\ check \in [Callers -> Check]
  /\ recent \in BOOLEAN /\ torn \in BOOLEAN /\ overtaken \in BOOLEAN /\ crashes \in 0..MaxCrashes

(* A row of taps goes with a decision, or with the token; keys that do not *)
(* exist yet have neither.                                                 *)
RowsMatch ==
  /\ tokenRows <= 1 /\ (token = "valid" => tokenRows = 0)
  /\ \A k \in Keys :
       /\ rows[k] <= 1
       /\ pending[k] \in {"pending", "rejected"} => rows[k] = 0
       /\ pending[k] = "approved" => rows[k] = 1
       /\ k > keys => pending[k] = "none" /\ rows[k] = 0

(* What the calls under way hold is known to the master, and the two ways  *)
(* of pairing do not mix.                                                  *)
CallsMatch ==
  /\ start # NoKey => /\ start <= keys /\ pair = NoKey /\ state \in {NoKey, start}
                      /\ pending[start] = "none" => rows[start] = 0
  /\ reply # "none" => start # NoKey
  /\ reply \in Decisions => pending[start] # "none"
  /\ state # NoKey => pending[state] # "none" /\ state <= keys
  /\ pair # NoKey => /\ pair <= keys /\ state = NoKey /\ pemFile = NoKey /\ pending[pair] = "none"
                     /\ start = NoKey /\ \A c \in Callers : check[c].key = NoKey

(* An answer of a check is final once it is a decision.                    *)
ChecksMatch ==
  \A c \in Callers :
    /\ check[c].key = NoKey => check[c].answer = "none"
    /\ check[c].key # NoKey => pending[check[c].key] # "none"
    /\ check[c].answer \in {"approved", "rejected"} => pending[check[c].key] = check[c].answer

(* As long as no state file was removed for another key, there is one key  *)
(* at a time that may still be installed: the state file holds it, or the  *)
(* certificate is its.                                                     *)
Pursued(k) == k # NoKey /\ pending[k] # "rejected"

OneKeyPursued ==
  ~overtaken =>
    /\ \A c \in Callers : Pursued(check[c].key) => check[c].key \in {state, pemFile}
    /\ pemFile # NoKey => /\ start \in {NoKey, pemFile} /\ state \in {NoKey, pemFile}
                          /\ \A c \in Callers : Pursued(check[c].key) => check[c].key = pemFile

PairingInv == PairingTypes /\ RowsMatch /\ CallsMatch /\ ChecksMatch /\ OneKeyPursued /\ CertificateFitsKey

LEMMA KeysAreNumbers ==
  ASSUME PairingAssumption
  PROVE  MaxKeys \in Nat /\ MaxCrashes \in Nat /\ NoKey = 0 /\ NoKey \notin Keys
         /\ \A k \in Keys : k \in Nat /\ k # 0 /\ k <= MaxKeys
  BY DEF PairingAssumption, Keys, NoKey

LEMMA PairingInitOK == ASSUME PairingAssumption, PairingInit PROVE PairingInv
<1>1. 0 \in 0..MaxCrashes
  BY DEF PairingAssumption
<1>2. PairingTypes
  <2>1. check \in [Callers -> Check]
    BY DEF PairingInit, NoCheck, Check
  <2>2. pending \in [Keys -> {"none"} \cup Decisions] /\ rows \in [Keys -> 0..2]
    BY DEF PairingInit
  <2>3. /\ token \in {"valid", "used", "expired"} /\ tokenRows \in 0..2
        /\ reply \in {"none", "refused"} \cup Decisions
    BY DEF PairingInit
  <2>6. recent \in BOOLEAN /\ torn \in BOOLEAN /\ overtaken \in BOOLEAN
    BY Zenon DEF PairingInit
  <2>4. crashes \in 0..MaxCrashes
    BY <1>1 DEF PairingInit
  <2>5. state = NoKey /\ keyFile = NoKey /\ pemFile = NoKey /\ caFile = NoKey /\ start = NoKey
        /\ pair = NoKey /\ keys = NoKey
    BY KeysAreNumbers DEF PairingInit
  <2> QED
    BY <2>1, <2>2, <2>3, <2>4, <2>5, <2>6 DEF PairingTypes
<1>3. RowsMatch
  BY DEF PairingInit, RowsMatch
<1>4. CallsMatch
  BY DEF PairingInit, CallsMatch, Decisions
<1>5. ChecksMatch /\ OneKeyPursued
  BY DEF PairingInit, ChecksMatch, OneKeyPursued, Pursued, NoCheck
<1> QED
  BY <1>2, <1>3, <1>4, <1>5 DEF PairingInv, PairingInit, CertificateFitsKey

(* The master: announcements, decisions, time.                             *)
LEMMA AnnounceKeeps == ASSUME PairingAssumption, PairingInv, Announce PROVE PairingInv'
<1> USE DEF PairingInv
<1>1. /\ start # NoKey /\ reply = "none" /\ start \in Keys
      /\ UNCHANGED <<rows, token, tokenRows, state, keyFile, pemFile, caFile, start, pair, check, keys, crashes,
                     torn, overtaken>>
  BY DEF Announce, fileVars, historyVars, PairingTypes
<1>2. \/ recent /\ reply' = "refused" /\ UNCHANGED <<pending, recent>>
      \/ /\ recent' = TRUE /\ reply' = pending'[start]
         /\ pending' = IF pending[start] = "none" THEN [pending EXCEPT ![start] = "pending"] ELSE pending
  BY DEF Announce, PairingTypes
<1>3. pending' \in [Keys -> {"none"} \cup Decisions] /\ reply' \in {"refused"} \cup Decisions
      /\ recent' \in BOOLEAN
      /\ \A k \in Keys : \/ pending'[k] = pending[k]
                         \/ k = start /\ pending[k] = "none" /\ pending'[k] = "pending"
      /\ (reply' \in Decisions => pending'[start] # "none")
  BY <1>1, <1>2 DEF PairingTypes, Decisions
<1>4. PairingTypes'
  BY <1>1, <1>3 DEF PairingTypes
<1>5. RowsMatch'
  BY <1>1, <1>3, KeysAreNumbers DEF RowsMatch, CallsMatch, PairingTypes
<1>6. CallsMatch'
  BY <1>1, <1>3, KeysAreNumbers DEF CallsMatch, PairingTypes, Decisions
<1>7. \A c \in Callers : check[c].key \in Keys \cup {NoKey}
  BY DEF PairingTypes, Check
<1>8. ChecksMatch'
  BY <1>1, <1>3, <1>7, KeysAreNumbers DEF ChecksMatch
<1>9. OneKeyPursued'
  BY <1>1, <1>3, <1>7, KeysAreNumbers DEF OneKeyPursued, Pursued, ChecksMatch
<1>10. CertificateFitsKey'
  BY <1>1 DEF CertificateFitsKey
<1> QED
  BY <1>4, <1>5, <1>6, <1>8, <1>9, <1>10

LEMMA DecisionKeeps ==
  ASSUME PairingAssumption, PairingInv, NEW k \in Keys, Approve(k) \/ Reject(k)
  PROVE  PairingInv'
<1> USE DEF PairingInv
<1>1. UNCHANGED <<token, tokenRows, recent, state, keyFile, pemFile, caFile, start, reply, pair, check, keys,
                  crashes, torn, overtaken>>
  BY DEF Approve, Reject, tapVars, fileVars, callVars, historyVars
<1>2. pending[k] = "pending" /\ rows[k] = 0
  BY DEF Approve, MayApprove, Reject, RowsMatch
<1>3. /\ pending' \in [Keys -> {"none"} \cup Decisions] /\ rows' \in [Keys -> 0..2]
      /\ \A j \in Keys \ {k} : pending'[j] = pending[j] /\ rows'[j] = rows[j]
      /\ \/ pending'[k] = "approved" /\ rows'[k] = 1
         \/ pending'[k] = "rejected" /\ rows'[k] = 0
  <2>1. CASE Approve(k)
    BY <2>1, <1>2 DEF Approve, PairingTypes, Decisions
  <2>2. CASE Reject(k)
    BY <2>2, <1>2 DEF Reject, PairingTypes, Decisions
  <2> QED
    BY <2>1, <2>2
<1>4. PairingTypes'
  BY <1>1, <1>3 DEF PairingTypes
<1>5. RowsMatch'
  BY <1>1, <1>2, <1>3 DEF RowsMatch
<1>6. CallsMatch'
  <2>1. \A j \in Keys : pending'[j] = "none" <=> pending[j] = "none"
    BY <1>2, <1>3
  <2>2. \A j \in Keys : pending[j] = "none" => rows'[j] = rows[j]
    BY <1>2, <1>3
  <2>3. start \in Keys \cup {NoKey} /\ state \in Keys \cup {NoKey} /\ pair \in Keys \cup {NoKey}
    BY DEF PairingTypes
  <2>4. reply \in Decisions => start \in Keys
    BY <2>3 DEF CallsMatch, Decisions
  <2> QED
    BY <1>1, <2>1, <2>2, <2>3, <2>4 DEF CallsMatch
<1>7. \A c \in Callers : check[c].key \in Keys \cup {NoKey}
  BY DEF PairingTypes, Check
<1>8. ChecksMatch'
  BY <1>1, <1>2, <1>3, <1>7, KeysAreNumbers DEF ChecksMatch
<1>9. OneKeyPursued'
  BY <1>1, <1>2, <1>3, <1>7, KeysAreNumbers DEF OneKeyPursued, Pursued
<1>10. CertificateFitsKey'
  BY <1>1, <1>2, <1>3 DEF CertificateFitsKey, PairingTypes
<1> QED
  BY <1>4, <1>5, <1>6, <1>8, <1>9, <1>10

LEMMA WaitingKeeps ==
  ASSUME PairingAssumption, PairingInv, RateLimitEnds \/ TokenExpires \/ NothingToPoll \/ UNCHANGED pairingVars
  PROVE  PairingInv'
<1> USE DEF PairingInv
<1>1. /\ UNCHANGED <<pending, rows, tokenRows, state, keyFile, pemFile, caFile, start, reply, pair, check, keys,
                     crashes, torn, overtaken>>
      /\ (token' = token \/ token' = "expired") /\ recent' \in BOOLEAN
  BY DEF RateLimitEnds, TokenExpires, NothingToPoll, pairingVars, tapVars, fileVars, callVars, historyVars,
     PairingTypes
<1>2. PairingTypes'
  BY <1>1 DEF PairingTypes
<1>3. RowsMatch' /\ CallsMatch'
  BY <1>1 DEF RowsMatch, CallsMatch
<1>4. ChecksMatch' /\ OneKeyPursued' /\ CertificateFitsKey'
  BY <1>1 DEF ChecksMatch, OneKeyPursued, Pursued, CertificateFitsKey
<1> QED
  BY <1>2, <1>3, <1>4

(* With the token.                                                         *)
LEMMA PairBeginsKeeps == ASSUME PairingAssumption, PairingInv, PairBegins PROVE PairingInv'
<1> USE DEF PairingInv
<1>1. /\ pemFile = NoKey /\ pair = NoKey /\ start = NoKey /\ state = NoKey /\ keys < MaxKeys
      /\ \A c \in Callers : check[c] = NoCheck
      /\ keys' = keys + 1 /\ pair' = keys'
      /\ UNCHANGED <<pending, rows, token, tokenRows, recent, state, keyFile, pemFile, caFile, start, reply, check,
                     crashes, torn, overtaken>>
  BY DEF PairBegins, masterVars, fileVars
<1>2. keys \in Nat /\ keys' \in Keys /\ keys' > keys
  BY <1>1, KeysAreNumbers DEF PairingTypes, Keys
<1>3. PairingTypes'
  BY <1>1, <1>2 DEF PairingTypes
<1>4. RowsMatch'
  BY <1>1, <1>2, KeysAreNumbers DEF RowsMatch
<1>5. \A c \in Callers : check[c].key = NoKey
  BY <1>1 DEF NoCheck
<1>6. pending[keys'] = "none"
  BY <1>2 DEF RowsMatch
<1>7. CallsMatch'
  BY <1>1, <1>2, <1>5, <1>6 DEF CallsMatch
<1>8. ChecksMatch' /\ OneKeyPursued' /\ CertificateFitsKey'
  BY <1>1 DEF ChecksMatch, OneKeyPursued, Pursued, CertificateFitsKey
<1> QED
  BY <1>3, <1>4, <1>7, <1>8

(* What WriteFiles leaves on the disk.                                     *)
LEMMA WriteFilesFacts ==
  ASSUME PairingAssumption, PairingTypes, NEW k \in Keys, NEW n \in 0..4, WriteFiles(k, n)
  PROVE  /\ keyFile' \in Keys \cup {NoKey} /\ pemFile' \in Keys \cup {NoKey} /\ caFile' \in Keys \cup {NoKey}
         /\ \/ n = 0 /\ keyFile' = keyFile /\ pemFile' = pemFile
            \/ n = 1 /\ keyFile' = k /\ pemFile' = pemFile
            \/ n >= 2 /\ keyFile' = k /\ pemFile' = k
  BY DEF WriteFiles, PairingTypes

LEMMA PairSucceedsKeeps == ASSUME PairingAssumption, PairingInv, PairSucceeds PROVE PairingInv'
<1> USE DEF PairingInv
<1>1. /\ pair # NoKey /\ token = "valid" /\ token' = "used" /\ tokenRows' = IF tokenRows < 2 THEN tokenRows + 1 ELSE tokenRows
      /\ rows' = [rows EXCEPT ![pair] = 1]
      /\ UNCHANGED <<pending, recent, state, keys, overtaken>>
  BY DEF PairSucceeds, TokenAccepted
<1>2. PICK n \in 0..3 :
       /\ WriteFiles(pair, n)
       /\ \/ n = 3 /\ pair' = NoKey /\ UNCHANGED <<start, reply, check, crashes, torn>>
          \/ Crashing(n, 3) /\ torn' = TRUE
  BY DEF PairSucceeds
<1>3. /\ pair \in Keys /\ pair <= keys /\ state = NoKey /\ pemFile = NoKey /\ pending[pair] = "none"
      /\ start = NoKey /\ tokenRows = 0 /\ \A c \in Callers : check[c].key = NoKey
  BY <1>1 DEF PairingTypes, CallsMatch, RowsMatch
<1>4. /\ keyFile' \in Keys \cup {NoKey} /\ pemFile' \in Keys \cup {NoKey} /\ caFile' \in Keys \cup {NoKey}
      /\ pemFile' # NoKey => pemFile' = pair /\ keyFile' = pair
  BY <1>2, <1>3, WriteFilesFacts
<1>5. /\ pair' = NoKey /\ start' = NoKey /\ check' \in [Callers -> Check] /\ torn' \in BOOLEAN
      /\ crashes' \in 0..MaxCrashes /\ (reply' = reply \/ reply' = "none")
      /\ \A c \in Callers : check'[c].key = NoKey /\ check'[c].answer = "none"
  <2>1. CASE n = 3 /\ pair' = NoKey /\ UNCHANGED <<start, reply, check, crashes, torn>>
    BY <2>1, <1>3 DEF PairingTypes, ChecksMatch
  <2>2. CASE Crashing(n, 3) /\ torn' = TRUE
    <3>1. pair' = NoKey /\ start' = NoKey /\ check' = [c \in Callers |-> NoCheck] /\ reply' = "none"
      BY <2>2 DEF Crashing, ForgetCalls
    <3>2. crashes' \in 0..MaxCrashes
      BY <2>2, KeysAreNumbers DEF Crashing, PairingTypes
    <3> QED
      BY <2>2, <3>1, <3>2 DEF NoCheck, Check
  <2> QED
    BY <1>2, <2>1, <2>2
<1>6. rows' \in [Keys -> 0..2] /\ rows'[pair] = 1 /\ \A k \in Keys \ {pair} : rows'[k] = rows[k]
  BY <1>1, <1>3 DEF PairingTypes
<1>7. tokenRows' = 1
  BY <1>1, <1>3
<1>8. PairingTypes'
  BY <1>1, <1>4, <1>5, <1>6, <1>7 DEF PairingTypes
<1>9. RowsMatch'
  BY <1>1, <1>3, <1>6, <1>7, KeysAreNumbers DEF RowsMatch, PairingTypes
<1>10. reply = "none"
  BY <1>3 DEF CallsMatch
<1>11. CallsMatch'
  BY <1>1, <1>3, <1>5, <1>10 DEF CallsMatch, Decisions
<1>12. ChecksMatch' /\ OneKeyPursued'
  BY <1>1, <1>3, <1>5 DEF ChecksMatch, OneKeyPursued, Pursued
<1>13. CertificateFitsKey'
  BY <1>4, <1>6 DEF CertificateFitsKey
<1> QED
  BY <1>8, <1>9, <1>11, <1>12, <1>13

LEMMA PairFailsKeeps == ASSUME PairingAssumption, PairingInv, PairFails PROVE PairingInv'
<1> USE DEF PairingInv
<1>1. /\ pair # NoKey /\ pair' = NoKey
      /\ UNCHANGED <<pending, recent, state, keyFile, pemFile, caFile, start, reply, check, keys, crashes, torn,
                     overtaken>>
  BY DEF PairFails, fileVars, historyVars
<1>2. \/ UNCHANGED <<token, tokenRows, rows>>
      \/ /\ token = "valid" /\ token' = "used" /\ rows' = [rows EXCEPT ![pair] = 1]
         /\ tokenRows' = IF tokenRows < 2 THEN tokenRows + 1 ELSE tokenRows
  BY DEF PairFails, TokenAccepted
<1>3. pair \in Keys /\ pair <= keys /\ pemFile = NoKey /\ pending[pair] = "none" /\ start = NoKey
      /\ (token = "valid" => tokenRows = 0)
  BY <1>1 DEF PairingTypes, CallsMatch, RowsMatch
<1>4. /\ rows' \in [Keys -> 0..2] /\ (rows'[pair] = rows[pair] \/ rows'[pair] = 1)
      /\ \A k \in Keys \ {pair} : rows'[k] = rows[k]
  BY <1>2, <1>3 DEF PairingTypes
<1>5. tokenRows' \in 0..1 /\ token' \in {"valid", "used", "expired"} /\ (token' = "valid" => tokenRows' = 0)
  BY <1>2, <1>3 DEF PairingTypes, RowsMatch
<1>6. PairingTypes'
  BY <1>1, <1>4, <1>5 DEF PairingTypes
<1>7. RowsMatch'
  BY <1>1, <1>3, <1>4, <1>5, KeysAreNumbers DEF RowsMatch, PairingTypes
<1>8. CallsMatch'
  BY <1>1, <1>3, <1>4 DEF CallsMatch
<1>9. ChecksMatch' /\ OneKeyPursued' /\ CertificateFitsKey'
  BY <1>1, <1>3 DEF ChecksMatch, OneKeyPursued, Pursued, CertificateFitsKey
<1> QED
  BY <1>6, <1>7, <1>8, <1>9

(* Announced.                                                              *)
LEMMA StartBeginsKeeps == ASSUME PairingAssumption, PairingInv, StartBegins PROVE PairingInv'
<1> USE DEF PairingInv
<1>1. /\ pemFile = NoKey /\ start = NoKey /\ pair = NoKey
      /\ UNCHANGED <<pending, rows, token, tokenRows, recent, state, keyFile, pemFile, caFile, reply, pair, check,
                     crashes, torn, overtaken>>
  BY DEF StartBegins, masterVars, fileVars
<1>2. \/ state # NoKey /\ start' = state /\ keys' = keys
      \/ state = NoKey /\ keys < MaxKeys /\ keys' = keys + 1 /\ start' = keys'
  BY DEF StartBegins
<1>3. keys \in Nat /\ keys' \in Nat /\ keys <= keys' /\ keys' \in Keys \cup {NoKey} /\ start' \in Keys
  BY <1>2, KeysAreNumbers DEF PairingTypes, Keys
<1>4. start' # NoKey /\ start' <= keys' /\ state \in {NoKey, start'}
      /\ (pending[start'] = "none" => rows[start'] = 0)
  <2>1. CASE state # NoKey /\ start' = state /\ keys' = keys
    BY <1>3, <2>1, KeysAreNumbers DEF CallsMatch
  <2>2. CASE state = NoKey /\ keys < MaxKeys /\ keys' = keys + 1 /\ start' = keys'
    BY <1>3, <2>2, KeysAreNumbers DEF RowsMatch
  <2> QED
    BY <1>2, <2>1, <2>2
<1>5. PairingTypes'
  BY <1>1, <1>3 DEF PairingTypes
<1>6. RowsMatch'
  BY <1>1, <1>3, KeysAreNumbers DEF RowsMatch
<1>7. reply = "none"
  BY <1>1 DEF CallsMatch
<1>8. CallsMatch'
  BY <1>1, <1>3, <1>4, <1>7, KeysAreNumbers DEF CallsMatch, Decisions, PairingTypes
<1>9. ChecksMatch' /\ OneKeyPursued' /\ CertificateFitsKey'
  BY <1>1 DEF ChecksMatch, OneKeyPursued, Pursued, CertificateFitsKey
<1> QED
  BY <1>5, <1>6, <1>8, <1>9

LEMMA StartIsOverKeeps == ASSUME PairingAssumption, PairingInv, StartEnds \/ StartFails PROVE PairingInv'
<1> USE DEF PairingInv
<1>1. /\ start # NoKey /\ start' = NoKey /\ reply' = "none"
      /\ (state' = state \/ (state' = start /\ reply \in Decisions))
      /\ UNCHANGED <<pending, rows, token, tokenRows, recent, keyFile, pemFile, caFile, pair, check, keys, crashes,
                     torn, overtaken>>
  BY DEF StartEnds, StartFails, masterVars, fileVars, historyVars, PairingTypes, Decisions
<1>2. start \in Keys /\ start <= keys /\ pair = NoKey /\ state \in {NoKey, start}
      /\ (reply \in Decisions => pending[start] # "none")
  BY <1>1 DEF CallsMatch, PairingTypes
<1>3. PairingTypes'
  BY <1>1, <1>2 DEF PairingTypes
<1>4. RowsMatch'
  BY <1>1 DEF RowsMatch
<1>5. CallsMatch'
  BY <1>1, <1>2 DEF CallsMatch, Decisions
<1>6. ChecksMatch' /\ CertificateFitsKey'
  BY <1>1 DEF ChecksMatch, CertificateFitsKey
<1>7. OneKeyPursued'
  BY <1>1, <1>2 DEF OneKeyPursued, Pursued
<1> QED
  BY <1>3, <1>4, <1>5, <1>6, <1>7

LEMMA CheckBeginsKeeps ==
  ASSUME PairingAssumption, PairingInv, NEW c \in Callers, CheckBegins(c)
  PROVE  PairingInv'
<1> USE DEF PairingInv
<1> DEFINE r == [check[c] EXCEPT !.key = state]
<1>1. /\ state # NoKey /\ check[c] = NoCheck /\ check' = [check EXCEPT ![c] = r]
      /\ UNCHANGED <<pending, rows, token, tokenRows, recent, state, keyFile, pemFile, caFile, start, reply, pair,
                     keys, crashes, torn, overtaken>>
  BY DEF CheckBegins, masterVars, fileVars, historyVars
<1>2. r = [key |-> state, answer |-> "none"] /\ state \in Keys
  BY <1>1 DEF NoCheck, PairingTypes
<1> HIDE DEF r
<1>3. r \in Check /\ r.key = state /\ r.answer = "none"
  BY <1>2 DEF Check
<1>4. check' \in [Callers -> Check] /\ check'[c] = r /\ \A d \in Callers \ {c} : check'[d] = check[d]
  BY <1>1, <1>3 DEF PairingTypes
<1>5. PairingTypes'
  BY <1>1, <1>4 DEF PairingTypes
<1>6. RowsMatch'
  BY <1>1 DEF RowsMatch
<1>7. pair = NoKey
  BY <1>1 DEF CallsMatch
<1>8. CallsMatch'
  BY <1>1, <1>7 DEF CallsMatch
<1>9. ChecksMatch'
  BY <1>1, <1>3, <1>4 DEF ChecksMatch, CallsMatch
<1>10. OneKeyPursued'
  BY <1>1, <1>3, <1>4 DEF OneKeyPursued, Pursued
<1>11. CertificateFitsKey'
  BY <1>1 DEF CertificateFitsKey
<1> QED
  BY <1>5, <1>6, <1>8, <1>9, <1>10, <1>11

LEMMA CheckAnsweredKeeps ==
  ASSUME PairingAssumption, PairingInv, NEW c \in Callers, CheckAnswered(c)
  PROVE  PairingInv'
<1> USE DEF PairingInv
<1> DEFINE r == [check[c] EXCEPT !.answer = pending[check[c].key]]
<1>1. /\ check[c].key # NoKey /\ check' = [check EXCEPT ![c] = r]
      /\ UNCHANGED <<pending, rows, token, tokenRows, recent, state, keyFile, pemFile, caFile, start, reply, pair,
                     keys, crashes, torn, overtaken>>
  BY DEF CheckAnswered, masterVars, fileVars, historyVars
<1>2. check[c] \in Check /\ check[c].key \in Keys
  BY <1>1 DEF PairingTypes, Check
<1>3. r \in Check /\ r.key = check[c].key /\ r.answer = pending[r.key]
  BY <1>2 DEF Check, PairingTypes
<1> HIDE DEF r
<1>4. check' \in [Callers -> Check] /\ check'[c] = r /\ \A d \in Callers \ {c} : check'[d] = check[d]
  BY <1>1, <1>3 DEF PairingTypes
<1>5. PairingTypes'
  BY <1>1, <1>4 DEF PairingTypes
<1>6. RowsMatch'
  BY <1>1 DEF RowsMatch
<1>7. pair = NoKey
  BY <1>1 DEF CallsMatch
<1>8. CallsMatch'
  BY <1>1, <1>7 DEF CallsMatch
<1>9. ChecksMatch'
  BY <1>1, <1>3, <1>4 DEF ChecksMatch
<1>10. \A d \in Callers : check'[d].key = check[d].key
  BY <1>3, <1>4
<1>11. OneKeyPursued'
  BY <1>1, <1>10 DEF OneKeyPursued, Pursued
<1>12. CertificateFitsKey'
  BY <1>1 DEF CertificateFitsKey
<1> QED
  BY <1>5, <1>6, <1>8, <1>9, <1>11, <1>12

(* An approved check installs its key.                                     *)
LEMMA ApprovedKeeps ==
  ASSUME PairingAssumption, PairingInv, NEW c \in Callers, Approved(c, check[c].key),
         UNCHANGED <<masterVars, keys>>
  PROVE  PairingInv'
<1> USE DEF PairingInv
<1> DEFINE k == check[c].key
<1>1. UNCHANGED <<pending, rows, token, tokenRows, recent, keys>>
  BY DEF masterVars
<1>2. PICK n \in 0..4 :
       /\ WriteFiles(k, n)
       /\ state' = IF n = 4 THEN NoKey ELSE state
       /\ overtaken' = (overtaken \/ (n = 4 /\ state \notin {NoKey, k}))
       /\ \/ n = 4 /\ check' = [check EXCEPT ![c] = NoCheck] /\ UNCHANGED <<start, reply, pair, crashes, torn>>
          \/ Crashing(n, 4) /\ torn' = TRUE
  BY DEF Approved
<1>3. check[c] \in Check /\ check[c].answer = "approved"
  BY DEF Approved, PairingTypes
<1>4. k \in Keys /\ pending[k] = "approved" /\ rows[k] = 1 /\ k # NoKey /\ pair = NoKey
  BY <1>3, KeysAreNumbers DEF Check, ChecksMatch, RowsMatch, CallsMatch
<1>5. ~overtaken => k \in {state, pemFile} /\ (pemFile # NoKey => k = pemFile)
  BY <1>4 DEF OneKeyPursued, Pursued
<1> HIDE DEF k
<1>6. /\ keyFile' \in Keys \cup {NoKey} /\ pemFile' \in Keys \cup {NoKey} /\ caFile' \in Keys \cup {NoKey}
      /\ \/ n = 0 /\ keyFile' = keyFile /\ pemFile' = pemFile
         \/ n = 1 /\ keyFile' = k /\ pemFile' = pemFile
         \/ n >= 2 /\ keyFile' = k /\ pemFile' = k
  BY <1>2, <1>4, WriteFilesFacts
<1>7. overtaken' \in BOOLEAN /\ (overtaken => overtaken') /\ state' \in {state, NoKey}
  BY <1>2 DEF PairingTypes
<1>8. \/ /\ n = 4 /\ state' = NoKey /\ check' = [check EXCEPT ![c] = NoCheck]
         /\ UNCHANGED <<start, reply, pair, crashes, torn>> /\ pemFile' = k /\ keyFile' = k
         /\ (~overtaken' => state \in {NoKey, k})
      \/ /\ n < 4 /\ state' = state /\ overtaken' = overtaken /\ torn' = TRUE /\ crashes' \in 0..MaxCrashes
         /\ start' = NoKey /\ reply' = "none" /\ pair' = NoKey /\ check' = [d \in Callers |-> NoCheck]
  <2>1. CASE n = 4 /\ check' = [check EXCEPT ![c] = NoCheck] /\ UNCHANGED <<start, reply, pair, crashes, torn>>
    <3>1. n = 4 /\ state' = NoKey /\ pemFile' = k /\ keyFile' = k
      BY <2>1, <1>2, <1>6
    <3>2. overtaken' = (overtaken \/ state \notin {NoKey, k})
      BY <2>1, <1>2
    <3>3. ~overtaken' => state \in {NoKey, k}
      BY <3>2
    <3> QED
      BY <2>1, <3>1, <3>3
  <2>2. CASE Crashing(n, 4) /\ torn' = TRUE
    <3>1. n < 4 /\ start' = NoKey /\ reply' = "none" /\ pair' = NoKey /\ check' = [d \in Callers |-> NoCheck]
      BY <2>2 DEF Crashing, ForgetCalls
    <3>2. crashes' \in 0..MaxCrashes
      BY <2>2, KeysAreNumbers DEF Crashing, PairingTypes
    <3>3. state' = state /\ overtaken' = overtaken
      BY <1>2, <3>1 DEF PairingTypes
    <3> QED
      BY <2>2, <3>1, <3>2, <3>3
  <2> QED
    BY <1>2, <2>1, <2>2
<1>9. /\ check' \in [Callers -> Check]
      /\ \A d \in Callers : check'[d] = NoCheck \/ (check'[d] = check[d] /\ n = 4)
  BY <1>8 DEF PairingTypes, NoCheck, Check
<1>10. /\ start' = start \/ (start' = NoKey /\ reply' = "none")
       /\ reply' = reply \/ reply' = "none"
       /\ pair' = NoKey /\ crashes' \in 0..MaxCrashes /\ torn' \in BOOLEAN
       /\ start' = start => reply' = reply \/ reply' = "none"
  BY <1>4, <1>8 DEF PairingTypes
<1>11. PairingTypes'
  BY <1>1, <1>6, <1>7, <1>9, <1>10 DEF PairingTypes
<1>12. RowsMatch'
  BY <1>1 DEF RowsMatch
<1>13. CallsMatch'
  BY <1>1, <1>7, <1>8, <1>10 DEF CallsMatch, Decisions
<1>14. ChecksMatch'
  BY <1>1, <1>9 DEF ChecksMatch, NoCheck
<1>15. OneKeyPursued'
  <2> SUFFICES ASSUME ~overtaken'
               PROVE  /\ \A d \in Callers : Pursued(check[d].key)' => check'[d].key \in {state', pemFile'}
                      /\ pemFile' # NoKey =>
                           /\ start' \in {NoKey, pemFile'} /\ state' \in {NoKey, pemFile'}
                           /\ \A d \in Callers : Pursued(check[d].key)' => check'[d].key = pemFile'
    BY DEF OneKeyPursued
  <2>1. ~overtaken
    BY <1>7
  <2>2. k \in {state, pemFile} /\ (pemFile # NoKey => k = pemFile)
    BY <1>5, <2>1
  <2>3. CASE n = 4
    <3>1. state \in {NoKey, k} /\ pemFile' = k /\ state' = NoKey /\ start' = start
      BY <1>8, <2>3
    <3>2. start \in {NoKey, k}
      BY <1>4, <2>1, <2>2 DEF OneKeyPursued, CallsMatch
    <3>3. ASSUME NEW d \in Callers, Pursued(check[d].key)' PROVE check'[d].key = k
      <4>1. check'[d] = check[d] /\ Pursued(check[d].key)
        BY <1>1, <1>9, <3>3 DEF Pursued, NoCheck
      <4> QED
        BY <1>4, <2>1, <2>2, <3>1, <4>1 DEF OneKeyPursued, Pursued
    <3> QED
      BY <3>1, <3>2, <3>3
  <2>4. CASE n < 4
    <3>1. state' = state /\ start' = NoKey /\ \A d \in Callers : check'[d].key = NoKey
      BY <1>8, <2>4 DEF NoCheck
    <3>2. pemFile' # NoKey => state \in {NoKey, pemFile'}
      BY <1>4, <1>6, <2>1, <2>2 DEF OneKeyPursued
    <3> QED
      BY <3>1, <3>2 DEF Pursued
  <2> QED
    BY <2>3, <2>4
<1>16. CertificateFitsKey'
  <2>1. CASE n = 1
    <3>1. torn' = TRUE /\ overtaken' = overtaken
      BY <1>8, <2>1
    <3>2. pemFile' = pemFile /\ keyFile' = k
      BY <1>6, <2>1
    <3> QED
      BY <1>1, <1>5, <3>1, <3>2 DEF CertificateFitsKey
  <2>2. CASE n # 1
    <3>1. torn => torn'
      BY <1>8
    <3> QED
      BY <1>1, <1>4, <1>6, <1>7, <2>2, <3>1 DEF CertificateFitsKey
  <2> QED
    BY <2>1, <2>2
<1> QED
  BY <1>11, <1>12, <1>13, <1>14, <1>15, <1>16

LEMMA NotApprovedKeeps ==
  ASSUME PairingAssumption, PairingInv, NEW c \in Callers, NotApproved(c, check[c].key),
         UNCHANGED <<masterVars, keys>>
  PROVE  PairingInv'
<1> USE DEF PairingInv
<1> DEFINE k == check[c].key
<1>1. /\ UNCHANGED <<pending, rows, token, tokenRows, recent, keys, keyFile, pemFile, caFile, start, reply, pair,
                     crashes, torn>>
      /\ check' = [check EXCEPT ![c] = NoCheck]
      /\ state' = IF check[c].answer = "rejected" THEN NoKey ELSE state
      /\ overtaken' = (overtaken \/ (check[c].answer = "rejected" /\ state \notin {NoKey, k}))
      /\ check[c].answer \notin {"none", "approved"}
  BY DEF masterVars, fileVars, NotApproved, GivesUp
<1>2. k # NoKey /\ (check[c].answer = "rejected" => pending[k] = "rejected")
  BY <1>1 DEF ChecksMatch
<1> HIDE DEF k
<1>3. check' \in [Callers -> Check] /\ overtaken' \in BOOLEAN
      /\ \A d \in Callers : check'[d] = NoCheck \/ check'[d] = check[d]
  BY <1>1 DEF PairingTypes, NoCheck, Check
<1>4. PairingTypes'
  BY <1>1, <1>3 DEF PairingTypes
<1>5. RowsMatch'
  BY <1>1 DEF RowsMatch
<1>6. CallsMatch'
  BY <1>1, <1>3 DEF CallsMatch, NoCheck
<1>7. ChecksMatch'
  BY <1>1, <1>3 DEF ChecksMatch, NoCheck
<1>8. OneKeyPursued'
  <2> SUFFICES ASSUME ~overtaken'
               PROVE  /\ \A d \in Callers : Pursued(check[d].key)' => check'[d].key \in {state', pemFile'}
                      /\ pemFile' # NoKey =>
                           /\ start' \in {NoKey, pemFile'} /\ state' \in {NoKey, pemFile'}
                           /\ \A d \in Callers : Pursued(check[d].key)' => check'[d].key = pemFile'
    BY DEF OneKeyPursued
  <2>1. ~overtaken /\ (check[c].answer = "rejected" => state \in {NoKey, k})
    BY <1>1
  <2>2. \A d \in Callers : Pursued(check[d].key)' => check'[d] = check[d] /\ Pursued(check[d].key)
    BY <1>1, <1>3 DEF Pursued, NoCheck
  <2>3. ASSUME NEW d \in Callers, Pursued(check[d].key), check[c].answer = "rejected"
        PROVE  check[d].key # state
    BY <1>2, <2>1, <2>3 DEF Pursued
  <2> QED
    BY <1>1, <2>1, <2>2, <2>3 DEF OneKeyPursued
<1>9. CertificateFitsKey'
  BY <1>1 DEF CertificateFitsKey, PairingTypes
<1> QED
  BY <1>4, <1>5, <1>6, <1>7, <1>8, <1>9

LEMMA PairingStep ==
  ASSUME PairingAssumption, PairingInv, [PairingNext]_pairingVars PROVE PairingInv'
<1>1. ASSUME NEW c \in Callers, CheckEnds(c) PROVE PairingInv'
  BY <1>1, ApprovedKeeps, NotApprovedKeeps DEF CheckEnds
<1> QED
  BY <1>1, AnnounceKeeps, DecisionKeeps, WaitingKeeps, PairBeginsKeeps, PairSucceedsKeeps, PairFailsKeeps,
     StartBeginsKeeps, StartIsOverKeeps, CheckBeginsKeeps, CheckAnsweredKeeps DEF PairingNext

LEMMA PairingInvImplies ==
  ASSUME PairingInv PROVE PairingTypeOK /\ OneTapEach /\ CertificateFitsKey
<1>1. PairingTypeOK
  BY DEF PairingInv, PairingTypes, PairingTypeOK, Check, Decisions
<1>2. OneTapEach /\ CertificateFitsKey
  BY DEF PairingInv, RowsMatch, OneTapEach
<1> QED
  BY <1>1, <1>2

(* A token makes one tap and an approval one, and the certificate of a tap *)
(* fits its key, except after a late answer and a crash together (taps.py  *)
(* of the api, main.py of tap-api): for every number of callers,           *)
(* announcements and crashes.                                              *)
THEOREM PairingCorrect ==
  PairingAssumption => (PairingSpec => []PairingOK)
<1> SUFFICES ASSUME PairingAssumption
             PROVE  PairingSpec => []PairingOK
  OBVIOUS
<1>1. PairingInit => PairingInv
  BY PairingInitOK
<1>2. PairingInv /\ [PairingNext]_pairingVars => PairingInv'
  BY PairingStep
<1>3. PairingInv => PairingOK
  BY PairingInvImplies DEF PairingOK
<1> QED
  BY <1>1, <1>2, <1>3, PTL DEF PairingSpec

-----------------------------------------------------------------------------
(* The sessions of the MQTT bridge.                                        *)

(* An alert is at one place: with a loop, in the client of the session, or *)
(* in one of the three histories.  What was swallowed is still with the    *)
(* loop of an earlier session, which has no client to hand it to and so    *)
(* never polls again: that is why there is one at most for each.           *)
MqttInv ==
  /\ MqttBridgeOK
  /\ unacked \cap (swallowed \cup discarded \cup {holds[session]}) = {}
  /\ holds[session] \notin discarded
  /\ \A a \in swallowed : \E s \in 1..(session - 1) : holds[s] = a
  /\ \A t \in 1..MaxSessions : t > session => holds[t] = 0

LEMMA MqttInitOK == ASSUME MqttAssumption, MqttInit PROVE MqttInv
<1>1. Cardinality({}) = 0
  BY FS_EmptySet
<1>2. 1 \in 1..MaxSessions /\ MaxAlerts \in Nat /\ MaxDrops \in Nat
  BY DEF MqttAssumption
<1>3. MqttTypeOK
  <2>1. alerts \in 0..MaxAlerts /\ polled \in 0..alerts /\ session \in 1..MaxSessions
        /\ drops \in 0..MaxDrops /\ inflight \in 0..MaxAlerts
    BY <1>2 DEF MqttInit
  <2>2. holds \in [1..MaxSessions -> 0..polled]
    BY DEF MqttInit
  <2>3. unacked \cup delivered \cup swallowed \cup discarded \subseteq 1..polled
    BY DEF MqttInit
  <2> QED
    BY <2>1, <2>2, <2>3 DEF MqttInit, MqttTypeOK, Nobody
<1> QED
  BY <1>1, <1>2, <1>3 DEF MqttInit, MqttInv, MqttBridgeOK, WaitsForSomething, OneAlertPerOldSession,
    DeliveredOnce

(* The counter goes down by one and stops at zero. *)
LEMMA DecInflightIs ==
  ASSUME NEW n \in Nat
  PROVE  DecInflight(n) = IF n = 0 THEN 0 ELSE n - 1
<1>1. \A m \in {0, n - 1} : (\A y \in {0, n - 1} : m >= y) => m = IF n = 0 THEN 0 ELSE n - 1
  OBVIOUS
<1>2. \E m \in {0, n - 1} : \A y \in {0, n - 1} : m >= y
  OBVIOUS
<1> QED
  BY <1>1, <1>2 DEF DecInflight, Max

LEMMA MqttNumbers ==
  ASSUME MqttAssumption, MqttInv
  PROVE  /\ InflightMax \in Nat /\ MaxAlerts \in Nat /\ MaxSessions \in Nat /\ MaxDrops \in Nat
         /\ alerts \in Nat /\ polled \in Nat /\ session \in Nat /\ inflight \in Nat
         /\ IsFiniteSet(unacked) /\ Cardinality(unacked) \in Nat
         /\ IsFiniteSet(swallowed) /\ Cardinality(swallowed) \in Nat
<1>1. MaxAlerts \in Nat /\ alerts \in 0..MaxAlerts /\ polled \in 0..alerts
  BY DEF MqttAssumption, MqttInv, MqttBridgeOK, MqttTypeOK
<1>2. IsFiniteSet(1..polled)
  BY <1>1, FS_Interval
<1>3. unacked \in SUBSET (1..polled) /\ swallowed \in SUBSET (1..polled)
  BY DEF MqttInv, MqttBridgeOK, MqttTypeOK
<1>4. IsFiniteSet(unacked) /\ IsFiniteSet(swallowed)
  BY <1>2, <1>3, FS_Subset
<1>5. Cardinality(unacked) \in Nat /\ Cardinality(swallowed) \in Nat
  BY <1>4, FS_CardinalityType
<1> QED
  BY <1>1, <1>4, <1>5 DEF MqttAssumption, MqttInv, MqttBridgeOK, MqttTypeOK

(* What each of n loops holds is one alert, so that all they hold is at most *)
(* n.                                                                        *)
LEMMA OneForEach ==
  ASSUME NEW n \in Nat, NEW h, NEW taken, \A a \in taken : \E s \in 1..n : h[s] = a
  PROVE  IsFiniteSet(taken) /\ Cardinality(taken) <= n
<1> DEFINE H == {h[s] : s \in 1..n}
           f == [s \in 1..n |-> h[s]]
<1>1. IsFiniteSet(1..n) /\ Cardinality(1..n) = n
  BY FS_Interval
<1>2. f \in Surjection(1..n, H)
  BY DEF Surjection
<1>3. IsFiniteSet(H) /\ Cardinality(H) <= n
  BY <1>1, <1>2, FS_Surjection
<1>4. taken \in SUBSET H
  OBVIOUS
<1> HIDE DEF H
<1>5. IsFiniteSet(taken) /\ Cardinality(taken) <= Cardinality(H)
  BY <1>3, <1>4, FS_Subset
<1>6. Cardinality(taken) \in Nat /\ Cardinality(H) \in Nat
  BY <1>3, <1>5, FS_CardinalityType
<1> QED
  BY <1>3, <1>5, <1>6

(* What only the loops change: whoever is in the group. *)
LEMMA GroupKeeps ==
  ASSUME MqttAssumption, MqttInv,
         \/ Rejoins \/ Connected
         \/ \E s \in 1..MaxSessions : Evicted(s)
  PROVE  MqttInv'
<1>1. UNCHANGED <<alerts, polled, session, holds, inflight, unacked, delivered, swallowed, discarded, drops>>
  BY DEF Rejoins, Connected, Evicted, clientVars
<1>2. session \in 1..session /\ session # Nobody /\ MaxSessions \in Nat /\ 0 \notin 1..session
  BY MqttNumbers DEF MqttInv, MqttBridgeOK, MqttTypeOK, Nobody
<1>3. {linked, greeting} \subseteq BOOLEAN /\ members \subseteq 1..session
      /\ owner \in members \cup {Nobody} /\ (owner = Nobody => members = {})
  BY DEF MqttInv, MqttBridgeOK, MqttTypeOK
<1>4. /\ {linked, greeting}' \subseteq BOOLEAN /\ members' \subseteq 1..session
      /\ owner' \in members' \cup {Nobody} /\ (owner' = Nobody => members' = {})
  <2>1. CASE Rejoins
    BY <1>2, <1>3, <2>1 DEF Rejoins, clientVars, Nobody
  <2>2. CASE Connected
    <3>1. linked' = TRUE /\ greeting' = TRUE
      BY <2>2 DEF Connected
    <3>2. CASE session \in members \/ holds[session] # 0
      BY <1>3, <2>2, <3>1, <3>2 DEF Connected
    <3>3. CASE ~(session \in members \/ holds[session] # 0)
      <4>1. members' = members \cup {session} /\ owner' \in members'
        BY <2>2, <3>3 DEF Connected
      <4> QED
        BY <1>2, <1>3, <3>1, <4>1 DEF Nobody
    <3> QED
      BY <3>2, <3>3
  <2>3. ASSUME NEW s \in 1..MaxSessions, Evicted(s)
        PROVE  /\ {linked, greeting}' \subseteq BOOLEAN /\ members' \subseteq 1..session
               /\ owner' \in members' \cup {Nobody} /\ (owner' = Nobody => members' = {})
    BY <1>2, <1>3, <2>3 DEF Evicted, clientVars, Nobody
  <2> QED
    BY <2>1, <2>2, <2>3
<1>5. MqttTypeOK'
  BY <1>1, <1>4 DEF MqttInv, MqttBridgeOK, MqttTypeOK
<1> QED
  BY <1>1, <1>5 DEF MqttInv, MqttBridgeOK, WaitsForSomething, OneAlertPerOldSession, DeliveredOnce

(* An on_publish that belongs to no alert: the counter may fall behind, and *)
(* never runs ahead.                                                        *)
LEMMA ClientKeeps ==
  ASSUME MqttAssumption, MqttInv,
         Alert \/ Dropped \/ GreetingAcked \/ StatePublished
  PROVE  MqttInv'
<1>1. /\ UNCHANGED <<polled, session, holds, unacked, delivered, swallowed, discarded, members, owner>>
      /\ {linked, greeting}' \subseteq BOOLEAN
      /\ alerts' \in 0..MaxAlerts /\ alerts <= alerts' /\ drops' \in 0..MaxDrops
      /\ inflight' = inflight \/ inflight' = DecInflight(inflight)
  <2>1. {linked, greeting} \subseteq BOOLEAN /\ alerts \in 0..MaxAlerts /\ drops \in 0..MaxDrops
    BY DEF MqttInv, MqttBridgeOK, MqttTypeOK
  <2>2. MaxAlerts \in Nat /\ MaxDrops \in Nat /\ alerts \in Nat
    BY MqttNumbers
  <2>3. CASE Alert
    BY <2>1, <2>2, <2>3 DEF Alert, groupVars, clientVars
  <2>4. CASE Dropped
    <3>1. linked' = FALSE /\ greeting' = FALSE /\ drops' \in 0..MaxDrops
      BY <2>1, <2>2, <2>4 DEF Dropped
    <3>2. {linked', greeting'} \subseteq BOOLEAN
      BY <3>1
    <3>3. alerts' = alerts /\ inflight' = inflight /\ UNCHANGED groupVars
          /\ UNCHANGED <<session, unacked, delivered, discarded>>
      BY <2>4 DEF Dropped
    <3> QED
      BY <2>1, <2>2, <3>1, <3>2, <3>3 DEF groupVars
  <2>5. CASE GreetingAcked
    <3>1. linked' = linked /\ greeting' = FALSE
      BY <2>5 DEF GreetingAcked
    <3>2. {linked', greeting'} \subseteq BOOLEAN
      BY <2>1, <3>1
    <3>3. /\ alerts' = alerts /\ inflight' = DecInflight(inflight) /\ UNCHANGED groupVars
          /\ UNCHANGED <<session, unacked, delivered, discarded, drops>>
      BY <2>5 DEF GreetingAcked
    <3> QED
      BY <2>1, <2>2, <3>2, <3>3 DEF groupVars
  <2>6. CASE StatePublished
    BY <2>1, <2>2, <2>6 DEF StatePublished, groupVars
  <2> QED
    BY <2>3, <2>4, <2>5, <2>6
<1>2. inflight' \in Nat /\ inflight' <= inflight
  BY <1>1, MqttNumbers, DecInflightIs
<1>3. MqttTypeOK'
  BY <1>1, <1>2, MqttNumbers DEF MqttInv, MqttBridgeOK, MqttTypeOK
<1>4. WaitsForSomething'
  BY <1>1, <1>2, MqttNumbers DEF MqttInv, MqttBridgeOK, WaitsForSomething
<1> QED
  BY <1>1, <1>3, <1>4 DEF MqttInv, MqttBridgeOK, OneAlertPerOldSession, DeliveredOnce

LEMMA AckedKeeps ==
  ASSUME MqttAssumption, MqttInv, NEW a \in 1..MaxAlerts, Acked(a) PROVE MqttInv'
<1>1. /\ UNCHANGED <<alerts, polled, members, owner, holds, swallowed, session, linked, greeting,
                     discarded, drops>>
      /\ a \in unacked /\ unacked' = unacked \ {a} /\ delivered' = delivered \cup {a}
      /\ inflight' = DecInflight(inflight)
  BY DEF Acked, groupVars
<1>2. Cardinality(unacked') = Cardinality(unacked) - 1
  BY <1>1, MqttNumbers, FS_RemoveElement
<1>3. inflight' = IF inflight = 0 THEN 0 ELSE inflight - 1
  BY <1>1, MqttNumbers, DecInflightIs
<1>4. Cardinality(unacked') \in Nat
  BY <1>1, MqttNumbers, FS_RemoveElement, FS_CardinalityType
<1>5. WaitsForSomething' /\ inflight' \in 0..MaxAlerts
  BY <1>2, <1>3, <1>4, MqttNumbers DEF MqttInv, MqttBridgeOK, MqttTypeOK, WaitsForSomething
<1>6. MqttTypeOK'
  BY <1>1, <1>5 DEF MqttInv, MqttBridgeOK, MqttTypeOK
<1> QED
  BY <1>1, <1>5, <1>6 DEF MqttInv, MqttBridgeOK, OneAlertPerOldSession, DeliveredOnce

LEMMA PublishAlertKeeps ==
  ASSUME MqttAssumption, MqttInv, PublishAlert PROVE MqttInv'
<1> DEFINE a == holds[session]
<1>1. /\ UNCHANGED <<alerts, polled, members, owner, swallowed, session, linked, greeting,
                     delivered, discarded, drops>>
      /\ a # 0 /\ unacked' = unacked \cup {a} /\ inflight' = inflight + 1
      /\ holds' = [holds EXCEPT ![session] = 0]
  BY DEF PublishAlert, AfterPublish
<1>2. /\ session \in 1..MaxSessions /\ holds \in [1..MaxSessions -> 0..polled] /\ a \in 1..polled
      /\ polled \in 0..alerts /\ alerts \in 0..MaxAlerts
  <2>1. session \in 1..MaxSessions /\ holds \in [1..MaxSessions -> 0..polled]
        /\ polled \in 0..alerts /\ alerts \in 0..MaxAlerts
    BY DEF MqttInv, MqttBridgeOK, MqttTypeOK
  <2>2. a \in 0..polled
    BY <2>1
  <2> QED
    BY <1>1, <2>1, <2>2, MqttNumbers
<1>3. a \notin unacked /\ a \notin delivered
  BY DEF MqttInv, MqttBridgeOK, DeliveredOnce
<1>4. Cardinality(unacked') = Cardinality(unacked) + 1
  BY <1>1, <1>3, MqttNumbers, FS_AddElement
<1>5. WaitsForSomething'
  BY <1>1, <1>4, MqttNumbers DEF MqttInv, MqttBridgeOK, WaitsForSomething
<1>6. unacked' \in SUBSET (1..alerts)
  BY <1>1, <1>2, MqttNumbers DEF MqttInv, MqttBridgeOK, MqttTypeOK
<1>7. Cardinality(unacked') <= alerts
  <2>1. alerts \in Nat
    BY MqttNumbers
  <2>2. IsFiniteSet(1..alerts) /\ Cardinality(1..alerts) = alerts
    BY <2>1, FS_Interval
  <2> QED
    BY <1>6, <2>2, FS_Subset
<1>8. inflight' \in 0..MaxAlerts
  BY <1>1, <1>2, <1>4, <1>5, <1>7, MqttNumbers DEF WaitsForSomething
<1>9. holds'[session] = 0 /\ \A s \in 1..MaxSessions : s # session => holds'[s] = holds[s]
  BY <1>1, <1>2
<1>10. MqttTypeOK'
  BY <1>1, <1>2, <1>6, <1>8, MqttNumbers DEF MqttInv, MqttBridgeOK, MqttTypeOK
<1>11. DeliveredOnce'
  <2>1. 0 \notin delivered
    BY MqttNumbers DEF MqttInv, MqttBridgeOK, MqttTypeOK
  <2> QED
    BY <1>1, <1>3, <1>9, <2>1 DEF MqttInv, MqttBridgeOK, DeliveredOnce
<1>12. a \notin swallowed /\ a \notin discarded /\ 0 \notin unacked'
  <2>1. \A s \in 1..(session - 1) : holds[s] # a
    BY <1>1, <1>2, MqttNumbers DEF MqttInv, MqttBridgeOK, DeliveredOnce
  <2>2. a \notin swallowed
    BY <2>1 DEF MqttInv
  <2>3. 0 \notin unacked'
    BY <1>6, MqttNumbers
  <2> QED
    BY <2>2, <2>3 DEF MqttInv
<1>13. \A b \in swallowed' : \E s \in 1..(session' - 1) : holds'[s] = b
  BY <1>1, <1>2, <1>9, MqttNumbers DEF MqttInv
<1>14. \A t \in 1..MaxSessions : t > session' => holds'[t] = 0
  BY <1>1, <1>9, MqttNumbers DEF MqttInv
<1>15. unacked' \cap (swallowed' \cup discarded' \cup {holds'[session']}) = {}
  BY <1>1, <1>9, <1>12 DEF MqttInv
<1>16. holds'[session'] \notin discarded'
  BY <1>1, <1>9, MqttNumbers DEF MqttInv, MqttBridgeOK, MqttTypeOK
<1> QED
  BY <1>1, <1>5, <1>10, <1>11, <1>13, <1>14, <1>15, <1>16 DEF MqttInv, MqttBridgeOK, OneAlertPerOldSession

LEMMA PollKeeps ==
  ASSUME MqttAssumption, MqttInv, NEW s \in 1..MaxSessions, Poll(s) PROVE MqttInv'
<1>1. /\ UNCHANGED <<alerts, linked, greeting, inflight, unacked, delivered, members, owner, session,
                     discarded, drops>>
      /\ s \in members /\ holds[s] = 0 /\ polled < alerts /\ polled' = polled + 1
      /\ holds' = [holds EXCEPT ![s] = polled + 1]
      /\ swallowed' = IF s = session THEN swallowed ELSE swallowed \cup {polled + 1}
  BY DEF Poll, MayPoll, clientVars
<1>2. /\ session \in 1..MaxSessions /\ holds \in [1..MaxSessions -> 0..polled]
      /\ unacked \cup delivered \cup swallowed \cup discarded \subseteq 1..polled
      /\ members \subseteq 1..session
  BY DEF MqttInv, MqttBridgeOK, MqttTypeOK
<1>3. holds'[s] = polled + 1 /\ \A t \in 1..MaxSessions : t # s => holds'[t] = holds[t]
  BY <1>1, <1>2
<1>4. \A t \in 1..MaxSessions : holds[t] # polled + 1 /\ holds[t] \in Nat
  BY <1>2, MqttNumbers
<1>5. /\ holds' \in [1..MaxSessions -> 0..polled'] /\ polled' \in 0..alerts'
      /\ unacked' \cup delivered' \cup swallowed' \cup discarded' \subseteq 1..polled'
  BY <1>1, <1>2, MqttNumbers
<1>6. MqttTypeOK'
  BY <1>1, <1>5 DEF MqttInv, MqttBridgeOK, MqttTypeOK
<1>7. WaitsForSomething'
  BY <1>1 DEF MqttInv, MqttBridgeOK, WaitsForSomething
<1>8. s \in 1..session /\ s \in Nat
  BY <1>1, <1>2, MqttNumbers
<1>9. \A a \in swallowed' : \E t \in 1..(session' - 1) : holds'[t] = a
  <2> TAKE a \in swallowed'
  <2>1. CASE a \in swallowed
    <3>1. PICK t \in 1..(session - 1) : holds[t] = a
      BY <2>1 DEF MqttInv
    <3>2. t \in 1..MaxSessions /\ t # s
      BY <1>1, <1>2, <2>1, <3>1, MqttNumbers
    <3> QED
      BY <1>1, <1>3, <3>1, <3>2
  <2>2. CASE a \notin swallowed
    <3>1. a = polled + 1 /\ s # session
      BY <1>1, <2>2
    <3>2. s \in 1..(session - 1)
      BY <1>8, <3>1, MqttNumbers
    <3> QED
      BY <1>1, <1>3, <3>1, <3>2
  <2> QED
    BY <2>1, <2>2
<1>10. \A t \in 1..MaxSessions : t > session' => holds'[t] = 0
  BY <1>1, <1>3, <1>8, MqttNumbers DEF MqttInv
<1>11. polled + 1 \notin unacked \cup delivered \cup swallowed \cup discarded
  BY <1>2, MqttNumbers
<1>12. /\ unacked' \cap (swallowed' \cup discarded' \cup {holds'[session']}) = {}
       /\ holds'[session'] \notin discarded'
  BY <1>1, <1>2, <1>3, <1>11 DEF MqttInv
<1>13. DeliveredOnce'
  <2>1. delivered' \cap (unacked' \cup swallowed' \cup discarded' \cup {holds'[session']}) = {}
    BY <1>1, <1>2, <1>3, <1>11 DEF MqttInv, MqttBridgeOK, DeliveredOnce
  <2>2. ASSUME NEW t \in 1..MaxSessions, NEW u \in 1..MaxSessions, holds'[t] = holds'[u], t # u
        PROVE  holds'[t] = 0
    BY <1>3, <1>4, <2>2 DEF MqttInv, MqttBridgeOK, DeliveredOnce
  <2> QED
    BY <2>1, <2>2 DEF DeliveredOnce
<1>14. session' - 1 \in Nat
  BY <1>1, <1>2, MqttNumbers
<1>15. OneAlertPerOldSession'
  BY <1>9, <1>14, OneForEach DEF OneAlertPerOldSession
<1> QED
  BY <1>6, <1>7, <1>9, <1>10, <1>12, <1>13, <1>15 DEF MqttInv, MqttBridgeOK

LEMMA FilteredAlertKeeps ==
  ASSUME MqttAssumption, MqttInv, NEW s \in 1..MaxSessions, FilteredAlert(s) PROVE MqttInv'
<1>1. /\ UNCHANGED <<alerts, linked, greeting, inflight, unacked, delivered, members, owner, session,
                     holds, swallowed, discarded, drops>>
      /\ polled < alerts /\ polled' = polled + 1
  BY DEF FilteredAlert, clientVars
<1>2. /\ holds \in [1..MaxSessions -> 0..polled]
      /\ unacked \cup delivered \cup swallowed \cup discarded \subseteq 1..polled
  BY DEF MqttInv, MqttBridgeOK, MqttTypeOK
<1>3. 0..polled \subseteq 0..polled' /\ 1..polled \subseteq 1..polled' /\ polled' \in 0..alerts
  BY <1>1, MqttNumbers
<1>4. MqttTypeOK'
  BY <1>1, <1>2, <1>3 DEF MqttInv, MqttBridgeOK, MqttTypeOK
<1> QED
  BY <1>1, <1>4 DEF MqttInv, MqttBridgeOK, WaitsForSomething, OneAlertPerOldSession, DeliveredOnce

LEMMA ReconfigureKeeps ==
  ASSUME MqttAssumption, MqttInv, Reconfigure PROVE MqttInv'
<1>1. /\ UNCHANGED <<alerts, polled, members, owner, holds, delivered, drops>>
      /\ session < MaxSessions /\ session' = session + 1
      /\ linked' = FALSE /\ greeting' = FALSE /\ inflight' = 0 /\ unacked' = {}
      /\ discarded' = discarded \cup unacked
      /\ swallowed' = swallowed \cup ({holds[session]} \ {0})
  BY DEF Reconfigure
<1>2. /\ session \in 1..MaxSessions /\ holds \in [1..MaxSessions -> 0..polled]
      /\ unacked \cup delivered \cup swallowed \cup discarded \subseteq 1..polled
      /\ members \subseteq 1..session
  BY DEF MqttInv, MqttBridgeOK, MqttTypeOK
<1>3. session + 1 \in 1..MaxSessions /\ holds[session + 1] = 0 /\ holds[session] \in 0..polled
  BY <1>1, <1>2, MqttNumbers DEF MqttInv
<1>4. MqttTypeOK'
  <2>1. members' \subseteq 1..session' /\ session' \in 1..MaxSessions /\ inflight' \in 0..MaxAlerts
    BY <1>1, <1>2, <1>3, MqttNumbers
  <2>2. unacked' \cup delivered' \cup swallowed' \cup discarded' \subseteq 1..polled'
    BY <1>1, <1>2, <1>3, MqttNumbers
  <2> QED
    BY <1>1, <2>1, <2>2 DEF MqttInv, MqttBridgeOK, MqttTypeOK
<1>5. WaitsForSomething'
  BY <1>1, FS_EmptySet DEF WaitsForSomething
<1>6. DeliveredOnce'
  <2>1. 0 \notin delivered
    BY <1>2, MqttNumbers
  <2>2. delivered' \cap (unacked' \cup swallowed' \cup discarded' \cup {holds'[session']}) = {}
    BY <1>1, <1>3, <2>1 DEF MqttInv, MqttBridgeOK, DeliveredOnce
  <2> QED
    BY <1>1, <2>2 DEF MqttInv, MqttBridgeOK, DeliveredOnce
<1>7. \A a \in swallowed' : \E t \in 1..(session' - 1) : holds'[t] = a
  <2> TAKE a \in swallowed'
  <2>1. CASE a \in swallowed
    <3>1. PICK t \in 1..(session - 1) : holds[t] = a
      BY <2>1 DEF MqttInv
    <3>2. t \in 1..(session' - 1)
      BY <1>1, MqttNumbers
    <3> QED
      BY <1>1, <3>1, <3>2
  <2>2. CASE a \notin swallowed
    <3>1. a = holds[session] /\ session \in 1..(session' - 1)
      BY <1>1, <1>2, <2>2, MqttNumbers
    <3> QED
      BY <1>1, <3>1
  <2> QED
    BY <2>1, <2>2
<1>8. \A t \in 1..MaxSessions : t > session' => holds'[t] = 0
  BY <1>1, MqttNumbers DEF MqttInv
<1>9. /\ unacked' \cap (swallowed' \cup discarded' \cup {holds'[session']}) = {}
      /\ holds'[session'] \notin discarded'
  BY <1>1, <1>2, <1>3, MqttNumbers
<1>10. session' - 1 \in Nat
  BY <1>1, <1>2, MqttNumbers
<1>11. OneAlertPerOldSession'
  BY <1>7, <1>10, OneForEach DEF OneAlertPerOldSession
<1> QED
  BY <1>4, <1>5, <1>6, <1>7, <1>8, <1>9, <1>11 DEF MqttInv, MqttBridgeOK

LEMMA MqttStep ==
  ASSUME MqttAssumption, MqttInv, [MqttNext]_mqttVars PROVE MqttInv'
<1>1. CASE UNCHANGED mqttVars
  BY <1>1 DEF mqttVars, MqttInv, MqttBridgeOK, MqttTypeOK, WaitsForSomething, OneAlertPerOldSession,
    DeliveredOnce
<1>2. CASE MqttNext
  BY <1>2, GroupKeeps, ClientKeeps, AckedKeeps, PublishAlertKeeps, PollKeeps, FilteredAlertKeeps,
    ReconfigureKeeps DEF MqttNext
<1> QED
  BY <1>1, <1>2

(* However the configuration is changed and the broker is lost, an alert is *)
(* published once, every session that was left behind cost at most the one  *)
(* alert its loop took, and the window never waits for an acknowledgement   *)
(* that cannot come (MqttBridgeOK).                                         *)
THEOREM MqttBridgeCorrect == MqttAssumption => (MqttSpec => []MqttBridgeOK)
<1> SUFFICES ASSUME MqttAssumption PROVE MqttSpec => []MqttBridgeOK
  OBVIOUS
<1>1. MqttInit => MqttInv
  BY MqttInitOK
<1>2. MqttInv /\ [MqttNext]_mqttVars => MqttInv'
  BY MqttStep
<1>3. MqttInv => MqttBridgeOK
  BY DEF MqttInv
<1> QED
  BY <1>1, <1>2, <1>3, PTL DEF MqttSpec

-----------------------------------------------------------------------------
(* The configuration bundle.                                               *)

(* The tap has every file of the bundle. *)
HasRules(b) == \A r \in Rules : b.rules[r] # Absent => files[r] = b.rules[r]
Has(b) == HasRules(b) /\ (b.side # Absent => side = b.side)

(* What a bundle says: nothing, or the truth about the rules it lacks. *)
Truthful(b) ==
  /\ b.stamp = NoStamp => b = NoBundle
  /\ b.stamp # NoStamp /\ b.complete => \A r \in Rules : b.rules[r] = Absent => r \in removed

(* A stamp stands for one bundle, of which there may be a copy in the      *)
(* cache.  While the tap goes from one bundle to another its files are      *)
(* neither the one nor the other, and what keeps a 304 from being an        *)
(* untruth is that the bundle it has the tag of is nowhere any more: not    *)
(* in the cache, nor in a build that could still come to the cache.         *)
SyncInv ==
  /\ SyncTypeOK
  /\ \A r \in Rules : master[r] = Absent => r \in removed
  /\ Truthful(cache) /\ Truthful(body) /\ Truthful(other)
  /\ cache.stamp = body.stamp => cache = body
  /\ other.stamp # NoStamp => other.stamp \notin {cache.stamp, body.stamp, etag}
  /\ poll # "idle" => body.stamp # NoStamp
  /\ poll = "build" => body.stamp \notin {cache.stamp, etag}
  /\ etag # NoStamp /\ cache.stamp = etag => Has(cache)
  /\ poll = "answer" /\ body.stamp = etag => Has(body)
  /\ poll = "answer" /\ body.stamp # etag => cache.stamp # etag
  /\ poll \in {"write", "clean", "side"} => body.stamp # etag /\ cache.stamp # etag
  /\ poll \in {"clean", "side"} => HasRules(body)

LEMMA LeastOf ==
  ASSUME NEW S \in SUBSET Nat, S # {}
  PROVE  Min(S) \in S
<1>1. PICK n \in S : n \in Nat
  OBVIOUS
<1> DEFINE T == {0..m : m \in {k \in S : k <= n}}
<1>2. IsWellFoundedOn(StrictSubsetOrdering(0..n), SUBSET (0..n))
  <2>1. IsFiniteSet(0..n)
    BY <1>1, FS_Interval
  <2>2. FiniteSubsetsOf(0..n) = SUBSET (0..n)
    BY <2>1, FS_FiniteSubsetsOfFinite
  <2> QED
    BY <2>2, FS_StrictSubsetOrderingWellFounded
<1>3. T \in SUBSET SUBSET (0..n) /\ T # {}
  BY <1>1
<1>4. PICK s \in T : \A t \in T : ~ (<<t, s>> \in StrictSubsetOrdering(0..n))
  BY <1>2, <1>3, WFMin
<1>5. PICK m \in S : s = 0..m /\ m <= n /\ m \in Nat
  BY <1>4
<1>6. ASSUME NEW y \in S, ~(m <= y)
      PROVE  FALSE
  <2>1. y \in Nat /\ y < m /\ y <= n
    BY <1>1, <1>5, <1>6
  <2>2. 0..y \in T /\ 0..y \subseteq 0..m /\ m \in 0..m /\ m \notin 0..y /\ 0..m \subseteq 0..n
    BY <1>1, <1>5, <2>1
  <2> QED
    BY <1>4, <1>5, <2>2 DEF StrictSubsetOrdering
<1>7. \A y \in S : m <= y
  BY <1>6
<1> QED
  BY <1>7 DEF Min

(* There is a stamp left for a new build, whichever ones are around. *)
LEMMA NewStampIsNew == NewStamp \in Stamps \ {cache.stamp, etag, body.stamp, other.stamp}
<1> DEFINE S == Stamps \ {cache.stamp, etag, body.stamp, other.stamp}
<1>1. S \in SUBSET Nat
  BY DEF Stamps
<1>2. S # {}
  <2>1. {1, 2, 3, 4, 5} \subseteq Stamps
    BY DEF Stamps
  <2> HIDE DEF Stamps
  <2>2. \A a, b, c, d : {1, 2, 3, 4, 5} \ {a, b, c, d} # {}
    OBVIOUS
  <2> QED
    BY <2>1, <2>2
<1> QED
  BY <1>1, <1>2, LeastOf DEF NewStamp

LEMMA NoBundleIs ==
  ASSUME SyncAssumption
  PROVE  NoBundle \in Bundles /\ NoBundle.stamp = NoStamp /\ NoStamp \notin Stamps /\ Absent \notin Rules
  BY DEF NoBundle, Bundles, SyncAssumption, NoStamp, Stamps, Absent, Rules

LEMMA SyncInitOK == ASSUME SyncAssumption, SyncInit PROVE SyncInv
<1>1. MaxRuleEdits \in Nat /\ NRules \in Nat /\ MaxSyncFailures \in Nat
  BY DEF SyncAssumption
<1>2. SyncTypeOK
  <2>1. 0 \in 0..MaxRuleEdits + 1 /\ 1 \in 0..MaxRuleEdits + 1 /\ 0 \in 0..MaxRuleEdits
        /\ 0 \in 0..MaxSyncFailures
    BY <1>1
  <2>2. master \in [Rules -> 0..MaxRuleEdits + 1] /\ files \in [Rules -> 0..MaxRuleEdits + 1]
    BY <2>1 DEF SyncInit, Absent
  <2>3. {cache, body, other} \subseteq Bundles
    BY NoBundleIs DEF SyncInit
  <2> QED
    BY <2>1, <2>2, <2>3 DEF SyncInit, SyncTypeOK, Absent
<1>3. \A r \in Rules : master[r] # Absent
  BY DEF SyncInit, Absent
<1> QED
  BY <1>2, <1>3, NoBundleIs DEF SyncInit, SyncInv, Truthful, Has, HasRules

(* What a build is: a new stamp, and the truth about what was removed. *)
LEMMA NewBundleFacts ==
  ASSUME SyncAssumption, SyncInv, NEW b, NewBundle(b)
  PROVE  /\ b \in Bundles /\ b.stamp \in Stamps
         /\ b.stamp \notin {cache.stamp, etag, body.stamp, other.stamp}
         /\ b.complete => \A r \in Rules : b.rules[r] = Absent => r \in removed
         /\ syncFailures' \in 0..MaxSyncFailures
<1>1. PICK lost : b = BundleWithout(lost)
  BY DEF NewBundle
<1>2. b.stamp = NewStamp /\ b.complete = (lost = {}) /\ b.complete \in BOOLEAN
  BY <1>1 DEF BundleWithout
<1>3. \A r \in Rules : b.rules[r] = IF r \in lost THEN Absent ELSE master[r]
  BY <1>1 DEF BundleWithout
<1>4. master \in [Rules -> 0..MaxRuleEdits + 1] /\ masterSide \in 0..MaxRuleEdits + 1
      /\ syncFailures \in 0..MaxSyncFailures /\ MaxSyncFailures \in Nat /\ MaxRuleEdits \in Nat
  BY DEF SyncInv, SyncTypeOK, SyncAssumption
<1>5. b \in Bundles
  <2>1. b.rules \in [Rules -> 0..MaxRuleEdits + 1]
    BY <1>1, <1>4 DEF BundleWithout, Absent
  <2>2. b.side \in 0..MaxRuleEdits + 1
    BY <1>1, <1>4 DEF BundleWithout, Absent
  <2>3. b = [rules |-> b.rules, side |-> b.side, complete |-> b.complete, stamp |-> b.stamp]
    BY <1>1 DEF BundleWithout
  <2>4. b.stamp \in Stamps
    BY <1>2, NewStampIsNew
  <2> QED
    BY <1>2, <2>1, <2>2, <2>3, <2>4 DEF Bundles
<1>6. syncFailures' \in 0..MaxSyncFailures
  <2>1. syncFailures' = syncFailures \/ (syncFailures < MaxSyncFailures /\ syncFailures' = syncFailures + 1)
    BY DEF NewBundle, Fails
  <2> QED
    BY <1>4, <2>1
<1> QED
  BY <1>2, <1>3, <1>5, <1>6, NewStampIsNew DEF SyncInv

LEMMA SyncTypes ==
  ASSUME SyncAssumption, SyncInv
  PROVE  /\ master \in [Rules -> 0..MaxRuleEdits + 1] /\ masterSide \in 0..MaxRuleEdits + 1
         /\ removed \subseteq Rules /\ cache \in Bundles /\ body \in Bundles /\ other \in Bundles
         /\ files \in [Rules -> 0..MaxRuleEdits + 1] /\ side \in 0..MaxRuleEdits + 1
         /\ etag \in Stamps \cup {NoStamp} /\ ruleEdits \in 0..MaxRuleEdits
         /\ syncFailures \in 0..MaxSyncFailures /\ MaxRuleEdits \in Nat /\ MaxSyncFailures \in Nat
         /\ inTime \subseteq {"tap", "other"} /\ cacheValid \in BOOLEAN
         /\ poll \in {"idle", "build", "answer", "write", "clean", "side"}
  BY DEF SyncInv, SyncTypeOK, SyncAssumption

(* The operator writes rules; what is missing then was removed. *)
LEMMA EditKeeps == ASSUME SyncAssumption, SyncInv, Edit PROVE SyncInv'
<1>1. UNCHANGED <<cache, cacheValid, other, inTime, poll, body, files, side, etag, syncFailures>>
  BY DEF Edit, cacheVars, pollVars
<1>2. ruleEdits < MaxRuleEdits /\ ruleEdits' = ruleEdits + 1 /\ ruleEdits' + 1 \in 0..MaxRuleEdits + 1
      /\ ruleEdits' \in 0..MaxRuleEdits /\ ruleEdits' + 1 # Absent /\ Absent \in 0..MaxRuleEdits + 1
  BY SyncTypes DEF Edit, Absent
<1>3. /\ master' \in [Rules -> 0..MaxRuleEdits + 1] /\ masterSide' \in 0..MaxRuleEdits + 1
      /\ removed \subseteq removed' /\ removed' \subseteq Rules
      /\ \A r \in Rules : master'[r] = Absent => r \in removed'
  <2>1. \A r \in Rules : master[r] = Absent => r \in removed
    BY DEF SyncInv
  <2>2. CASE \E r \in Rules : /\ master' = [master EXCEPT ![r] = ruleEdits' + 1]
                              /\ UNCHANGED <<masterSide, removed>>
    BY <1>2, <2>1, <2>2, SyncTypes
  <2>3. CASE \E r \in Rules : /\ master[r] # Absent /\ master' = [master EXCEPT ![r] = Absent]
                              /\ removed' = removed \cup {r} /\ UNCHANGED masterSide
    BY <1>2, <2>1, <2>3, SyncTypes
  <2>4. CASE masterSide' = ruleEdits' + 1 /\ UNCHANGED <<master, removed>>
    BY <1>2, <2>1, <2>4, SyncTypes
  <2> QED
    BY <2>2, <2>3, <2>4 DEF Edit
<1>4. SyncTypeOK'
  BY <1>1, <1>2, <1>3 DEF SyncInv, SyncTypeOK
<1>5. Truthful(cache)' /\ Truthful(body)' /\ Truthful(other)'
  BY <1>1, <1>3 DEF SyncInv, Truthful
<1> QED
  BY <1>1, <1>3, <1>4, <1>5 DEF SyncInv, Has, HasRules

LEMMA CacheExpiresKeeps == ASSUME SyncAssumption, SyncInv, CacheExpires PROVE SyncInv'
<1>1. UNCHANGED <<master, masterSide, removed, ruleEdits, cache, other, poll, body, files, side, etag, syncFailures>>
      /\ cacheValid' \in BOOLEAN /\ inTime' \subseteq {"tap", "other"}
  BY DEF CacheExpires, rulesVars, pollVars
<1>2. SyncTypeOK'
  BY <1>1 DEF SyncInv, SyncTypeOK
<1> QED
  BY <1>1, <1>2 DEF SyncInv, Truthful, Has, HasRules

(* Builds, for this tap and for another one. *)
LEMMA AskCachedKeeps == ASSUME SyncAssumption, SyncInv, AskCached PROVE SyncInv'
<1>1. /\ UNCHANGED <<master, masterSide, removed, ruleEdits, cache, cacheValid, other, inTime, files, side, etag,
                     syncFailures>>
      /\ poll = "idle" /\ cache # NoBundle /\ body' = cache /\ poll' = "answer"
  BY DEF AskCached, ServesCache, rulesVars, cacheVars, diskVars
<1>2. cache.stamp # NoStamp
  BY <1>1 DEF SyncInv, Truthful
<1>3. SyncTypeOK'
  BY <1>1 DEF SyncInv, SyncTypeOK
<1>4. Truthful(cache)' /\ Truthful(body)' /\ Truthful(other)'
  BY <1>1 DEF SyncInv, Truthful
<1> QED
  BY <1>1, <1>2, <1>3, <1>4 DEF SyncInv, Has, HasRules

LEMMA AskKeeps == ASSUME SyncAssumption, SyncInv, Ask PROVE SyncInv'
<1>1. /\ UNCHANGED <<master, masterSide, removed, ruleEdits, cache, cacheValid, other, files, side, etag>>
      /\ poll = "idle" /\ poll' = "build" /\ NewBundle(body') /\ inTime' = inTime \cup {"tap"}
  BY DEF Ask, rulesVars, diskVars
<1>2. /\ body' \in Bundles /\ body'.stamp \in Stamps
      /\ body'.stamp \notin {cache.stamp, etag, body.stamp, other.stamp}
      /\ body'.complete => \A r \in Rules : body'.rules[r] = Absent => r \in removed
      /\ syncFailures' \in 0..MaxSyncFailures
  BY <1>1, NewBundleFacts
<1>3. body'.stamp # NoStamp
  BY <1>2, NoBundleIs
<1>4. SyncTypeOK'
  BY <1>1, <1>2 DEF SyncInv, SyncTypeOK
<1>5. Truthful(cache)' /\ Truthful(body)' /\ Truthful(other)'
  BY <1>1, <1>2, <1>3 DEF SyncInv, Truthful
<1>6. other'.stamp # NoStamp => other'.stamp \notin {cache'.stamp, body'.stamp, etag'}
  BY <1>1, <1>2 DEF SyncInv
<1> QED
  BY <1>1, <1>2, <1>3, <1>4, <1>5, <1>6 DEF SyncInv, Has, HasRules

LEMMA OtherAsksKeeps == ASSUME SyncAssumption, SyncInv, OtherAsks PROVE SyncInv'
<1>1. /\ UNCHANGED <<master, masterSide, removed, ruleEdits, cache, cacheValid, poll, body, files, side, etag>>
      /\ NewBundle(other') /\ inTime' = inTime \cup {"other"}
  BY DEF OtherAsks, rulesVars, pollVars
<1>2. /\ other' \in Bundles /\ other'.stamp \in Stamps
      /\ other'.stamp \notin {cache.stamp, etag, body.stamp, other.stamp}
      /\ other'.complete => \A r \in Rules : other'.rules[r] = Absent => r \in removed
      /\ syncFailures' \in 0..MaxSyncFailures
  BY <1>1, NewBundleFacts
<1>3. other'.stamp # NoStamp
  BY <1>2, NoBundleIs
<1>4. SyncTypeOK'
  BY <1>1, <1>2 DEF SyncInv, SyncTypeOK
<1>5. Truthful(cache)' /\ Truthful(body)' /\ Truthful(other)'
  BY <1>1, <1>2, <1>3 DEF SyncInv, Truthful
<1> QED
  BY <1>1, <1>2, <1>3, <1>4, <1>5 DEF SyncInv, Has, HasRules

LEMMA BuiltKeeps == ASSUME SyncAssumption, SyncInv, Built PROVE SyncInv'
<1>1. /\ UNCHANGED <<master, masterSide, removed, ruleEdits, body, other, files, side, etag, syncFailures>>
      /\ poll = "build" /\ poll' = "answer" /\ cache' = body /\ inTime' \subseteq inTime
      /\ cacheValid' \in BOOLEAN
  BY DEF Built, CacheBundle, rulesVars, diskVars
<1>2. body.stamp # etag /\ body.stamp # NoStamp
  BY <1>1 DEF SyncInv
<1>3. SyncTypeOK'
  BY <1>1 DEF SyncInv, SyncTypeOK
<1>4. Truthful(cache)' /\ Truthful(body)' /\ Truthful(other)'
  BY <1>1 DEF SyncInv, Truthful
<1> QED
  BY <1>1, <1>2, <1>3, <1>4 DEF SyncInv, Has, HasRules

LEMMA OtherBuiltKeeps == ASSUME SyncAssumption, SyncInv, OtherBuilt PROVE SyncInv'
<1>1. /\ UNCHANGED <<master, masterSide, removed, ruleEdits, poll, body, files, side, etag, syncFailures>>
      /\ other # NoBundle /\ other' = NoBundle /\ cache' = other /\ inTime' \subseteq inTime
      /\ cacheValid' \in BOOLEAN
  BY DEF OtherBuilt, CacheBundle, rulesVars, pollVars
<1>2. other.stamp # NoStamp
  BY <1>1 DEF SyncInv, Truthful
<1>3. other.stamp \notin {cache.stamp, body.stamp, etag}
  BY <1>2 DEF SyncInv
<1>4. SyncTypeOK'
  BY <1>1, NoBundleIs DEF SyncInv, SyncTypeOK
<1>5. Truthful(cache)' /\ Truthful(body)' /\ Truthful(other)'
  BY <1>1, NoBundleIs DEF SyncInv, Truthful
<1> QED
  BY <1>1, <1>2, <1>3, <1>4, <1>5, NoBundleIs DEF SyncInv, Has, HasRules

(* A poll that ends: answered with 304, failed, or cut off by a restart. *)
LEMMA PollEndsKeeps ==
  ASSUME SyncAssumption, SyncInv, NotModified \/ PollFails \/ TapRestarts PROVE SyncInv'
<1>1. /\ UNCHANGED <<master, masterSide, removed, ruleEdits, cache, cacheValid, other, files, side>>
      /\ poll' = "idle" /\ body' = NoBundle /\ inTime' \subseteq inTime /\ etag' \in {etag, NoStamp}
  BY DEF NotModified, PollFails, TapRestarts, EndPoll, rulesVars, cacheVars, diskVars
<1>2. syncFailures' \in 0..MaxSyncFailures
  <2>1. syncFailures' = syncFailures \/ (syncFailures < MaxSyncFailures /\ syncFailures' = syncFailures + 1)
    BY DEF NotModified, PollFails, TapRestarts, Fails
  <2> QED
    BY <2>1, SyncTypes
<1>3. SyncTypeOK'
  BY <1>1, <1>2, NoBundleIs DEF SyncInv, SyncTypeOK
<1>4. Truthful(cache)' /\ Truthful(body)' /\ Truthful(other)'
  BY <1>1, NoBundleIs DEF SyncInv, Truthful
<1>5. cache'.stamp = body'.stamp => cache' = body'
  BY <1>1, NoBundleIs DEF SyncInv, Truthful
<1>6. other'.stamp # NoStamp => other'.stamp \notin {cache'.stamp, body'.stamp, etag'}
  BY <1>1, NoBundleIs DEF SyncInv
<1> QED
  BY <1>1, <1>3, <1>4, <1>5, <1>6 DEF SyncInv, Has, HasRules

LEMMA ReceiveKeeps == ASSUME SyncAssumption, SyncInv, Receive PROVE SyncInv'
<1>1. /\ UNCHANGED <<master, masterSide, removed, ruleEdits, cache, cacheValid, other, inTime, body, files, side,
                     etag, syncFailures>>
      /\ poll = "answer" /\ body.stamp # etag /\ poll' = "write"
  BY DEF Receive, TagOnAnswer, rulesVars, cacheVars, diskVars
<1>2. SyncTypeOK'
  BY <1>1 DEF SyncInv, SyncTypeOK
<1> QED
  BY <1>1, <1>2 DEF SyncInv, Truthful, Has, HasRules

(* While it writes, the tap has the tag of a bundle that is nowhere. *)
LEMMA WriteRuleKeeps ==
  ASSUME SyncAssumption, SyncInv, WriteRule
  PROVE  SyncInv' /\ \A r \in Rules : files[r] # Absent => files'[r] # Absent
<1>1. /\ UNCHANGED <<master, masterSide, removed, ruleEdits, cache, cacheValid, other, inTime, body, side, etag,
                     syncFailures>>
      /\ poll = "write"
  BY DEF WriteRule, rulesVars, cacheVars
<1>2. body.stamp # etag /\ cache.stamp # etag /\ body.stamp # NoStamp
  BY <1>1 DEF SyncInv
<1>3. CASE ToWrite # {}
  <2>1. ToWrite \in SUBSET Nat
    BY DEF ToWrite, Rules
  <2>2. Min(ToWrite) \in ToWrite
    BY <1>3, <2>1, LeastOf
  <2>3. PICK r \in Rules : body.rules[r] # Absent /\ files' = [files EXCEPT ![r] = body.rules[r]] /\ poll' = poll
    BY <1>3, <2>2 DEF WriteRule, ToWrite
  <2>4. body.rules[r] \in 0..MaxRuleEdits + 1
    BY SyncTypes DEF Bundles
  <2>5. files' \in [Rules -> 0..MaxRuleEdits + 1] /\ \A q \in Rules : files[q] # Absent => files'[q] # Absent
    BY <2>3, <2>4, SyncTypes
  <2>6. SyncTypeOK'
    BY <1>1, <2>3, <2>5 DEF SyncInv, SyncTypeOK
  <2> QED
    BY <1>1, <1>2, <2>3, <2>5, <2>6 DEF SyncInv, Truthful
<1>4. CASE ToWrite = {}
  <2>1. poll' = "clean" /\ files' = files
    BY <1>4 DEF WriteRule
  <2>2. HasRules(body)
    BY <1>4 DEF ToWrite, HasRules
  <2>3. SyncTypeOK'
    BY <1>1, <2>1 DEF SyncInv, SyncTypeOK
  <2> QED
    BY <1>1, <1>2, <2>1, <2>2, <2>3 DEF SyncInv, Truthful, HasRules
<1> QED
  BY <1>3, <1>4

LEMMA CleanUpKeeps ==
  ASSUME SyncAssumption, SyncInv, CleanUp
  PROVE  SyncInv' /\ \A r \in Rules : files[r] # Absent /\ files'[r] = Absent => r \in removed
<1>1. /\ UNCHANGED <<master, masterSide, removed, ruleEdits, cache, cacheValid, other, inTime, body, side, etag>>
      /\ poll = "clean" /\ poll' = "side"
  BY DEF CleanUp, rulesVars, cacheVars
<1>2. body.stamp # etag /\ cache.stamp # etag /\ body.stamp # NoStamp /\ HasRules(body)
  BY <1>1 DEF SyncInv
<1>3. /\ files' = files \/ files' = [r \in Rules |-> IF r \in Obsolete THEN Absent ELSE files[r]]
      /\ syncFailures' = syncFailures \/ (syncFailures < MaxSyncFailures /\ syncFailures' = syncFailures + 1)
  BY DEF CleanUp, Fails
<1>4. \A r \in Obsolete : body.rules[r] = Absent /\ r \in removed
  <2>1. body.complete => \A r \in Rules : body.rules[r] = Absent => r \in removed
    BY <1>2 DEF SyncInv, Truthful
  <2> QED
    BY <2>1 DEF Obsolete
<1>5. files' \in [Rules -> 0..MaxRuleEdits + 1] /\ syncFailures' \in 0..MaxSyncFailures
  BY <1>3, SyncTypes DEF Absent
<1>6. \A r \in Rules : files'[r] = files[r] \/ r \in Obsolete
  BY <1>3
<1>7. HasRules(body)'
  BY <1>1, <1>2, <1>4, <1>6 DEF HasRules
<1>8. SyncTypeOK'
  BY <1>1, <1>5 DEF SyncInv, SyncTypeOK
<1>9. SyncInv'
  BY <1>1, <1>2, <1>7, <1>8 DEF SyncInv, Truthful
<1> QED
  BY <1>4, <1>6, <1>9

(* With the last file the tap gets the tag. *)
LEMMA WriteSideKeeps == ASSUME SyncAssumption, SyncInv, WriteSide PROVE SyncInv'
<1>1. /\ UNCHANGED <<master, masterSide, removed, ruleEdits, cache, cacheValid, other, inTime, files, syncFailures>>
      /\ poll = "side" /\ poll' = "idle" /\ body' = NoBundle /\ etag' = body.stamp
      /\ side' = IF body.side # Absent THEN body.side ELSE side
  BY DEF WriteSide, EndPoll, rulesVars, cacheVars
<1>2. body.stamp # NoStamp /\ HasRules(body)
  BY <1>1 DEF SyncInv
<1>3. body.stamp \in Stamps \cup {NoStamp} /\ body.side \in 0..MaxRuleEdits + 1
  BY SyncTypes DEF Bundles
<1>4. SyncTypeOK'
  BY <1>1, <1>3, NoBundleIs DEF SyncInv, SyncTypeOK
<1>5. cache'.stamp = etag' => Has(cache)'
  <2>1. cache.stamp = body.stamp => cache = body
    BY DEF SyncInv
  <2> QED
    BY <1>1, <1>2, <2>1 DEF Has, HasRules
<1>6. Truthful(cache)' /\ Truthful(body)' /\ Truthful(other)'
  BY <1>1, NoBundleIs DEF SyncInv, Truthful
<1>7. cache'.stamp = body'.stamp => cache' = body'
  BY <1>1, NoBundleIs DEF SyncInv, Truthful
<1>8. other'.stamp # NoStamp => other'.stamp \notin {cache'.stamp, body'.stamp, etag'}
  BY <1>1, NoBundleIs DEF SyncInv
<1> QED
  BY <1>1, <1>4, <1>5, <1>6, <1>7, <1>8 DEF SyncInv

LEMMA SyncStep ==
  ASSUME SyncAssumption, SyncInv, [SyncNext]_syncVars
  PROVE  SyncInv' /\ \A r \in Rules : files[r] # Absent /\ files'[r] = Absent => r \in removed
<1>1. CASE UNCHANGED syncVars
  BY <1>1 DEF syncVars, SyncInv, SyncTypeOK, Truthful, Has, HasRules
<1>2. CASE WriteRule
  BY <1>2, WriteRuleKeeps
<1>3. CASE CleanUp
  BY <1>3, CleanUpKeeps
<1>4. ASSUME \/ Edit \/ CacheExpires \/ OtherAsks \/ OtherBuilt \/ PollFails \/ TapRestarts
             \/ AskCached \/ Ask \/ Built \/ NotModified \/ Receive \/ WriteSide
      PROVE  files' = files
  BY <1>4 DEF Edit, CacheExpires, OtherAsks, OtherBuilt, PollFails, TapRestarts, AskCached, Ask, Built,
    NotModified, Receive, WriteSide, pollVars, diskVars
<1>5. CASE \/ Edit \/ CacheExpires \/ OtherAsks \/ OtherBuilt \/ PollFails \/ TapRestarts
           \/ AskCached \/ Ask \/ Built \/ NotModified \/ Receive \/ WriteSide
  BY <1>4, <1>5, EditKeeps, CacheExpiresKeeps, OtherAsksKeeps, OtherBuiltKeeps, PollEndsKeeps, AskCachedKeeps,
    AskKeeps, BuiltKeeps, ReceiveKeeps, WriteSideKeeps
<1> QED
  BY <1>1, <1>2, <1>3, <1>5 DEF SyncNext, TapStep

(* Whatever is edited, fails or starts again, and whichever of two builds  *)
(* comes to the cache last: a tap told that nothing has changed has every  *)
(* file of that bundle, and deletes a rule only when the master dropped it *)
(* (ConfigSyncOK).                                                         *)
THEOREM ConfigSyncCorrect == SyncAssumption => (SyncSpec => ConfigSyncOK)
<1> SUFFICES ASSUME SyncAssumption PROVE SyncSpec => ConfigSyncOK
  OBVIOUS
<1>1. SyncInit => SyncInv
  BY SyncInitOK
<1>2. SyncInv /\ [SyncNext]_syncVars => SyncInv'
  BY SyncStep
<1>3. SyncInv => SyncTypeOK /\ NotModifiedMeansApplied
  BY DEF SyncInv, NotModifiedMeansApplied, Has, HasRules
<1>4. SyncInv /\ [SyncNext]_syncVars =>
        [\A r \in Rules : files[r] # Absent /\ files'[r] = Absent => r \in removed]_syncVars
  BY SyncStep
<1> QED
  BY <1>1, <1>2, <1>3, <1>4, PTL DEF SyncSpec, ConfigSyncOK, OnlyRemovedRulesDeleted

-----------------------------------------------------------------------------
(* The tuner.                                                              *)

(* What a state of the tuning can be paused from. *)
Running == {"idle", "training", "tuning"}

(* No cycle has begun in a pause, so that the one it found under way has    *)
(* its one write before it or after it.                                     *)
TuningInv ==
  /\ TuningTypeOK /\ OneWriteAfterPause
  /\ mode = "paused" => pausedFrom \in Running
  /\ row.mode = "paused" => row.pausedFrom \in Running
  /\ row.pausedFrom \in Running \cup {"none"}
  /\ mode = "paused" /\ pausedWrites > 0 => tuner \notin {"get", "put"}
  /\ operator \in Nat

LEMMA OfTwo ==
  ASSUME NEW a \in Int, NEW b \in Int
  PROVE  /\ Max({a, b}) = IF a >= b THEN a ELSE b
         /\ Min({a, b}) = IF a <= b THEN a ELSE b
<1>1. \A m \in {a, b} : (\A y \in {a, b} : m >= y) => m = IF a >= b THEN a ELSE b
  OBVIOUS
<1>2. \E m \in {a, b} : \A y \in {a, b} : m >= y
  OBVIOUS
<1>3. \A m \in {a, b} : (\A y \in {a, b} : m <= y) => m = IF a <= b THEN a ELSE b
  OBVIOUS
<1>4. \E m \in {a, b} : \A y \in {a, b} : m <= y
  OBVIOUS
<1>5. Max({a, b}) = IF a >= b THEN a ELSE b
  BY <1>1, <1>2 DEF Max
<1>6. Min({a, b}) = IF a <= b THEN a ELSE b
  BY <1>3, <1>4 DEF Min
<1> QED
  BY <1>5, <1>6

(* A step of the tuner is within the limits, and stays a value of the schema. *)
LEMMA ClampedFacts ==
  ASSUME TuningAssumption, NEW new \in Values, NEW old \in Values
  PROVE  /\ Max({1, Clamped(new, old)}) \in Values
         /\ Max({1, Clamped(new, old)}) >= Min({old, (old * (100 - MaxDown)) \div 100})
         /\ 100 * Max({1, Clamped(new, old)}) <= old * (100 + MaxUp)
<1> DEFINE lo == old * (100 - MaxDown)
           hi == old * (100 + MaxUp)
           a == lo \div 100
           b == hi \div 100
           c == Clamped(new, old)
<1>1. /\ old \in Nat /\ old >= 1 /\ old <= MaxValue /\ new \in Nat /\ new >= 1 /\ new <= MaxValue
      /\ MaxValue \in Nat /\ MaxDown \in Nat /\ MaxDown >= 1 /\ MaxDown <= 100 /\ MaxUp \in Nat
  BY DEF Values, TuningAssumption
<1>2. lo \in Int /\ 0 <= lo /\ lo <= 100 * old
  <2>1. lo = 100 * old - old * MaxDown
    BY <1>1
  <2>2. old * MaxDown \in Nat /\ old * MaxDown <= old * 100
    BY <1>1
  <2> QED
    BY <1>1, <2>1, <2>2
<1>3. hi \in Int /\ 100 * old <= hi
  <2>1. hi = 100 * old + old * MaxUp
    BY <1>1
  <2>2. old * MaxUp \in Nat
    BY <1>1
  <2> QED
    BY <1>1, <2>1, <2>2
<1> HIDE DEF lo, hi
<1>4. a \in Nat /\ a <= old /\ 100 * a <= hi
  BY <1>1, <1>2, <1>3
<1>5. b \in Nat /\ 100 * b <= hi
  BY <1>1, <1>3
<1> HIDE DEF a, b
<1>6. Min({new, b}) \in Nat /\ Min({new, b}) <= new /\ Min({new, b}) <= b
  <2>1. Min({new, b}) = IF new <= b THEN new ELSE b
    BY <1>1, <1>5, OfTwo
  <2> QED
    BY <1>1, <1>5, <2>1
<1>7. c = Max({a, Min({new, b})})
  BY DEF Clamped, a, b, lo, hi
<1>8. c \in Nat /\ c >= a /\ c <= MaxValue /\ 100 * c <= hi
  <2> DEFINE m == Min({new, b})
  <2>1. m \in Nat /\ m <= MaxValue /\ 100 * m <= hi
    BY <1>1, <1>3, <1>5, <1>6
  <2> HIDE DEF m
  <2>2. Max({a, m}) = IF a >= m THEN a ELSE m
    BY <1>4, <2>1, OfTwo
  <2>3. c = IF a >= m THEN a ELSE m
    BY <1>7, <2>2 DEF m
  <2> QED
    BY <1>1, <1>4, <2>1, <2>3
<1> HIDE DEF c
<1>9. Max({1, c}) \in Values /\ Max({1, c}) >= a /\ 100 * Max({1, c}) <= hi
  <2>1. Max({1, c}) = IF 1 >= c THEN 1 ELSE c
    BY <1>8, OfTwo
  <2> QED
    BY <1>1, <1>3, <1>4, <1>8, <2>1 DEF Values
<1>10. old \in Int /\ a \in Int /\ c \in Int /\ 1 \in Int
  BY <1>1, <1>4, <1>8
<1>11. Max({1, c}) >= Min({old, a})
  <2>1. Min({old, a}) = IF old <= a THEN old ELSE a
    BY <1>10, OfTwo
  <2>2. Max({1, c}) = IF 1 >= c THEN 1 ELSE c
    BY <1>10, OfTwo
  <2> QED
    BY <1>4, <1>8, <1>10, <2>1, <2>2
<1> QED
  BY <1>9, <1>11 DEF c, a, lo, hi

(* What a merge does to the file it was made from. *)
LEMMA MergedFacts ==
  ASSUME TuningAssumption, NEW f \in [Params -> Entries],
         suggested \in [Params -> Values \cup {NoValue}], first \in BOOLEAN
  PROVE  /\ Merged(f) \in [Params -> Entries]
         /\ \A p \in Params : f[p].src = "manual" => Merged(f)[p] = f[p]
         /\ \A p \in Params : ~first /\ f[p].src = "ml" /\ Merged(f)[p].src = "ml" =>
              /\ Merged(f)[p].value >= Min({f[p].value, (f[p].value * (100 - MaxDown)) \div 100})
              /\ 100 * Merged(f)[p].value <= f[p].value * (100 + MaxUp)
<1>1. \A e \in Entries : e.src = "ml" => e.value \in Values
  BY DEF Entries, NoEntry, Entry
<1>2. ASSUME NEW p \in Updated(f)
      PROVE  /\ Merged(f)[p] = Entry("ml", NewValue(p, f)) /\ Merged(f)[p] \in Entries
             /\ f[p].src # "manual" /\ suggested[p] \in Values
  <2>1. p \in Params /\ suggested[p] \in Values /\ f[p].src # "manual"
    BY DEF Updated
  <2>2. NewValue(p, f) \in Values
    BY <1>1, <2>1, ClampedFacts DEF NewValue
  <2>3. Entry("ml", NewValue(p, f)) \in Entries
    BY <2>2 DEF Entry, Entries
  <2> QED
    BY <2>1, <2>3 DEF Merged
<1>3. \A p \in Params \ Updated(f) : Merged(f)[p] = IF f[p].src = "ml" THEN NoEntry ELSE f[p]
  BY DEF Merged
<1>4. Merged(f) \in [Params -> Entries]
  <2>1. \A p \in Params : Merged(f)[p] \in Entries
    BY <1>2, <1>3 DEF Entries
  <2>2. Merged(f) = [p \in Params |-> Merged(f)[p]]
    BY DEF Merged
  <2> QED
    BY <2>1, <2>2
<1>5. ASSUME NEW p \in Params, ~first, f[p].src = "ml", Merged(f)[p].src = "ml"
      PROVE  /\ Merged(f)[p].value >= Min({f[p].value, (f[p].value * (100 - MaxDown)) \div 100})
             /\ 100 * Merged(f)[p].value <= f[p].value * (100 + MaxUp)
  <2>1. p \in Updated(f)
    BY <1>3, <1>5 DEF NoEntry, Entry
  <2>2. suggested[p] \in Values /\ f[p].value \in Values
    BY <1>1, <1>2, <1>5, <2>1
  <2>3. Merged(f)[p].value = Max({1, Clamped(suggested[p], f[p].value)})
    <3>1. Merged(f)[p] = Entry("ml", NewValue(p, f))
      BY <1>2, <2>1
    <3>2. Entry("ml", NewValue(p, f)).value = NewValue(p, f)
      BY DEF Entry
    <3>3. NewValue(p, f) = Max({1, Clamped(suggested[p], f[p].value)})
      BY <1>5 DEF NewValue
    <3> QED
      BY <3>1, <3>2, <3>3
  <2> QED
    BY <2>2, <2>3, ClampedFacts
<1> QED
  BY <1>2, <1>3, <1>4, <1>5

LEMMA TuningTypes ==
  ASSUME TuningAssumption, TuningInv
  PROVE  /\ mode \in Running \cup {"paused"} /\ pausedFrom \in Running \cup {"none"}
         /\ windowOver \in BOOLEAN /\ due \in BOOLEAN /\ first \in BOOLEAN
         /\ overrides \in [Params -> Entries] /\ got \in [Params -> Entries]
         /\ gui \subseteq [Params -> Entries] /\ tuner \in {"poll", "get", "put", "read", "write"}
         /\ suggested \in [Params -> Values \cup {NoValue}] /\ attempt \in 0..MaxPutRetries
         /\ row.mode \in Running \cup {"paused"} /\ pausedWrites \in 0..1 /\ MaxPutRetries \in Nat \ {0}
         /\ operator \in Nat
  BY DEF TuningInv, TuningTypeOK, Running, OneWriteAfterPause, TuningAssumption

LEMMA NothingIs ==
  /\ NoFile \in [Params -> Entries] /\ NoSuggestion \in [Params -> Values \cup {NoValue}]
  /\ NoRow.mode = "idle" /\ NoRow.pausedFrom = "none"
  BY DEF NoFile, NoSuggestion, NoRow, Entries

LEMMA TuningInitOK == ASSUME TuningAssumption, TuningInit PROVE TuningInv
<1>1. 0 \in 0..MaxPutRetries
  BY DEF TuningAssumption
<1>2. /\ mode = "idle" /\ pausedFrom = "none" /\ windowOver = FALSE /\ due = TRUE /\ overrides = NoFile
      /\ gui = {} /\ tuner = "poll" /\ first = FALSE /\ suggested = NoSuggestion /\ got = NoFile /\ attempt = 0
      /\ row = NoRow /\ pausedWrites = 0 /\ operator = 0
  BY DEF TuningInit
<1>3. TuningTypeOK
  <2>1. {windowOver, due, first} \subseteq BOOLEAN /\ {overrides, got} \subseteq [Params -> Entries]
        /\ gui \subseteq [Params -> Entries]
    BY <1>2, NothingIs
  <2>2. row.mode = "idle" /\ suggested \in [Params -> Values \cup {NoValue}]
    BY <1>2, NothingIs
  <2> QED
    BY <1>1, <1>2, <2>1, <2>2 DEF TuningTypeOK
<1> QED
  BY <1>2, <1>3, NothingIs DEF TuningInv, OneWriteAfterPause, Running

(* What the operator does, and the time. *)
LEMMA OperatorKeeps ==
  ASSUME TuningAssumption, TuningInv,
         StartTraining \/ Pause \/ Resume \/ GuiReads \/ GuiWrites \/ TimePasses
  PROVE  TuningInv'
<1>1. UNCHANGED <<tuner, first, suggested, got, attempt, row>> /\ operator' \in {operator, operator + 1}
  BY DEF Acts, StartTraining, Pause, Resume, GuiReads, GuiWrites, TimePasses, cycleVars
<1>2. CASE StartTraining
  <2>1. mode' = "training" /\ windowOver' = FALSE /\ pausedFrom' = "none" /\ pausedWrites' = 0
        /\ UNCHANGED <<due, overrides, gui>>
    BY <1>2 DEF StartTraining
  <2>2. {windowOver', due', first'} \subseteq BOOLEAN
    BY <1>1, <2>1, TuningTypes
  <2>3. TuningTypeOK'
    BY <1>1, <2>1, <2>2 DEF TuningInv, TuningTypeOK
  <2> QED
    BY <1>1, <2>1, <2>3, TuningTypes DEF TuningInv, OneWriteAfterPause, Running
<1>3. CASE Pause
  <2>1. mode # "paused" /\ mode' = "paused" /\ pausedFrom' = mode /\ pausedWrites' = 0
        /\ UNCHANGED <<windowOver, due, overrides, gui>>
    BY <1>3 DEF Pause
  <2> QED
    BY <1>1, <2>1, TuningTypes DEF TuningInv, TuningTypeOK, OneWriteAfterPause, Running
<1>4. CASE Resume
  <2>1. mode = "paused" /\ mode' \in {"tuning", pausedFrom} /\ pausedFrom' = "none"
        /\ UNCHANGED <<windowOver, due, overrides, gui, pausedWrites>>
    BY <1>4 DEF Resume
  <2>2. pausedFrom \in Running
    BY <2>1 DEF TuningInv
  <2> QED
    BY <1>1, <2>1, <2>2, TuningTypes DEF TuningInv, TuningTypeOK, OneWriteAfterPause, Running
<1>5. CASE GuiReads
  <2>1. gui' = {overrides} /\ UNCHANGED <<mode, pausedFrom, windowOver, due, overrides, pausedWrites>>
    BY <1>5 DEF GuiReads, stateVars
  <2> QED
    BY <1>1, <2>1, TuningTypes DEF TuningInv, TuningTypeOK, OneWriteAfterPause, Running
<1>6. CASE GuiWrites
  <2>1. gui' = {} /\ UNCHANGED <<mode, pausedFrom, windowOver, due, pausedWrites>>
    BY <1>6 DEF GuiWrites, stateVars
  <2>2. PICK p \in Params, e \in {Entry("manual", v) : v \in Values} \cup {NoEntry}, f \in gui :
          overrides' = [f EXCEPT ![p] = e]
    BY <1>6 DEF GuiWrites
  <2>3. e \in Entries
    BY DEF Entries, Entry
  <2>4. overrides' \in [Params -> Entries]
    BY <2>2, <2>3, TuningTypes
  <2> QED
    BY <1>1, <2>1, <2>4, TuningTypes DEF TuningInv, TuningTypeOK, OneWriteAfterPause, Running
<1>7. CASE TimePasses
  <2>1. windowOver' = TRUE /\ due' = TRUE /\ UNCHANGED <<mode, pausedFrom, overrides, gui, pausedWrites>>
    BY <1>7 DEF TimePasses
  <2> QED
    BY <1>1, <2>1, TuningTypes DEF TuningInv, TuningTypeOK, OneWriteAfterPause, Running
<1> QED
  BY <1>2, <1>3, <1>4, <1>5, <1>6, <1>7

(* The steps of a cycle that write no file. *)
LEMMA CycleKeeps ==
  ASSUME TuningAssumption, TuningInv,
         BeginCycle \/ GetOverrides \/ PutRefused \/ ReadState \/ WriteState \/ CycleFails
  PROVE  TuningInv' /\ overrides' = overrides
<1>1. UNCHANGED <<windowOver, overrides, gui, pausedWrites, operator>>
  BY DEF BeginCycle, GetOverrides, PutRefused, ReadState, WriteState, CycleFails, stateVars
<1>2. CASE BeginCycle
  <2>1. /\ mode \in {"training", "tuning"} /\ first' \in BOOLEAN /\ attempt' = 1 /\ tuner' = "get"
        /\ suggested' \in [Params -> Values \cup {NoValue}]
        /\ UNCHANGED <<mode, pausedFrom, due, got, row>>
    BY <1>2 DEF BeginCycle, Polled, stateVars
  <2>2. 1 \in 0..MaxPutRetries
    BY DEF TuningAssumption
  <2> QED
    BY <1>1, <2>1, <2>2, TuningTypes DEF TuningInv, TuningTypeOK, OneWriteAfterPause, Running
<1>3. ASSUME NEW next \in {"read", "poll"}, EndCycle(next)
      PROVE  /\ tuner' = next /\ suggested' \in [Params -> Values \cup {NoValue}]
             /\ got' \in [Params -> Entries] /\ attempt' \in 0..MaxPutRetries
  BY <1>3, NothingIs, TuningTypes DEF EndCycle
<1>4. CASE GetOverrides
  <2>1. tuner = "get" /\ UNCHANGED <<mode, pausedFrom, due, first, row>>
    BY <1>4 DEF GetOverrides, stateVars
  <2>2. CASE Updated(overrides) = {}
    <3>1. EndCycle("read")
      BY <1>4, <2>2 DEF GetOverrides, AfterEmpty
    <3> QED
      BY <1>1, <1>3, <2>1, <3>1, TuningTypes DEF TuningInv, TuningTypeOK, OneWriteAfterPause, Running
  <2>3. CASE Updated(overrides) # {}
    <3>1. tuner' = "put" /\ got' = overrides /\ UNCHANGED <<suggested, attempt>>
      BY <1>4, <2>3 DEF GetOverrides
    <3> QED
      BY <1>1, <2>1, <3>1, TuningTypes DEF TuningInv, TuningTypeOK, OneWriteAfterPause, Running
  <2> QED
    BY <2>2, <2>3
<1>5. CASE PutRefused
  <2>1. tuner = "put" /\ UNCHANGED <<mode, pausedFrom, due, first, row>>
    BY <1>5 DEF PutRefused, stateVars
  <2>2. CASE attempt < MaxPutRetries
    <3>1. tuner' = "get" /\ attempt' = attempt + 1 /\ UNCHANGED <<suggested, got>>
      BY <1>5, <2>2 DEF PutRefused
    <3>2. attempt' \in 0..MaxPutRetries
      BY <2>2, <3>1, TuningTypes
    <3> QED
      BY <1>1, <2>1, <3>1, <3>2, TuningTypes DEF TuningInv, TuningTypeOK, OneWriteAfterPause, Running
  <2>3. CASE ~(attempt < MaxPutRetries)
    <3>1. EndCycle("read")
      BY <1>5, <2>3 DEF PutRefused
    <3> QED
      BY <1>1, <1>3, <2>1, <3>1, TuningTypes DEF TuningInv, TuningTypeOK, OneWriteAfterPause, Running
  <2> QED
    BY <2>2, <2>3
<1>6. CASE ReadState
  <2>1. /\ tuner' = "write" /\ UNCHANGED <<mode, pausedFrom, due, first, suggested, got, attempt>>
        /\ row'.mode = IF first THEN "tuning" ELSE mode
        /\ row'.pausedFrom = IF first THEN "none" ELSE pausedFrom
    BY <1>6 DEF ReadState, stateVars, cycleVars
  <2>2. mode = "paused" => pausedFrom \in Running
    BY DEF TuningInv
  <2> QED
    BY <1>1, <2>1, <2>2, TuningTypes DEF TuningInv, TuningTypeOK, OneWriteAfterPause, Running
<1>7. CASE WriteState
  <2>1. /\ tuner' = "poll" /\ mode' = row.mode /\ pausedFrom' = row.pausedFrom /\ due' = FALSE /\ first' = FALSE
        /\ row' = NoRow /\ UNCHANGED <<suggested, got, attempt>>
    BY <1>7 DEF WriteState
  <2>2. row.pausedFrom \in Running \cup {"none"} /\ (row.mode = "paused" => row.pausedFrom \in Running)
    BY DEF TuningInv
  <2> QED
    BY <1>1, <2>1, <2>2, NothingIs, TuningTypes DEF TuningInv, TuningTypeOK, OneWriteAfterPause, Running
<1>8. CASE CycleFails
  <2>1. EndCycle("poll") /\ first' = FALSE /\ row' = NoRow /\ UNCHANGED <<mode, pausedFrom, due>>
    BY <1>8 DEF CycleFails, stateVars
  <2> QED
    BY <1>1, <1>3, <2>1, NothingIs, TuningTypes DEF TuningInv, TuningTypeOK, OneWriteAfterPause, Running
<1> QED
  BY <1>1, <1>2, <1>4, <1>5, <1>6, <1>7, <1>8

(* The write: the file is still the one it was merged from. *)
LEMMA PutAcceptedKeeps ==
  ASSUME TuningAssumption, TuningInv, PutAccepted
  PROVE  TuningInv' /\ overrides' = Merged(overrides) /\ UNCHANGED gui
<1>1. /\ tuner = "put" /\ overrides' = Merged(overrides) /\ EndCycle("read")
      /\ pausedWrites' = IF mode = "paused" THEN Min({2, pausedWrites + 1}) ELSE pausedWrites
      /\ UNCHANGED <<mode, pausedFrom, windowOver, due, gui, first, row, operator>>
  BY DEF PutAccepted, UnchangedSinceGet, stateVars
<1>2. Merged(overrides) \in [Params -> Entries]
  BY MergedFacts, TuningTypes
<1>3. mode = "paused" => pausedWrites = 0
  BY <1>1, TuningTypes DEF TuningInv
<1>4. pausedWrites' \in 0..1
  <2>1. Min({2, 1}) = 1
    BY OfTwo
  <2>2. CASE mode = "paused"
    <3>1. pausedWrites + 1 = 1
      BY <1>3, <2>2
    <3> QED
      BY <1>1, <2>1, <2>2, <3>1
  <2>3. CASE mode # "paused"
    BY <1>1, <2>3, TuningTypes
  <2> QED
    BY <2>2, <2>3
<1>5. /\ tuner' = "read" /\ suggested' \in [Params -> Values \cup {NoValue}]
      /\ got' \in [Params -> Entries] /\ attempt' \in 0..MaxPutRetries
  BY <1>1, NothingIs, TuningTypes DEF EndCycle
<1> QED
  BY <1>1, <1>2, <1>4, <1>5, TuningTypes DEF TuningInv, TuningTypeOK, OneWriteAfterPause, Running

LEMMA TuningStep ==
  ASSUME TuningAssumption, TuningInv, [TuningNext]_tuningVars
  PROVE  /\ TuningInv'
         /\ \/ overrides' = overrides
            \/ overrides' = Merged(overrides)
            \/ gui' # gui /\ operator' = operator + 1
<1>1. CASE UNCHANGED tuningVars
  BY <1>1 DEF tuningVars, TuningInv, TuningTypeOK, OneWriteAfterPause
<1>2. CASE PutAccepted
  BY <1>2, PutAcceptedKeeps
<1>3. CASE BeginCycle \/ GetOverrides \/ PutRefused \/ ReadState \/ WriteState \/ CycleFails
  BY <1>3, CycleKeeps
<1>4. CASE NothingDue
  BY <1>4 DEF NothingDue, tuningVars, TuningInv, TuningTypeOK, OneWriteAfterPause
<1>5. CASE GuiWrites
  BY <1>5, OperatorKeeps DEF GuiWrites, Acts
<1>6. CASE StartTraining \/ Pause \/ Resume \/ GuiReads \/ TimePasses
  BY <1>6, OperatorKeeps DEF StartTraining, Pause, Resume, GuiReads, TimePasses
<1> QED
  BY <1>1, <1>2, <1>3, <1>4, <1>5, <1>6 DEF TuningNext, CycleStep

(* Whenever the operator writes, pauses, resumes or starts over, and        *)
(* whatever fails: the tuner writes at most once after a pause, keeps every *)
(* threshold that was set by hand, and moves one of its own, after the      *)
(* first cycle, by no more than the limits (RuleTuningOK).                  *)
THEOREM RuleTuningCorrect == TuningAssumption => (TuningSpec => RuleTuningOK)
<1> SUFFICES ASSUME TuningAssumption PROVE TuningSpec => RuleTuningOK
  OBVIOUS
<1>1. TuningInit => TuningInv
  BY TuningInitOK
<1>2. TuningInv /\ [TuningNext]_tuningVars => TuningInv'
  BY TuningStep
<1>3. TuningInv => TuningTypeOK /\ OneWriteAfterPause
  BY DEF TuningInv
<1>4. TuningInv /\ [TuningNext]_tuningVars =>
        [\A p \in Params : overrides[p].src = "manual" /\ overrides'[p] # overrides[p] => gui # gui']_tuningVars
  BY TuningStep, TuningTypes, MergedFacts
<1>5. TuningInv /\ [TuningNext]_tuningVars =>
        [\A p \in Params : ~first /\ operator' = operator /\ overrides[p].src = "ml" /\ overrides'[p].src = "ml" =>
           overrides'[p] = overrides[p] \/
           LET old == overrides[p].value
               new == overrides'[p].value
           IN new >= Min({old, (old * (100 - MaxDown)) \div 100}) /\ 100 * new <= old * (100 + MaxUp)]_tuningVars
  <2> SUFFICES ASSUME TuningInv, [TuningNext]_tuningVars, NEW p \in Params, ~first, operator' = operator,
                      overrides[p].src = "ml", overrides'[p].src = "ml"
               PROVE  overrides'[p] = overrides[p] \/
                      LET old == overrides[p].value
                          new == overrides'[p].value
                      IN new >= Min({old, (old * (100 - MaxDown)) \div 100}) /\ 100 * new <= old * (100 + MaxUp)
    OBVIOUS
  <2>1. ~(operator' = operator + 1)
    BY TuningTypes
  <2>2. CASE overrides' = overrides
    BY <2>2
  <2>3. CASE overrides' = Merged(overrides)
    <3>1. overrides'[p] = Merged(overrides)[p]
      BY <2>3
    <3> QED
      BY <3>1, MergedFacts, TuningTypes
  <2> QED
    BY <2>1, <2>2, <2>3, TuningStep
<1> QED
  BY <1>1, <1>2, <1>3, <1>4, <1>5, PTL DEF TuningSpec, RuleTuningOK, ManualKept, StepsLimited

=============================================================================
