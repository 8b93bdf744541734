-------------------------- MODULE SettingsMigration --------------------------
(***************************************************************************)
(* The move of the settings to another master (api routers/migration.py):  *)
(* the export of the tables and volumes of the source while it goes on     *)
(* working, and their import at the target, the tables in a transaction,   *)
(* every row in a savepoint, then one volume after the other.  All         *)
(* categories are selected.                                                *)
(*                                                                         *)
(* Of the ten tables three stand for all: users, system_config, and        *)
(* notification_channels, whose rows refer to users.  redteam_audit refers *)
(* to users as well and is not in the bundle.  A user, and the row that    *)
(* belongs to a user in another table, is the user's name.                 *)
(***************************************************************************)
EXTENDS Naturals, FiniteSets, SequencesExt

CONSTANTS
  Users,
  MaxWrites      \* bound on what happens at the source meanwhile

MigrationAssumption == IsFiniteSet(Users) /\ Users # {} /\ MaxWrites \in Nat

\* SETTINGS_TABLES, in the order of the import.
Tables == <<"users", "system_config", "notification_channels">>
TableSet == Range(Tables)
Critical == {"users", "system_config"}
Outside == "redteam_audit"
Database == [TableSet \cup {Outside} -> SUBSET Users]
OfUsers == {"notification_channels", Outside}

\* The volumes, in the order of the import.
Files == <<"sig-rules", "master-ca", "web-certs", "ml-config">>

VARIABLES
  source, target,  \* the databases
  bundle,          \* table -> {} or {rows}: its file in the bundle
  missing,         \* tables the release of the source does not know
  dumped,          \* tables written so far
  step,            \* "export", "ready", "refused", "files", "success" or "failure"
  report,          \* table -> rows the answer calls imported, and failed
  before,          \* the target's database before the import (history)
  volumes,         \* number of Files taken from the bundle, and .env after them
  writes

migrationVars == <<source, target, bundle, missing, dumped, step, report, before, volumes, writes>>

NoReport == [t \in TableSet |-> [rows |-> 0, failed |-> 0]]

Sound(db) == \A t \in OfUsers : db[t] \subseteq db["users"]

MigrationInit ==
  /\ source \in {db \in Database : Sound(db) /\ db["users"] # {} /\ db["system_config"] = Users}
  /\ target \in {[t \in TableSet \cup {Outside} |-> us] : us \in SUBSET Users \ {{}}}
  /\ bundle = [t \in TableSet |-> {}] /\ missing \in SUBSET {"notification_channels"}
  /\ dumped = 0 /\ step = "export" /\ report = NoReport /\ before = target /\ volumes = 0 /\ writes = 0

-----------------------------------------------------------------------------
(* The source goes on working.                                             *)

SourceWrites == step = "export" /\ writes < MaxWrites /\ writes' = writes + 1

AddUser ==
  /\ SourceWrites
  /\ \E u \in Users \ source["users"] : source' = [source EXCEPT !["users"] = @ \cup {u}]
  /\ UNCHANGED <<target, bundle, missing, dumped, step, report, before, volumes>>

AddChannel ==
  /\ SourceWrites
  /\ \E u \in source["users"] : source' = [source EXCEPT !["notification_channels"] = @ \cup {u}]
  /\ UNCHANGED <<target, bundle, missing, dumped, step, report, before, volumes>>

\* ON DELETE CASCADE.
DeleteUser ==
  /\ SourceWrites
  /\ \E u \in source["users"] :
       source["users"] # {u} /\
       source' = [t \in DOMAIN source |-> IF t = "system_config" THEN source[t] ELSE source[t] \ {u}]
  /\ UNCHANGED <<target, bundle, missing, dumped, step, report, before, volumes>>

\* export_bundle: one SELECT per table, each with a snapshot of its own.
Dump(rows) ==
  /\ step = "export" /\ dumped < Len(Tables) /\ dumped' = dumped + 1
  /\ LET t == Tables[dumped + 1]
     IN bundle' = IF t \in missing THEN bundle ELSE [bundle EXCEPT ![t] = {rows[t]}]
  /\ step' = IF dumped' = Len(Tables) THEN "ready" ELSE step
  /\ UNCHANGED <<source, target, missing, report, before, volumes>>

DumpTable == Dump(source) /\ UNCHANGED writes

\* _dump_table: a SELECT that fails is a table without rows.
NoRows == [t \in TableSet |-> {}]
DumpSkipped == SourceWrites /\ Dump(NoRows)

-----------------------------------------------------------------------------
(* apply_bundle.                                                           *)

\* TRUNCATE ... CASCADE of every table of the settings.
Truncated == [t \in DOMAIN target |-> {}]

\* Bug (before v2.5.21): no savepoints, one row that fails undoes them all.
InsertedWithoutSavepoints(rows, bad) == IF bad = {} THEN rows ELSE {}

\* _insert_rows: what fails is counted, the others are in.
Inserted(rows, bad) == rows \ bad

RowsOf(t) == UNION bundle[t]

\* Rows that fail: for the schema of the target, or for want of their user.
Failing(t, odd) ==
  (RowsOf(t) \cap odd[t]) \cup
  IF t \in OfUsers THEN RowsOf(t) \ Inserted(RowsOf("users"), odd["users"] \cap RowsOf("users")) ELSE {}

\* A critical table that had rows and got none.
Unusable(odd) == \E t \in Critical : RowsOf(t) # {} /\ RowsOf(t) \ Failing(t, odd) = {}

\* Bug: the transaction is committed before the tables are looked at.
AfterUnusableCommitted(odd) ==
  [t \in DOMAIN target |-> IF t \in TableSet THEN Inserted(RowsOf(t), Failing(t, odd)) ELSE Truncated[t]]

\* Raised inside the transaction, which is rolled back.
AfterUnusable(odd) == target

ApplyDb ==
  /\ step = "ready"
  /\ \E odd \in [TableSet -> SUBSET Users] :
       IF Unusable(odd)
         THEN target' = AfterUnusable(odd) /\ step' = "refused" /\ UNCHANGED report
         ELSE /\ target' = [t \in DOMAIN target |->
                              IF t \in TableSet THEN Inserted(RowsOf(t), Failing(t, odd)) ELSE Truncated[t]]
              /\ report' = [t \in TableSet |->
                              [rows |-> Cardinality(RowsOf(t) \ Failing(t, odd)),
                               failed |-> Cardinality(Failing(t, odd))]]
              /\ step' = "files"
  /\ UNCHANGED <<source, bundle, missing, dumped, before, volumes, writes>>

\* _apply_volume: file by file, each replaced as a whole.
ApplyFile ==
  /\ step = "files" /\ volumes < Len(Files) /\ volumes' = volumes + 1
  /\ UNCHANGED <<source, target, bundle, missing, dumped, step, report, before, writes>>

\* _apply_env_mapping: .env with the interfaces of the target, replaced as a whole.
ApplyEnv ==
  /\ step = "files" /\ volumes = Len(Files) /\ volumes' = volumes + 1
  /\ UNCHANGED <<source, target, bundle, missing, dumped, step, report, before, writes>>

\* The disk is full, say: what has been taken stays, the database as well.
ApplyFails ==
  /\ step = "files" /\ volumes <= Len(Files) /\ step' = "failure"
  /\ UNCHANGED <<source, target, bundle, missing, dumped, report, before, volumes, writes>>

ApplySucceeds ==
  /\ step = "files" /\ volumes > Len(Files) /\ step' = "success"
  /\ UNCHANGED <<source, target, bundle, missing, dumped, report, before, volumes, writes>>

Migrated == step \in {"refused", "success", "failure"} /\ UNCHANGED migrationVars

MigrationNext ==
  \/ AddUser \/ AddChannel \/ DeleteUser \/ DumpTable \/ DumpSkipped
  \/ ApplyDb \/ ApplyFile \/ ApplyEnv \/ ApplyFails \/ ApplySucceeds \/ Migrated

MigrationSpec == MigrationInit /\ [][MigrationNext]_migrationVars

-----------------------------------------------------------------------------
MigrationTypeOK ==
  /\ {source, target, before} \subseteq Database /\ bundle \in [TableSet -> SUBSET SUBSET Users]
  /\ dumped \in 0..Len(Tables) /\ step \in {"export", "ready", "refused", "files", "success", "failure"}
  /\ volumes \in 0..(Len(Files) + 1) /\ writes \in 0..MaxWrites

\* The answer tells the truth, whatever was exported meanwhile and whatever
\* rows the target refuses: a table of the bundle holds as many rows as it
\* calls imported, they and those it calls failed are all of the bundle, and
\* none that refers to a missing user.
ImportReported ==
  step \in {"files", "success"} =>
    /\ \A t \in TableSet : /\ Cardinality(target[t]) = report[t].rows
                           /\ report[t].rows + report[t].failed = Cardinality(RowsOf(t))
                           /\ target[t] \subseteq RowsOf(t)
    /\ Sound(target)

\* An import that fails at the tables leaves the target's as they were.
RefusalKeepsDb == step = "refused" => target = before

\* What the report of an import says was taken over is in the database, and a
\* refused bundle leaves it as it was.
SettingsMigrationOK == MigrationTypeOK /\ ImportReported /\ RefusalKeepsDb

\* migration.py:723: the tables that are in the bundle are replaced.
OthersKept ==
  step = "success" => \A t \in TableSet : bundle[t] = {} => target[t] = before[t]

\* migration.py:769: no import leaves the target without a user to log in.
LoginKept == target["users"] # {}

=============================================================================
