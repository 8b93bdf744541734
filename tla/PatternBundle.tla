---------------------------- MODULE PatternBundle ----------------------------
(***************************************************************************)
(* Pattern federation: a site packs its rule files, recalibrated defaults  *)
(* and test scenarios into a bundle (routers/pattern_export.py), the other *)
(* one uploads, stages and applies it (routers/pattern.py).  Both sites    *)
(* run the same code and exchange bundles both ways.                       *)
(*                                                                         *)
(* A rule file is known by the number of the edit that wrote it, a scenario *)
(* by the site that wrote it, a parameter of a rule by where its override  *)
(* comes from.  Overrides are kept in two places: `row' is the entry       *)
(* sig_rule_overrides of system_config, which a bundle reads and writes,   *)
(* `file' is _overrides.json, which the user interface, the rule tuner and *)
(* the signature engine use.                                               *)
(***************************************************************************)
EXTENDS Integers, Sequences

CONSTANTS
  CustomFiles, SuricataFiles,   \* the rule files, YAML and Suricata
  Params,                       \* parameters a recalibration may name
  Appliers,                     \* places for applications that run at a time
  MaxExports, MaxUploads, MaxEdits, MaxCrashes   \* bounds

PatternAssumption ==
  /\ CustomFiles \cap SuricataFiles = {} /\ Appliers \subseteq Nat
  /\ {MaxExports, MaxUploads, MaxEdits, MaxCrashes} \subseteq Nat

Sites == {"lab", "customer"}
Files == CustomFiles \cup SuricataFiles
Absent == 0
Old == 1                        \* the version both sites may have had before
Versions == Absent..(Old + MaxEdits)
Scenarios == [of : Sites, imported : BOOLEAN]

VARIABLES
  rules,      \* site -> file -> version in force, or Absent
  scenarios,  \* site -> test scenarios
  trusts,     \* sites that have the other one's key
  bundles,    \* the bundles exported
  storage,    \* <<site, bundle>> unpacked in the staging directory
  uploading,  \* <<site, bundle>> unpacked, the row not yet inserted
  imports,    \* pattern_bundle_imports
  apply,      \* applier -> what it is at
  due,        \* <<site, bundle>> that a task will remove from the staging directory
  row, file,  \* site -> parameter -> source of the override
  edits, crashes,
  mixed       \* two applications of a site recalibrated at a time (history)

patternVars == <<rules, scenarios, trusts, bundles, storage, uploading, imports, apply, due,
                 row, file, edits, crashes, mixed>>
customerVars == <<storage, uploading, imports, apply, due, row, mixed>>

Idle == [pc |-> "idle", import |-> 1, got |-> [p \in Params |-> "none"], set |-> {}]

PatternInit ==
  /\ \E had \in {Absent, Old} : rules = [s \in Sites |-> [f \in Files |-> had]]
  /\ scenarios = [s \in Sites |-> {[of |-> s, imported |-> FALSE]}]
  /\ trusts = {} /\ bundles = <<>>
  /\ storage = {} /\ uploading = {} /\ imports = <<>> /\ due = {}
  /\ apply = [a \in Appliers |-> Idle]
  /\ row = [s \in Sites |-> [p \in Params |-> "none"]]
  /\ file = [s \in Sites |-> [p \in Params |-> "none"]]
  /\ edits = 0 /\ crashes = 0 /\ mixed = FALSE

-----------------------------------------------------------------------------
(* Users and the tuner.                                                    *)

\* A rule file is written by hand.
EditRule(s, f) ==
  /\ edits < MaxEdits /\ edits' = edits + 1
  /\ rules' = [rules EXCEPT ![s][f] = Old + edits + 1]
  /\ UNCHANGED <<scenarios, trusts, bundles, file, crashes>> /\ UNCHANGED customerVars

\* add_trust_key, delete_trust_key.
ChangeTrust(s) ==
  /\ edits < MaxEdits /\ edits' = edits + 1
  /\ trusts' = IF s \in trusts THEN trusts \ {s} ELSE trusts \cup {s}
  /\ UNCHANGED <<rules, scenarios, bundles, file, crashes>> /\ UNCHANGED customerVars

\* put_overrides: a user sets the parameter, which locks it.
SetManually(s, p) ==
  /\ edits < MaxEdits /\ edits' = edits + 1
  /\ file' = [file EXCEPT ![s][p] = "manual"]
  /\ UNCHANGED <<rules, scenarios, trusts, bundles, crashes>> /\ UNCHANGED customerVars

\* The rule tuner sets what is not locked in _overrides.json.
Tune(s, p) ==
  /\ edits < MaxEdits /\ edits' = edits + 1
  /\ file[s][p] = "none"
  /\ file' = [file EXCEPT ![s][p] = "ml"]
  /\ UNCHANGED <<rules, scenarios, trusts, bundles, crashes>> /\ UNCHANGED customerVars

-----------------------------------------------------------------------------
(* Export.                                                                 *)

\* Bug: whatever lies in the directory of the scenarios is packed.
PackedTestsAll(s) == {t.of : t \in scenarios[s]}

\* Imported scenarios are left out.
PackedTests(s) == {t.of : t \in {u \in scenarios[s] : ~u.imported}}

\* Every rule file of the site as it is: the YAML files that are rules, the Suricata
\* files of the lab; those of a downloaded rule set are left out.
PackedRules(s) == [f \in Files |-> rules[s][f]]

\* The bundle is built in memory and logged; the defaults are what the lab has
\* curated by then.
Export(s) ==
  /\ Len(bundles) < MaxExports
  /\ \E signed \in BOOLEAN, recalibrated \in SUBSET Params :
       bundles' = Append(bundles, [from |-> s, signed |-> signed, rules |-> PackedRules(s),
                                   recal |-> recalibrated, tests |-> PackedTests(s)])
  /\ UNCHANGED <<rules, scenarios, trusts, file, edits, crashes>> /\ UNCHANGED customerVars

-----------------------------------------------------------------------------
(* Upload.                                                                 *)

\* The directory is named by the hash of the bundle: what an earlier upload has
\* left there is replaced by the same.
Unpack(s, b) ==
  /\ bundles[b].from # s /\ <<s, b>> \notin uploading
  /\ Len(imports) < MaxUploads
  /\ storage' = storage \cup {<<s, b>>}
  /\ uploading' = uploading \cup {<<s, b>>}
  /\ UNCHANGED <<rules, scenarios, trusts, bundles, imports, apply, due, row, file, edits,
                 crashes, mixed>>

SignatureStatus(s, b) ==
  IF ~bundles[b].signed THEN "absent" ELSE IF s \in trusts THEN "valid" ELSE "unverified"

\* Bug: a file that is there already is not compared.
DiffAddedOnly(s, b) == {f \in Files : bundles[b].rules[f] # Absent /\ rules[s][f] = Absent}

\* The files the bundle would add or change.
Diff(s, b) ==
  {f \in Files : bundles[b].rules[f] # Absent /\ bundles[b].rules[f] # rules[s][f]}

\* After the awaits of signature and diff the row is inserted.
Stage(s, b) ==
  /\ <<s, b>> \in uploading /\ Len(imports) < MaxUploads
  /\ uploading' = uploading \ {<<s, b>>}
  /\ imports' = Append(imports, [site |-> s, bundle |-> b, state |-> "staged", recal |-> {},
                                 signature |-> SignatureStatus(s, b), diff |-> Diff(s, b),
                                 seen |-> rules[s]])
  /\ UNCHANGED <<rules, scenarios, trusts, bundles, storage, apply, due, row, file, edits,
                 crashes, mixed>>

-----------------------------------------------------------------------------
(* apply_bundle.                                                           *)

Site(a) == imports[apply[a].import].site
Bundle(a) == bundles[imports[apply[a].import].bundle]
Place(a) == <<Site(a), imports[apply[a].import].bundle>>

BeginApply(a, i) ==
  /\ apply[a].pc = "idle" /\ \A b \in Appliers : b < a => apply[b].pc # "idle"
  /\ imports[i].state = "staged"
  /\ apply' = [apply EXCEPT ![a] = [Idle EXCEPT !.pc = "files", !.import = i]]
  /\ UNCHANGED <<rules, scenarios, trusts, bundles, storage, uploading, imports, due, row, file,
                 edits, crashes, mixed>>

\* Bug: a refused bundle is cleared away, too.
AfterRefusalCleanedUp(place) == due \cup {place}

AfterRefusal(place) == due

\* 403 without force_unverified, 500 when the directory is gone.
Refuse(a) ==
  /\ apply[a].pc = "files"
  /\ imports[apply[a].import].signature # "valid" \/ Place(a) \notin storage
  /\ apply' = [apply EXCEPT ![a] = Idle]
  /\ due' = AfterRefusal(Place(a))
  /\ UNCHANGED <<rules, scenarios, trusts, bundles, storage, uploading, imports, row, file,
                 edits, crashes, mixed>>

\* The rule files, one after the other.  A component that is not asked for, or
\* that fails on the way, leaves files as they were; each is replaced as a whole.
ApplyFiles(a) ==
  /\ apply[a].pc = "files" /\ Place(a) \in storage
  /\ \E written \in SUBSET {f \in Files : Bundle(a).rules[f] # Absent} :
       rules' = [rules EXCEPT ![Site(a)] =
                   [f \in Files |-> IF f \in written THEN Bundle(a).rules[f] ELSE @[f]]]
  /\ \E next \in {"read", "tests"} : apply' = [apply EXCEPT ![a].pc = next]
  /\ UNCHANGED <<scenarios, trusts, bundles, storage, uploading, imports, due, row, file, edits,
                 crashes, mixed>>

\* The defaults, when the unpacked directory is still there.
ReadRow(a) ==
  /\ apply[a].pc = "read" /\ Place(a) \in storage
  /\ apply' = [apply EXCEPT ![a].pc = "write", ![a].got = row[Site(a)]]
  /\ mixed' = (mixed \/ \E b \in Appliers : apply[b].pc = "write" /\ Site(b) = Site(a))
  /\ UNCHANGED <<rules, scenarios, trusts, bundles, storage, uploading, imports, due, row, file,
                 edits, crashes>>

NothingToRead(a) ==
  /\ apply[a].pc = "read" /\ Place(a) \notin storage
  /\ apply' = [apply EXCEPT ![a].pc = "tests"]
  /\ UNCHANGED <<rules, scenarios, trusts, bundles, storage, uploading, imports, due, row, file,
                 edits, crashes, mixed>>

\* Bug: the overrides of this bundle take the place of all.
RecalibratedAlone(got, params) ==
  [p \in Params |-> IF p \in params THEN "bundle" ELSE "none"]

\* An override a user has set is left, as far as the row knows of it.
Recalibrated(got, params) ==
  [p \in Params |-> IF p \in params /\ got[p] # "manual" THEN "bundle" ELSE got[p]]

WriteRow(a) ==
  /\ apply[a].pc = "write"
  /\ row' = [row EXCEPT ![Site(a)] = Recalibrated(apply[a].got, Bundle(a).recal)]
  /\ apply' = [apply EXCEPT ![a].pc = "tests",
                 ![a].set = {p \in Bundle(a).recal : apply[a].got[p] # "manual"}]
  /\ UNCHANGED <<rules, scenarios, trusts, bundles, storage, uploading, imports, due, file,
                 edits, crashes, mixed>>

\* The database is away, or nothing asked for: an error, or nothing, is noted.
SkipRow(a) ==
  /\ apply[a].pc = "write"
  /\ apply' = [apply EXCEPT ![a].pc = "tests"]
  /\ UNCHANGED <<rules, scenarios, trusts, bundles, storage, uploading, imports, due, row, file,
                 edits, crashes, mixed>>

\* Scenarios go below imported/.
ApplyTests(a) ==
  /\ apply[a].pc = "tests"
  /\ \E taken \in SUBSET (IF Place(a) \in storage THEN Bundle(a).tests ELSE {}) :
       scenarios' = [scenarios EXCEPT ![Site(a)] =
                       @ \cup {[of |-> s, imported |-> TRUE] : s \in taken}]
  /\ apply' = [apply EXCEPT ![a].pc = "finish"]
  /\ UNCHANGED <<rules, trusts, bundles, storage, uploading, imports, due, row, file, edits,
                 crashes, mixed>>

\* Errors or not, the import is applied, once and for all.
FinishApply(a) ==
  /\ apply[a].pc = "finish"
  /\ imports' = [imports EXCEPT ![apply[a].import].state = "applied",
                                ![apply[a].import].recal = @ \cup apply[a].set]
  /\ due' = due \cup {Place(a)}
  /\ apply' = [apply EXCEPT ![a] = Idle]
  /\ UNCHANGED <<rules, scenarios, trusts, bundles, storage, uploading, row, file, edits,
                 crashes, mixed>>

\* Five minutes later.
Cleanup(place) ==
  /\ place \in due /\ due' = due \ {place}
  /\ storage' = storage \ {place}
  /\ UNCHANGED <<rules, scenarios, trusts, bundles, uploading, imports, apply, row, file, edits,
                 crashes, mixed>>

\* The api restarts: what it was at and its tasks are gone.
Crash(s) ==
  /\ crashes < MaxCrashes /\ crashes' = crashes + 1
  /\ apply' = [a \in Appliers |-> IF apply[a].pc # "idle" /\ Site(a) = s THEN Idle ELSE apply[a]]
  /\ uploading' = {place \in uploading : place[1] # s}
  /\ due' = {place \in due : place[1] # s}
  /\ UNCHANGED <<rules, scenarios, trusts, bundles, storage, imports, row, file, edits, mixed>>

PatternNext ==
  \/ \E s \in Sites :
       \/ \E f \in Files : EditRule(s, f)
       \/ \E p \in Params : SetManually(s, p) \/ Tune(s, p)
       \/ ChangeTrust(s) \/ Export(s) \/ Crash(s)
       \/ \E b \in DOMAIN bundles : Unpack(s, b) \/ Stage(s, b)
  \/ \E a \in Appliers :
       \/ \E i \in DOMAIN imports : BeginApply(a, i)
       \/ Refuse(a) \/ ApplyFiles(a) \/ ReadRow(a) \/ NothingToRead(a) \/ WriteRow(a)
       \/ SkipRow(a) \/ ApplyTests(a) \/ FinishApply(a)
  \/ \E place \in due : Cleanup(place)

PatternSpec == PatternInit /\ [][PatternNext]_patternVars

-----------------------------------------------------------------------------
PatternTypeOK ==
  /\ rules \in [Sites -> [Files -> Versions]]
  /\ scenarios \in [Sites -> SUBSET Scenarios]
  /\ trusts \subseteq Sites
  /\ \A b \in DOMAIN bundles : bundles[b].from \in Sites /\ bundles[b].tests \subseteq Sites
  /\ storage \cup uploading \cup due \subseteq Sites \X DOMAIN bundles
  /\ \A i \in DOMAIN imports :
       imports[i].state \in {"staged", "applied"} /\ imports[i].bundle \in DOMAIN bundles
  /\ \A a \in Appliers :
       apply[a].pc \in {"idle", "files", "read", "write", "tests", "finish"}
  /\ row \in [Sites -> [Params -> {"none", "bundle", "manual"}]]
  /\ file \in [Sites -> [Params -> {"none", "manual", "ml"}]]

\* A scenario never comes back as an imported one to the site that wrote it,
\* however often bundles go to and fro (pattern_export.py:506-508).
NoEcho == \A s \in Sites : [of |-> s, imported |-> TRUE] \notin scenarios[s]

\* A bundle that waits for its application can be applied: its files are there
\* until an import of the same bundle has been applied.  (They are gone then even
\* for a later upload, for which the operator has to upload a third time.)
StagedIsThere ==
  \A i \in DOMAIN imports :
    LET place == <<imports[i].site, imports[i].bundle>> IN
      imports[i].state = "staged" /\ place \notin storage =>
        \E j \in DOMAIN imports :
          /\ <<imports[j].site, imports[j].bundle>> = place
          /\ imports[j].state = "applied"

\* What an import reports as recalibrated is in the row, whatever was applied
\* since, unless two applications read and wrote the row at a time.
RecalibrationKept ==
  ~mixed => \A i \in DOMAIN imports : \A p \in imports[i].recal : row[imports[i].site][p] = "bundle"

\* The diff an administrator has seen foretells what an application changes: a
\* file it does not name is changed only if someone has changed it since.
DiffForetells ==
  \A a \in Appliers : ApplyFiles(a) =>
    \A f \in Files : rules'[Site(a)][f] # rules[Site(a)][f] =>
      \/ f \in imports[apply[a].import].diff
      \/ rules[Site(a)][f] # imports[apply[a].import].seen[f]

BundlesKept == [](NoEcho /\ StagedIsThere /\ RecalibrationKept) /\ [][DiffForetells]_patternVars

\* pattern.py:616-617: the tuner respects what a bundle has set like a manual
\* value and does not tune it.
BundleRespected ==
  [][\A s \in Sites, p \in Params : row[s][p] = "bundle" => file'[s][p] # "ml" \/ file[s][p] = "ml"]_patternVars

=============================================================================
