---------------------------- MODULE Suppression ----------------------------
(***************************************************************************)
(* alert-manager: the suppression of known patterns (suppression.py, and   *)
(* main.py:223-275, which applies it).  A pattern is a rule with a pair of *)
(* addresses.  Time goes by the hour; within one the cache may be fresh or *)
(* not, because a refresh is due after REFRESH_INTERVAL_S and may fail.    *)
(***************************************************************************)
EXTENDS Integers, FiniteSets, FiniteSetsExt, Functions

CONSTANTS
  Patterns,
  LearnWindow, MinHours,               \* limits of the code, in hours
  MaxHour, MaxPerHour, MaxMarks        \* bounds

SuppressionAssumption ==
  {LearnWindow, MinHours, MaxHour} \subseteq Nat \ {0}
  /\ {MaxPerHour, MaxMarks} \subseteq Nat

VARIABLES
  aligned,         \* patterns whose pair the text order of _session_key sorts as
                   \* the order of inet does (it never changes)
  hour,
  table,           \* alerts in the database: pattern -> hour -> how many
  userFp, userTp,  \* patterns a user gave feedback fp, tp
  autoFp,          \* patterns whose alerts were stored with feedback "fp" by
                   \* the alert-manager itself
  tunable,         \* patterns whose rule the rule-tuner adapts
  manual, stats,   \* the cache: keys; pattern with a baseline -> spike?
  last,            \* what was decided last (history)
  marks            \* changes of feedback and of tunable

suppressionVars == <<aligned, hour, table, userFp, userTp, autoFp, tunable, manual, stats, last, marks>>

Nothing == [pattern |-> "none", kind |-> "none", lowered |-> FALSE, fresh |-> FALSE,
            source |-> "none"]

SuppressionInit ==
  /\ aligned \in SUBSET Patterns /\ hour = 1 /\ table = [p \in Patterns |-> [h \in 1..MaxHour |-> 0]]
  /\ userFp = {} /\ userTp = {} /\ autoFp = {} /\ tunable \in SUBSET Patterns
  /\ manual = {} /\ stats = <<>> /\ last = Nothing /\ marks = 0

-----------------------------------------------------------------------------
(* The refresh.                                                            *)

LearnedHours(p) ==
  {h \in 1..(hour - 1) : h >= hour - LearnWindow /\ table[p][h] > 0}

\* Bug: the current hour counts as history.
BaselineCurrentHour ==
  {p \in Patterns : Cardinality({h \in 1..hour : table[p][h] > 0}) >= MinHours}

Baseline == {p \in Patterns : Cardinality(LearnedHours(p)) >= MinHours}

\* z >= 2 with mean and sample deviation over the hours with data, in
\* integers; a constant baseline is exceeded by one alert.
Spike(p) ==
  LET n == Cardinality(LearnedHours(p))
      total == MapThenSumSet(LAMBDA h : table[p][h], LearnedHours(p))
      squares == MapThenSumSet(LAMBDA h : table[p][h] * table[p][h], LearnedHours(p))
      spread == n * squares - total * total
      above == n * table[p][hour] - total
  IN  /\ above > 0
      /\ spread = 0 \/ above * above * (n - 1) >= 4 * n * spread

\* Bug: a pattern confirmed as an attack is learned all the same.
FreshStatsWithTp == [p \in Baseline |-> Spike(p)]

FreshStats == [p \in Baseline \ userTp |-> Spike(p)]

\* Bug: only the marks of the alert-manager itself are read.
FreshManualAuto == autoFp

\* The query asks for feedback = 'fp', whoever wrote it.
FreshManual == userFp \cup autoFp

-----------------------------------------------------------------------------
(* One alert.                                                              *)

\* Bug: what a user marked is never seen again.
ClassifyManualFirst(p, m, s) ==
  CASE p \notin aligned -> "none"
    [] p \in aligned /\ p \in m -> "manual"
    [] p \in aligned \ m /\ p \in DOMAIN s /\ ~s[p] -> "learned"
    [] OTHER -> "none"

\* classify: the key of a pair that text sorts the other way is not found.
Classify(p, m, s) ==
  CASE p \notin aligned -> "none"
    [] p \in aligned /\ p \in DOMAIN s /\ s[p] -> "none"
    [] p \in aligned /\ p \in m /\ (p \in DOMAIN s => ~s[p]) -> "manual"
    [] p \in aligned \ m /\ p \in DOMAIN s /\ ~s[p] -> "learned"
    [] OTHER -> "none"

\* Bug: a tunable rule is lowered too.
LoweredTunable(p, source) == source = "signature"

Lowered(p, source) == source = "signature" /\ p \notin tunable

\* main.py: refresh, classify, lower the severity or, for a rule the tuner
\* adapts, store the alert as a false positive; then the row is written.
ProcessAlert(p, source, fresh) ==
  LET m == IF fresh THEN FreshManual ELSE manual
      s == IF fresh THEN FreshStats ELSE stats
      kind == Classify(p, m, s)
  IN  /\ table[p][hour] < MaxPerHour
      /\ manual' = m /\ stats' = s
      /\ last' = [pattern |-> p, kind |-> kind, fresh |-> fresh, source |-> source,
                  lowered |-> kind # "none" /\ Lowered(p, source)]
      /\ autoFp' = IF kind # "none" /\ p \in tunable THEN autoFp \cup {p} ELSE autoFp
      /\ table' = [table EXCEPT ![p][hour] = @ + 1]
      /\ UNCHANGED <<aligned, hour, userFp, userTp, tunable, marks>>

Mark(p) ==
  /\ marks < MaxMarks /\ marks' = marks + 1
  /\ \E h \in 1..hour : table[p][h] > 0
  /\ \/ userFp' = userFp \cup {p} /\ UNCHANGED userTp
     \/ userTp' = userTp \cup {p} /\ UNCHANGED userFp
  /\ UNCHANGED <<aligned, hour, table, autoFp, tunable, manual, stats, last>>

Retune(p) ==
  /\ marks < MaxMarks /\ marks' = marks + 1
  /\ tunable' = IF p \in tunable THEN tunable \ {p} ELSE tunable \cup {p}
  /\ UNCHANGED <<aligned, hour, table, userFp, userTp, autoFp, manual, stats, last>>

NextHour ==
  /\ hour < MaxHour /\ hour' = hour + 1
  /\ UNCHANGED <<aligned, table, userFp, userTp, autoFp, tunable, manual, stats, last, marks>>

Restart ==
  /\ manual' = {} /\ stats' = <<>>
  /\ UNCHANGED <<aligned, hour, table, userFp, userTp, autoFp, tunable, last, marks>>

SuppressionNext ==
  \/ \E p \in Patterns, source \in {"signature", "ml"}, fresh \in BOOLEAN : ProcessAlert(p, source, fresh)
  \/ \E p \in Patterns : Mark(p) \/ Retune(p)
  \/ NextHour \/ Restart

SuppressionSpec == SuppressionInit /\ [][SuppressionNext]_suppressionVars

-----------------------------------------------------------------------------
\* Types of the variables; a baseline needs its hours, and none is kept for a
\* pattern that does not occur.
SuppressionTypeOK ==
  /\ aligned \subseteq Patterns /\ hour \in 1..MaxHour
  /\ table \in [Patterns -> [1..MaxHour -> 0..MaxPerHour]]
  /\ userFp \cup userTp \cup autoFp \cup tunable \cup manual \subseteq Patterns
  /\ DOMAIN stats \subseteq Patterns /\ \A p \in DOMAIN stats : stats[p] \in BOOLEAN
  /\ marks \in 0..MaxMarks
  /\ \A p \in DOMAIN stats :
       Cardinality({h \in 1..(hour - 1) : table[p][h] > 0}) >= MinHours

Decides == table' # table

\* A rate far above the baseline lifts the suppression of both layers at the
\* next refresh (suppression.py:17-24), whoever suppressed the pattern and
\* however its own suppressed alerts have shaped the baseline.
SpikeBreaksThrough ==
  [][Decides /\ last'.fresh =>
       LET p == last'.pattern IN p \in Baseline \ userTp /\ Spike(p) => ~last'.lowered]_suppressionVars

\* What a user marked as a false positive is lowered from the next refresh on,
\* also when its rule was never frequent, except for a spike -- and except for
\* a pair text and inet sort differently, which the cache never finds.
MarkTakesEffect ==
  [][Decides /\ last'.fresh /\ last'.source = "signature" /\ last'.pattern \in (userFp \cap aligned) \ tunable =>
       LET p == last'.pattern
       IN  last'.lowered \/ (p \in Baseline \ userTp /\ Spike(p))]_suppressionVars

\* From the next refresh on a confirmed attack is not learned as noise, and its
\* rule is not reported to the tuner for its frequency (suppression.py:26-27).
TpEndsLearning ==
  [][Decides /\ last'.fresh /\ last'.pattern \in userTp => last'.kind # "learned"]_suppressionVars

\* Severity is lowered only for what a user or the loop with the rule-tuner has
\* marked, or for what was there in MinHours earlier hours: a pattern that is
\* new is seen, also with a cache that is old or was just lost.
NewPatternsSeen ==
  [][Decides /\ last'.lowered =>
       LET p == last'.pattern
       IN  p \in userFp \cup autoFp
           \/ Cardinality({h \in 1..(hour - 1) : table[p][h] > 0}) >= MinHours]_suppressionVars

\* One of suppression and rule-tuner handles a pattern: an alert of a rule the
\* tuner adapts keeps its severity, so that no pattern it is reported as false
\* positive for is lowered in the same step (main.py:226-232).
OneDefence ==
  [][Decides => ~(last'.lowered /\ last'.pattern \in tunable)]_suppressionVars

\* A spike breaks through what is learnt, a mark of the user decides from the
\* next refresh on, a new pattern is not suppressed, and a pattern is suppressed
\* or tuned away, never both: all of the above.
SuppressionOK ==
  /\ []SuppressionTypeOK
  /\ SpikeBreaksThrough /\ MarkTakesEffect /\ TpEndsLearning
  /\ NewPatternsSeen /\ OneDefence

\* suppression.py:6-8: the manual layer holds what a user marked.
ManualMeansUser == manual \subseteq userFp

=============================================================================
