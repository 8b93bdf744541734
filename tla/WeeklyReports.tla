---------------------------- MODULE WeeklyReports ----------------------------
(***************************************************************************)
(* The weekly report (api routers/reports.py): aggregates of the alerts of *)
(* a week, computed on demand or taken from the archive in MinIO, and the  *)
(* loop that archives the week that has ended, once an hour.  Alerts of a  *)
(* week still come in when it is over (taps keep them through an outage),  *)
(* and retention takes them away.                                          *)
(*                                                                         *)
(* Of the fourteen queries of a report two stand for all, the total and    *)
(* the days, each a statement with a snapshot of its own.  A report is the *)
(* pair of what they counted.                                              *)
(***************************************************************************)
EXTENDS Integers

CONSTANTS MaxWeek, MaxAlerts, MaxMishaps   \* bounds

ReportsAssumption == {MaxWeek, MaxAlerts, MaxMishaps} \subseteq Nat

Weeks == 1..MaxWeek
NoReport == [total |-> -1, days |-> -1]
Reports == [total : 0..MaxAlerts, days : 0..MaxAlerts] \cup {NoReport}

VARIABLES
  week,       \* the current week
  alerts,     \* week -> its alerts in the database
  archive,    \* week -> its report in the bucket
  up,         \* the api runs
  pc,         \* "check", "total", "days", "write" or "sleep" of archive_loop
  ref,        \* the week it works on
  report,     \* what it has of the report
  checked,    \* it has looked at the archive in this week (history)
  answer,     \* the last report asked for: its week, and whether from the archive
  mishaps

reportVars == <<week, alerts, archive, up, pc, ref, report, checked, answer, mishaps>>
loopVars == <<pc, ref, report, checked>>
worldVars == <<week, alerts, archive, up>>

NoAnswer == [week |-> 0, archived |-> FALSE, report |-> NoReport]

ReportsInit ==
  /\ week = 1 /\ alerts = [w \in Weeks |-> 0] /\ archive = [w \in Weeks |-> NoReport]
  /\ up = TRUE /\ pc = "check" /\ ref = 0 /\ report = NoReport /\ checked = FALSE
  /\ answer = NoAnswer /\ mishaps = 0

Mishap == mishaps < MaxMishaps /\ mishaps' = mishaps + 1

-----------------------------------------------------------------------------
(* What goes on meanwhile.                                                 *)

NextWeek ==
  /\ week < MaxWeek /\ week' = week + 1 /\ checked' = FALSE
  /\ UNCHANGED <<alerts, archive, up, pc, ref, report, answer, mishaps>>

\* An alert of this week, or of an earlier one.
AlertArrives ==
  /\ \E w \in 1..week : alerts[w] < MaxAlerts /\ alerts' = [alerts EXCEPT ![w] = @ + 1]
  /\ UNCHANGED <<week, archive, up, loopVars, answer, mishaps>>

\* Retention drops the alerts of the oldest weeks.
Prune ==
  /\ Mishap
  /\ \E w \in 1..(week - 1) : alerts' = [v \in Weeks |-> IF v <= w THEN 0 ELSE alerts[v]]
  /\ UNCHANGED <<week, archive, up, loopVars, answer>>

Stop ==
  /\ up /\ Mishap /\ up' = FALSE /\ pc' = "check" /\ ref' = 0 /\ report' = NoReport
  /\ UNCHANGED <<week, alerts, archive, checked, answer>>

Start == ~up /\ up' = TRUE /\ UNCHANGED <<week, alerts, archive, loopVars, answer, mishaps>>

-----------------------------------------------------------------------------
(* archive_loop.                                                           *)

Tick(next) == up /\ pc' = next

\* Bug: the week that runs.
WeekToArchiveCurrent == week

\* The week of the day seven days ago.
WeekToArchive == week - 1

\* A week that is archived is left alone; an archive that cannot be read is one
\* that is not there.
Check ==
  /\ pc = "check" /\ WeekToArchive > 0
  /\ \/ archive[WeekToArchive] # NoReport /\ Tick("sleep") /\ UNCHANGED <<ref, mishaps>>
     \/ archive[WeekToArchive] = NoReport /\ Tick("total") /\ ref' = WeekToArchive /\ UNCHANGED mishaps
     \/ archive[WeekToArchive] # NoReport /\ Mishap /\ Tick("total") /\ ref' = WeekToArchive
  /\ checked' = TRUE
  /\ UNCHANGED <<worldVars, report, answer>>

\* _build_weekly_payload.
CountTotal ==
  /\ pc = "total" /\ Tick("days") /\ report' = [total |-> alerts[ref], days |-> 0]
  /\ UNCHANGED <<worldVars, ref, checked, answer, mishaps>>

CountDays ==
  /\ pc = "days" /\ Tick("write") /\ report' = [report EXCEPT !.days = alerts[ref]]
  /\ UNCHANGED <<worldVars, ref, checked, answer, mishaps>>

Write ==
  /\ pc = "write" /\ Tick("sleep")
  /\ archive' = [archive EXCEPT ![ref] = report] /\ ref' = 0 /\ report' = NoReport
  /\ UNCHANGED <<week, alerts, up, checked, answer, mishaps>>

\* Bug: an exception ends the loop.
AfterFailureStops == "dead"

\* The next hour it is tried again.
AfterFailure == "sleep"

\* The database does not answer, or MinIO.
TickFails ==
  /\ up /\ pc \in {"total", "days", "write"} /\ Mishap
  /\ pc' = AfterFailure /\ ref' = 0 /\ report' = NoReport
  /\ UNCHANGED <<worldVars, checked, answer>>

WakeUp == pc = "sleep" /\ Tick("check") /\ UNCHANGED <<worldVars, ref, report, checked, answer, mishaps>>

-----------------------------------------------------------------------------
(* weekly_report.                                                          *)

\* A week that is over comes from the archive, if it is there and readable.
FromArchive(w) == w < week

Ask ==
  /\ up
  /\ \E w \in 1..week :
       \/ /\ FromArchive(w) /\ archive[w] # NoReport
          /\ answer' = [week |-> w, archived |-> TRUE, report |-> archive[w]] /\ UNCHANGED mishaps
       \/ /\ IF FromArchive(w) /\ archive[w] # NoReport THEN Mishap ELSE UNCHANGED mishaps
          /\ answer' = [week |-> w, archived |-> FALSE, report |-> [total |-> alerts[w], days |-> alerts[w]]]
  /\ UNCHANGED <<worldVars, loopVars>>

LoopStep == Check \/ CountTotal \/ CountDays \/ Write \/ WakeUp

ReportsNext ==
  \/ NextWeek \/ AlertArrives \/ Prune \/ Stop \/ Start \/ LoopStep \/ TickFails \/ Ask

ReportsSpec == ReportsInit /\ [][ReportsNext]_reportVars

\* The loop ticks; a stopped api is started.
ReportsFairness == WF_<<pc>>(LoopStep) /\ WF_up(Start)

ReportsFairSpec == ReportsSpec /\ ReportsFairness

-----------------------------------------------------------------------------
ReportsTypeOK ==
  /\ week \in Weeks /\ alerts \in [Weeks -> 0..MaxAlerts] /\ archive \in [Weeks -> Reports]
  /\ up \in BOOLEAN /\ pc \in {"check", "total", "days", "write", "sleep"} /\ ref \in 0..MaxWeek
  /\ {report, answer.report} \subseteq Reports /\ checked \in BOOLEAN

\* No report of a week is archived before the week is over, however the end of
\* a week falls into a tick, and so none that a later request would be given
\* as final is partial.
ArchivedWhenOver ==
  /\ \A w \in Weeks : archive[w] # NoReport => w < week
  /\ ref < week

\* Failures of the database or of MinIO, and restarts, only delay the archive
\* of the week that ended last.
GetsArchived == []<>(week > 1 => archive[week - 1] # NoReport)

\* reports.py:913: an archive that exists is not touched.
Frozen == [][\A w \in Weeks : archive[w] # NoReport => archive'[w] = archive[w]]_reportVars

=============================================================================
