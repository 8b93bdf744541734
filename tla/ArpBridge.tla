------------------------------ MODULE ArpBridge ------------------------------
(***************************************************************************)
(* arpwatch bridge (main.py): the output of arpwatch, reports on one line  *)
(* or in blocks of several with or without a blank line after them, becomes*)
(* alerts; stations that are merely new are kept back during the warm-up.  *)
(*                                                                         *)
(* A report is [form, title, old]: "old" says whether it names a former    *)
(* MAC address.  Addresses are left out; a report is known by its place.   *)
(***************************************************************************)
EXTENDS Naturals, Sequences

CONSTANT MaxReports             \* bound

ArpAssumption == MaxReports \in Nat

ConflictTitles == {"flip flop", "changed ethernet address", "ethernet mismatch"}
NewTitles == {"new station", "new activity"}
SkipTitles == {"bogon", "reused old ethernet address"}
Titles == ConflictTitles \cup NewTitles \cup SkipTitles

Nothing == 0

VARIABLES
  reports,     \* what arpwatch has reported, in order
  stream,      \* lines written and not yet read
  cur,         \* ArpwatchParser._cur: the report whose ip, mac, old are held
  events,      \* what feed returned: <<report, kind>>
  alerts,      \* indices of the events made into alerts
  warm         \* time since the start is below WARMUP_S

arpVars == <<reports, stream, cur, events, alerts, warm>>

Held == [ip |-> Nothing, mac |-> Nothing, old |-> Nothing]

ArpInit == /\ reports = <<>> /\ stream = <<>> /\ cur = Held
           /\ events = <<>> /\ alerts = {} /\ warm = TRUE

(* arpwatch *)

KV(label, r) == [line |-> label, report |-> r]
Line(kind) == [line |-> kind, report |-> Nothing]

BlockLines(r, old, blank) ==
  << Line("other"), KV("ip", r), KV("mac", r) >>
    \o (IF old THEN << KV("old", r) >> ELSE <<>>)
    \o (IF blank THEN << Line("blank") >> ELSE <<>>)

Report ==
  /\ Len(reports) < MaxReports /\ stream = <<>>
  /\ \E title \in Titles, old, blank, block \in BOOLEAN :
       /\ block => (old <=> title \in ConflictTitles) /\ title \notin SkipTitles
       /\ reports' = Append(reports, [title |-> title, old |-> old, block |-> block, ended |-> blank])
       /\ stream' = IF block THEN BlockLines(Len(reports) + 1, old, blank)
                    ELSE << KV("single", Len(reports) + 1) >>
  /\ UNCHANGED <<cur, events, alerts, warm>>

WarmupEnds == warm /\ warm' = FALSE /\ UNCHANGED <<reports, stream, cur, events, alerts>>

-----------------------------------------------------------------------------
\* Bug: any former address means a conflict.
ClassifyByOld(title, old) ==
  IF title \in SkipTitles THEN "none" ELSE IF old THEN "conflict" ELSE "new"

\* _classify
Classify(title, old) ==
  IF title \in SkipTitles THEN "none"
  ELSE IF title \in ConflictTitles \/ (old /\ title \notin NewTitles) THEN "conflict"
  ELSE "new"

Emit(r, kind) == IF kind = "none" THEN <<>> ELSE << <<r, kind>> >>

\* _flush_block; a block without a title is a conflict when it has an old MAC.
BlockEvent ==
  IF cur.ip = Nothing \/ cur.mac = Nothing THEN <<>>
  ELSE IF cur.old # Nothing
         THEN Emit(cur.ip, Classify("changed ethernet address", TRUE))
         ELSE Emit(cur.ip, Classify("new station", FALSE))

\* Bug: the old address of the former block stays.
KeepOld == [Held EXCEPT !.old = cur.old]

Cleared == Held

\* Bug: a block ends with a blank line only.
BlockBeginsNever(l) == FALSE

\* A new block without a blank line before it.
BlockBegins(l) == l.line = "ip" /\ cur.ip # Nothing

\* feed, and the loop over what it returns.
Feed ==
  /\ stream # <<>>
  /\ stream' = Tail(stream)
  /\ LET l == Head(stream)
         flushed == BlockBegins(l) \/ l.line = "blank"
         base == IF flushed THEN Cleared ELSE cur
         new == CASE l.line = "single" ->
                       Emit(l.report, Classify(reports[l.report].title, reports[l.report].old))
                  [] flushed -> BlockEvent
                  [] OTHER -> <<>>
     IN  /\ cur' = IF l.line \in {"ip", "mac", "old"} THEN [base EXCEPT ![l.line] = l.report]
                   ELSE base
         /\ events' = events \o new
         /\ alerts' = IF new # <<>> /\ ~(new[1][2] = "new" /\ warm)
                        THEN alerts \cup {Len(events) + 1} ELSE alerts
  /\ UNCHANGED <<reports, warm>>

ArpDone == stream = <<>> /\ Len(reports) = MaxReports /\ ~warm /\ UNCHANGED arpVars

ArpNext == Report \/ WarmupEnds \/ Feed \/ ArpDone
ArpSpec == ArpInit /\ [][ArpNext]_arpVars

-----------------------------------------------------------------------------
\* The reports of which an event is due once everything written was read: all
\* but the ignored ones and the last block while nothing has ended it.
Due == {r \in DOMAIN reports :
          /\ reports[r].title \notin SkipTitles
          /\ ~reports[r].block \/ reports[r].ended
               \/ \E q \in DOMAIN reports : q > r /\ reports[q].block}

KindOf(r) == IF reports[r].title \in ConflictTitles THEN "conflict" ELSE "new"

\* One event for each report, of its kind, however one-line reports and
\* blocks are mixed and whether or not blank lines separate them.
OneEventPerReport ==
  stream = <<>> =>
    /\ \A i, j \in DOMAIN events : events[i][1] = events[j][1] => i = j
    /\ {events[i] : i \in DOMAIN events} = {<<r, KindOf(r)>> : r \in Due}

\* A conflict becomes an alert at any time, a new station only after the
\* warm-up.
ConflictsNeverKeptBack ==
  \A i \in DOMAIN events : events[i][2] = "conflict" => i \in alerts

=============================================================================
