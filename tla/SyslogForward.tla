---------------------------- MODULE SyslogForward ----------------------------
(***************************************************************************)
(* The syslog forwarder of the api (routers/syslog_fwd.py): every 30 s it  *)
(* reads its configuration, the alerts younger than its cursor, and sends  *)
(* those that are severe enough to the server named in the configuration.  *)
(* The cursor lives in the process.  Alerts carry the time of the sensor,  *)
(* whose clock may be ahead, and are written by other services, not in the *)
(* order of that time.                                                     *)
(***************************************************************************)
EXTENDS Integers, Sequences, FiniteSets, SequencesExt

CONSTANTS
  Limit,                                    \* rows of one round
  MaxTime, MaxAlerts, MaxMishaps, MaxEdits  \* bounds

SyslogAssumption == Limit \in Nat \ {0} /\ {MaxTime, MaxAlerts, MaxMishaps, MaxEdits} \subseteq Nat

VARIABLES
  now,
  alerts,      \* the rows written so far, in that order: ts, severe, test, and
               \* whether all those before it were older (history)
  enabled,     \* the configuration as it is stored, ...
  onlySevere,
  pc,          \* "sleeping", "configured", "sending"
  minSevere,   \* ... as the round has read it, ...
  rows,        \* ... the rows of the round still to be sent, by index ...
  last,        \* ... and the time of the last row it read
  cursor,      \* _last_forwarded
  sent,        \* indices sent, in that order (history)
  excused,     \* indices not sent for want of severity, for a failing send
               \* or for the limit (history)
  started,     \* when the process was started last (history)
  setBack,     \* a start found an alert sent that is ahead of the clock (history)
  mishaps, edits

syslogVars == <<now, alerts, enabled, onlySevere, pc, minSevere, rows, last, cursor, sent, excused,
                started, setBack, mishaps, edits>>
round == <<pc, minSevere, rows, last>>
config == <<enabled, onlySevere>>
starts == <<started, setBack>>

SyslogInit ==
  /\ now = 1 /\ alerts = <<>> /\ enabled = TRUE /\ onlySevere = FALSE
  /\ pc = "sleeping" /\ minSevere = FALSE /\ rows = <<>> /\ last = 0 /\ cursor = 0
  /\ sent = <<>> /\ excused = {} /\ started = 0 /\ setBack = FALSE
  /\ mishaps = 0 /\ edits = 0

Indices == DOMAIN alerts

-----------------------------------------------------------------------------
(* The other services and the operator.                                    *)

\* An alert is written, whatever its time.
Written(ts, severe, test) ==
  /\ Len(alerts) < MaxAlerts
  /\ alerts' = Append(alerts, [ts |-> ts, severe |-> severe, test |-> test,
                               inTime |-> \A i \in Indices : alerts[i].ts < ts])
  /\ UNCHANGED <<starts, now, config, round, cursor, sent, excused, mishaps, edits>>

SyslogTick ==
  /\ now < MaxTime /\ now' = now + 1
  /\ UNCHANGED <<starts, alerts, config, round, cursor, sent, excused, mishaps, edits>>

\* save_syslog_config; the rows are sent without giving up control.
SaveSyslogConfig ==
  /\ pc # "sending" /\ edits < MaxEdits /\ edits' = edits + 1
  /\ enabled' \in BOOLEAN /\ onlySevere' \in BOOLEAN /\ config' # config
  /\ UNCHANGED <<starts, now, alerts, round, cursor, sent, excused, mishaps>>

-----------------------------------------------------------------------------
(* syslog_forwarder_loop.                                                  *)

\* The configuration is read.
ReadSyslogConfig ==
  /\ pc = "sleeping" /\ enabled /\ pc' = "configured" /\ minSevere' = onlySevere
  /\ UNCHANGED <<starts, now, alerts, config, rows, last, cursor, sent, excused, mishaps, edits>>

\* A forwarder that is switched off sleeps on and leaves its cursor.
SwitchedOff == pc = "sleeping" /\ ~enabled /\ UNCHANGED syslogVars

\* Bug: ts >= cursor.
YoungerOrSame == {i \in Indices : alerts[i].ts >= cursor /\ ~alerts[i].test}

\* ts > cursor and not a test.
Younger == {i \in Indices : alerts[i].ts > cursor /\ ~alerts[i].test}

\* ORDER BY ts LIMIT 500; rows of the same time come in any order.
Picks(found) ==
  {s \in SetToSeqs(found) : \A j, k \in DOMAIN s : j < k => alerts[s[j]].ts <= alerts[s[k]].ts}

SelectRows ==
  /\ pc = "configured"
  /\ \E s \in Picks(Younger) :
       LET page == SubSeq(s, 1, IF Len(s) > Limit THEN Limit ELSE Len(s)) IN
       IF page = <<>> THEN pc' = "sleeping" /\ UNCHANGED <<rows, last, excused>>
       ELSE /\ pc' = "sending" /\ rows' = page /\ last' = alerts[page[Len(page)]].ts
            \* A row of the same time left over by the limit will not be found again.
            /\ excused' = excused \cup {i \in Range(s) \ Range(page) : alerts[i].ts = last'}
  /\ UNCHANGED <<starts, now, alerts, config, minSevere, cursor, sent, mishaps, edits>>

\* Bug: the cursor follows what was written last, not what was read.
CursorAtNow == now

CursorAfter == last

EndRound == pc' = "sleeping" /\ rows' = <<>> /\ cursor' = CursorAfter

\* One row is sent or is not severe enough; after the last the cursor moves.
SendRow ==
  /\ pc = "sending"
  /\ IF minSevere /\ ~alerts[rows[1]].severe
     THEN excused' = excused \cup {rows[1]} /\ UNCHANGED sent
     ELSE sent' = Append(sent, rows[1]) /\ UNCHANGED excused
  /\ IF Len(rows) = 1 THEN EndRound
     ELSE rows' = Tail(rows) /\ UNCHANGED <<pc, cursor>>
  /\ UNCHANGED <<starts, now, alerts, config, minSevere, last, mishaps, edits>>

\* The server cannot be reached: the round ends, the cursor moves all the same.
SendFails ==
  /\ pc = "sending" /\ (minSevere => alerts[rows[1]].severe)
  /\ mishaps < MaxMishaps /\ mishaps' = mishaps + 1
  /\ EndRound /\ excused' = excused \cup Range(rows)
  /\ UNCHANGED <<starts, now, alerts, config, minSevere, last, sent, edits>>

\* The database fails: the round ends and the cursor stays.
SelectFails ==
  /\ pc = "configured" /\ mishaps < MaxMishaps /\ mishaps' = mishaps + 1
  /\ pc' = "sleeping"
  /\ UNCHANGED <<starts, now, alerts, config, minSevere, rows, last, cursor, sent, excused, edits>>

\* The api starts again; the cursor with the present.
SyslogRestart ==
  /\ mishaps < MaxMishaps /\ mishaps' = mishaps + 1
  /\ pc' = "sleeping" /\ rows' = <<>> /\ cursor' = now
  /\ started' = now /\ setBack' = (setBack \/ \E i \in Range(sent) : now < alerts[i].ts)
  /\ UNCHANGED <<now, alerts, config, minSevere, last, sent, excused, edits>>

SyslogNext ==
  \/ \E ts \in 1..MaxTime, severe, test \in BOOLEAN : Written(ts, severe, test)
  \/ SyslogTick \/ SaveSyslogConfig
  \/ SwitchedOff \/ ReadSyslogConfig \/ SelectRows \/ SendRow \/ SendFails \/ SelectFails \/ SyslogRestart

SyslogSpec == SyslogInit /\ [][SyslogNext]_syslogVars

-----------------------------------------------------------------------------
(* Properties.                                                             *)

SyslogTypeOK ==
  /\ cursor \in 0..MaxTime /\ pc \in {"sleeping", "configured", "sending"}
  /\ (pc = "sending") <=> (rows # <<>>)
  /\ Range(sent) \cup excused \subseteq Indices

\* No alert is forwarded twice and none after a younger one, however often the
\* configuration changes, the server or the database fails and the process
\* starts again, unless it starts with a clock behind that of a sensor.
ForwardedInOrderOnce ==
  setBack \/ \A j, k \in DOMAIN sent :
    j < k => sent[j] # sent[k] /\ alerts[sent[j]].ts <= alerts[sent[k]].ts

\* An alert the cursor has passed was forwarded, is a test, or has an excuse:
\* it was not severe enough for the configuration, a send failed, the limit
\* fell between two alerts of one time, it is older than the start of the
\* process, or it was not written in the order of time.
SkipsHaveCause ==
  \A i \in Indices :
    alerts[i].ts <= cursor /\ pc # "sending" =>
      \/ i \in Range(sent) \cup excused \/ alerts[i].test
      \/ alerts[i].ts <= started \/ ~alerts[i].inTime

=============================================================================
