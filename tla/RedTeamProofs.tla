---------------------------- MODULE RedTeamProofs ----------------------------
(***************************************************************************)
(* The runs of the redteam orchestrator are honest for every set of calls, *)
(* every tolerance and any number of mishaps.                              *)
(*                                                                         *)
(* Three independent arguments, over the types of the calls: a call gets   *)
(* the lock only when nobody has it and only its own lock is released; a   *)
(* torn template is replaced before the first call is served; and what     *)
(* the search starts from is not earlier than the tolerance before the run *)
(* sent, as time only grows.                                               *)
(***************************************************************************)
EXTENDS RedTeam, TLAPS

Pcs == {"idle", "saved", "waiting", "attached", "running", "polling", "booking",
        "done", "gone"}

CallRecord ==
  [op : {"none", "create", "delete", "scenario", "tool"}, via : Interfaces,
   iface : BOOLEAN, pc : Pcs, version : File, expects : BOOLEAN, sent : Nat,
   since : Nat, left : 0 .. Polls, known : BOOLEAN, matched : BOOLEAN]

CallsTyped ==
  /\ call \in [Calls -> CallRecord]
  /\ now \in Nat /\ generated \in File /\ template \in File /\ imported \in File
  /\ holder \in [Interfaces -> Calls \cup {Nobody}]

(* A call asks the api at least once more while it polls. *)
PollsLeft == \A c \in Calls : call[c].pc = "polling" => call[c].left > 0

(* Only the start leaves a torn file, and it mends it before it serves. *)
FilesWhole ==
  /\ generated # Torn /\ imported # Torn
  /\ phase \in {"register", "serving"} => template # Torn

(* The search starts no earlier than the tolerance before the run sent;    *)
(* a match is of an alert the api has.                                     *)
SearchInTime ==
  /\ \A a \in alerts : a.at \in Nat
  /\ visible \subseteq alerts
  /\ \A c \in Calls : call[c].sent <= now
  /\ \A c \in Calls : call[c].pc = "polling" => call[c].since + Tolerance >= call[c].sent

MatchFounded ==
  \A c \in Calls : call[c].matched =>
     /\ call[c].pc = "booking"
     /\ \E a \in visible : a.at + Tolerance >= call[c].sent

RunInv ==
  /\ CallsTyped /\ PollsLeft /\ FilesWhole /\ SearchInTime /\ MatchFounded
  /\ Serialised /\ PlaysWholeFiles /\ OldHitsDoNotCount
-----------------------------------------------------------------------------
LEMMA RunConstants ==
  /\ Tolerance \in Nat /\ Polls \in Nat /\ Polls > 0
  /\ Nobody \notin Calls /\ Torn \notin Calls \cup Imported
  /\ None # Torn /\ None # "template" /\ Torn # "template"
BY RedTeamAssumption DEF RedTeamAssumption, Nobody, None, Torn

LEMMA LatestOfTwo ==
  ASSUME NEW n \in Int PROVE Max({0, n}) \in Nat /\ Max({0, n}) >= n
<1> DEFINE m == IF n > 0 THEN n ELSE 0
<1>1. m \in {0, n} /\ \A y \in {0, n} : m >= y
  OBVIOUS
<1>2. \A x \in {0, n} : (\A y \in {0, n} : x >= y) => x = m
  OBVIOUS
<1>3. Max({0, n}) = m
  BY <1>1, <1>2 DEF Max
<1> QED
  BY <1>3

LEMMA SearchStart == now \in Nat => SearchFrom \in Nat /\ SearchFrom >= now - Tolerance
BY LatestOfTwo, RunConstants DEF SearchFrom

LEMMA IdleTyped ==
  /\ Idle \in CallRecord /\ Idle.pc = "idle" /\ Idle.op = "none"
  /\ Idle.matched = FALSE /\ Idle.sent = 0
BY RunConstants DEF Idle, CallRecord, Pcs, Interfaces, File, None

LEMMA EndedTyped ==
  ASSUME NEW pc \in Pcs
  PROVE  /\ Ended(pc) \in CallRecord /\ Ended(pc).pc = pc
         /\ Ended(pc).op = "none" /\ Ended(pc).matched = FALSE /\ Ended(pc).sent = 0
BY IdleTyped DEF Ended, CallRecord

LEMMA RunInitially == RedTeamInit => RunInv
<1> SUFFICES ASSUME RedTeamInit PROVE RunInv
  OBVIOUS
<1>1. CallsTyped
  BY IdleTyped DEF RedTeamInit, CallsTyped, File
<1>2. PollsLeft /\ Serialised /\ PlaysWholeFiles /\ MatchFounded
  BY IdleTyped DEF RedTeamInit, PollsLeft, Serialised, PlaysWholeFiles, MatchFounded
<1>3. FilesWhole
  BY RunConstants DEF RedTeamInit, FilesWhole
<1>4. SearchInTime /\ OldHitsDoNotCount
  BY IdleTyped DEF RedTeamInit, SearchInTime, OldHitsDoNotCount
<1> QED
  BY <1>1, <1>2, <1>3, <1>4 DEF RunInv

(* The steps in which no call moves and no lock changes hands. *)
QuietStep ==
  \/ Start \/ BeginCopy \/ EndCopy \/ Serve
  \/ \E ok \in BOOLEAN : RegisterAtStart(ok)
  \/ \E c \in Calls : RunnerEnds(c)
  \/ \E a \in alerts : Surface(a)
  \/ \E version \in Imported : Import(version)
  \/ OtherTraffic \/ KaliRestarts \/ Tick

(* The steps of a call, with what its arguments come to. *)
MovingStep(c) ==
  \/ Create(c) \/ Delete(c) \/ Refuse(c) \/ GiveUp(c)
  \/ \E via \in Interfaces : RunScenario(c, via)
  \/ \E via \in Interfaces, iface \in BOOLEAN : RunTool(c, via, iface)
  \/ Attach(c) \/ Send(c) \/ Return(c) \/ Broken(c)
  \/ \E ok \in BOOLEAN : BookFile(c, ok) \/ Poll(c, ok) \/ BookRun(c, ok)

LEMMA StepCases ==
  ASSUME RedTeamNext
  PROVE  QuietStep \/ Crash \/ \E c \in Calls : MovingStep(c)
<1>1. \A c : ScenarioRest(c) \/ ScenarioMcp(c) => \E via \in Interfaces : RunScenario(c, via)
  BY DEF ScenarioRest, ScenarioMcp, Interfaces
<1>2. \A c : ToolRest(c) \/ ToolMcp(c)
             => \E via \in Interfaces, iface \in BOOLEAN : RunTool(c, via, iface)
  BY DEF ToolRest, ToolMcp, Interfaces
<1>3. \A c : RunnerRefuses(c) => Refuse(c)
  BY DEF RunnerRefuses
<1> QED
  BY <1>1, <1>2, <1>3 DEF RedTeamNext, CallStep, QuietStep, MovingStep

LEMMA QuietIsQuiet ==
  ASSUME QuietStep PROVE UNCHANGED <<call, holder, results>>
BY DEF QuietStep, Start, BeginCopy, EndCopy, Serve, RegisterAtStart, RunnerEnds,
       Surface, Import, OtherTraffic, KaliRestarts, Tick

(* What a step of c leaves alone. *)
(* A step of c moves the record of c alone, and keeps it a record. *)
OnlyMoves(c) ==
  /\ call' \in [Calls -> CallRecord]
  /\ \A d \in Calls \ {c} : call'[d] = call[d]

LEMMA MovesTo ==
  ASSUME CallsTyped, NEW c \in Calls, NEW r \in CallRecord, call' = [call EXCEPT ![c] = r]
  PROVE  OnlyMoves(c) /\ call'[c] = r
BY DEF CallsTyped, OnlyMoves

(* What each step of a call makes of its record. *)
LEMMA CreateMoves ==
  ASSUME CallsTyped, NEW c \in Calls, Create(c) \/ Delete(c)
  PROVE  OnlyMoves(c) /\ call'[c].pc = "saved" /\ call'[c].op # "scenario"
         /\ call'[c].matched = FALSE /\ call'[c].sent = 0
<1> DEFINE r(op, v) == [Idle EXCEPT !.op = op, !.via = "mcp", !.pc = "saved", !.version = v]
<1>1. ASSUME NEW op \in {"create", "delete"}, NEW v \in File
      PROVE  /\ r(op, v) \in CallRecord
             /\ r(op, v).pc = "saved" /\ r(op, v).op # "scenario"
             /\ r(op, v).matched = FALSE /\ r(op, v).sent = 0
  BY IdleTyped DEF CallRecord, Pcs, Interfaces
<1>2. c \in File /\ generated \in File
  BY DEF CallsTyped, File, Versions
<1>3. \E op \in {"create", "delete"}, v \in File : call' = [call EXCEPT ![c] = r(op, v)]
  BY <1>2 DEF Create, Delete
<1>4. PICK op \in {"create", "delete"}, v \in File : call' = [call EXCEPT ![c] = r(op, v)]
  BY <1>3
<1> HIDE DEF r
<1> QED
  BY <1>1, <1>4, MovesTo

LEMMA ScenarioMoves ==
  ASSUME CallsTyped, NEW c \in Calls, NEW via \in Interfaces, RunScenario(c, via)
  PROVE  /\ OnlyMoves(c) /\ call'[c].pc \in {"waiting", "done"}
         /\ call'[c].version = Loaded /\ phase = "serving"
         /\ call'[c].matched = FALSE /\ call'[c].sent = 0
<1> DEFINE r(e, p) == [Idle EXCEPT !.op = "scenario", !.via = via, !.version = Loaded,
                                   !.expects = e, !.pc = p]
<1>1. Loaded \in File
  BY DEF Loaded, CallsTyped
<1>2. ASSUME NEW e \in BOOLEAN, NEW p \in {"waiting", "done"}
      PROVE  /\ r(e, p) \in CallRecord
             /\ r(e, p).pc = p /\ r(e, p).version = Loaded
             /\ r(e, p).matched = FALSE /\ r(e, p).sent = 0
  BY <1>1, IdleTyped DEF CallRecord, Pcs
<1>3. \E e \in BOOLEAN, p \in {"waiting", "done"} : call' = [call EXCEPT ![c] = r(e, p)]
  BY DEF RunScenario
<1>4. phase = "serving"
  BY DEF RunScenario, Begin
<1> HIDE DEF r
<1> QED
  BY ZenonT(60), <1>2, <1>3, <1>4, MovesTo

LEMMA ToolMoves ==
  ASSUME CallsTyped, NEW c \in Calls, NEW via \in Interfaces, NEW iface \in BOOLEAN,
         RunTool(c, via, iface)
  PROVE  /\ OnlyMoves(c) /\ call'[c].pc \in {"waiting", "attached"}
         /\ call'[c].pc = "attached" => ~call'[c].iface
         /\ call'[c].op = "tool"
         /\ call'[c].matched = FALSE /\ call'[c].sent = 0
<1> DEFINE p == IF iface THEN "waiting" ELSE "attached"
           r(e) == [Idle EXCEPT !.op = "tool", !.via = via, !.expects = e,
                                !.iface = iface, !.pc = p]
<1>1. ASSUME NEW e \in BOOLEAN
      PROVE  /\ r(e) \in CallRecord
             /\ r(e).pc = p /\ r(e).iface = iface /\ r(e).op = "tool"
             /\ r(e).matched = FALSE /\ r(e).sent = 0
  BY IdleTyped DEF CallRecord, Pcs
<1>2. \E e \in BOOLEAN : call' = [call EXCEPT ![c] = r(e)]
  BY DEF RunTool
<1> HIDE DEF r
<1> QED
  BY <1>1, <1>2, MovesTo

LEMMA AttachMoves ==
  ASSUME CallsTyped, NEW c \in Calls, Attach(c)
  PROVE  /\ OnlyMoves(c) /\ call'[c].pc = "attached" /\ call'[c].via = call[c].via
         /\ call'[c].op = call[c].op /\ call'[c].version = call[c].version
         /\ call'[c].sent = call[c].sent /\ call'[c].matched = call[c].matched
<1> DEFINE r == [call[c] EXCEPT !.pc = "attached"]
<1>1. /\ r \in CallRecord /\ r.pc = "attached" /\ r.via = call[c].via
      /\ r.op = call[c].op /\ r.version = call[c].version
      /\ r.sent = call[c].sent /\ r.matched = call[c].matched
  BY DEF CallsTyped, CallRecord, Pcs
<1>2. call' = [call EXCEPT ![c] = r]
  BY DEF Attach
<1> HIDE DEF r
<1> QED
  BY <1>1, <1>2, MovesTo

LEMMA SendMoves ==
  ASSUME CallsTyped, NEW c \in Calls, Send(c)
  PROVE  /\ OnlyMoves(c) /\ call'[c].pc = "running" /\ call'[c].sent = now
         /\ call'[c].op = call[c].op /\ call'[c].version = call[c].version
         /\ call'[c].via = call[c].via /\ call'[c].iface = call[c].iface
         /\ call'[c].matched = call[c].matched
<1> DEFINE r == [call[c] EXCEPT !.pc = "running", !.sent = now]
<1>1. /\ r \in CallRecord /\ r.pc = "running" /\ r.sent = now
      /\ r.op = call[c].op /\ r.version = call[c].version
      /\ r.via = call[c].via /\ r.iface = call[c].iface /\ r.matched = call[c].matched
  BY DEF CallsTyped, CallRecord, Pcs
<1>2. call' = [call EXCEPT ![c] = r]
  BY DEF Send, CallsTyped
<1> HIDE DEF r
<1> QED
  BY <1>1, <1>2, MovesTo

(* A call that ends takes its lock, and no other, with it. *)
LEMMA EndMoves ==
  ASSUME CallsTyped, NEW c \in Calls,
         \/ Refuse(c) \/ Broken(c) \/ GiveUp(c)
         \/ \E ok \in BOOLEAN : BookFile(c, ok) \/ BookRun(c, ok)
  PROVE  OnlyMoves(c) /\ call'[c] \in {Ended("done"), Ended("gone")}
<1>1. Ended("done") \in CallRecord /\ Ended("gone") \in CallRecord
  BY EndedTyped DEF Pcs
<1>2. call' = [call EXCEPT ![c] = Ended("done")] \/ call' = [call EXCEPT ![c] = Ended("gone")]
  BY DEF Refuse, Broken, GiveUp, BookFile, BookRun
<1> QED
  BY <1>1, <1>2, MovesTo

LEMMA ReturnMoves ==
  ASSUME CallsTyped, NEW c \in Calls, Return(c)
  PROVE  /\ OnlyMoves(c) /\ call'[c].pc \in {"polling", "booking"}
         /\ call'[c].since = SearchFrom /\ call'[c].left = Polls
         /\ call'[c].op = call[c].op /\ call'[c].version = call[c].version
         /\ call'[c].sent = call[c].sent /\ call'[c].matched = call[c].matched
<1> DEFINE k == \E a \in visible : a.by = c
           p == IF call[c].expects THEN "polling" ELSE "booking"
           r == [call[c] EXCEPT !.pc = p, !.since = SearchFrom, !.left = Polls, !.known = k]
<1>1. k \in BOOLEAN /\ p \in {"polling", "booking"} /\ SearchFrom \in Nat /\ Polls \in 0 .. Polls
  BY SearchStart, RunConstants DEF CallsTyped
<1>2. call' = [call EXCEPT ![c] = r]
  BY DEF Return, CallsTyped
<1> HIDE DEF k, p
<1>3. /\ r \in CallRecord /\ r.pc = p /\ r.since = SearchFrom /\ r.left = Polls
      /\ r.op = call[c].op /\ r.version = call[c].version
      /\ r.sent = call[c].sent /\ r.matched = call[c].matched
  BY ZenonT(60), <1>1 DEF CallsTyped, CallRecord, Pcs
<1> HIDE DEF r
<1> QED
  BY <1>1, <1>2, <1>3, MovesTo

(* A record at another point of the program, with another count of polls. *)
Left(r, p, n) == [r EXCEPT !.pc = p, !.left = n]

LEMMA LeftTyped ==
  ASSUME NEW r \in CallRecord, NEW p \in Pcs, NEW n \in 0 .. Polls,
         NEW q, q = Left(r, p, n)
  PROVE  /\ q \in CallRecord /\ q.pc = p /\ q.left = n /\ q.op = r.op
         /\ q.version = r.version /\ q.sent = r.sent /\ q.since = r.since
         /\ q.matched = r.matched
<1> DEFINE Lefts == 0 .. Polls
<1>1. n \in Lefts /\ CallRecord = [op : {"none", "create", "delete", "scenario", "tool"},
        via : Interfaces, iface : BOOLEAN, pc : Pcs, version : File, expects : BOOLEAN,
        sent : Nat, since : Nat, left : Lefts, known : BOOLEAN, matched : BOOLEAN]
  BY DEF CallRecord
<1> HIDE DEF Lefts
<1> QED
  BY <1>1 DEF Left

LEMMA PollMoves ==
  ASSUME CallsTyped, PollsLeft, NEW c \in Calls, NEW ok \in BOOLEAN, Poll(c, ok)
  PROVE  /\ OnlyMoves(c) /\ call'[c].pc \in {"polling", "booking"}
         /\ call'[c].op = call[c].op /\ call'[c].version = call[c].version
         /\ call'[c].sent = call[c].sent /\ call'[c].since = call[c].since
         /\ call'[c].pc = "polling" => call'[c].left > 0
         /\ \/ call'[c].matched = call[c].matched
            \/ call'[c].pc = "booking" /\ Found(c)
<1> DEFINE hit == [call[c] EXCEPT !.pc = "booking", !.matched = TRUE]
<1>1. /\ call[c] \in CallRecord /\ call[c].pc = "polling" /\ call[c].left > 0
      /\ call[c].left \in 0 .. Polls /\ Polls \in Nat
  BY RunConstants DEF CallsTyped, PollsLeft, Poll, CallRecord
<1>2. CASE ok /\ Found(c)
  <2>1. call' = [call EXCEPT ![c] = hit]
    BY <1>2 DEF Poll, CallsTyped
  <2>2. /\ hit \in CallRecord /\ hit.pc = "booking" /\ hit.op = call[c].op
        /\ hit.version = call[c].version /\ hit.sent = call[c].sent
        /\ hit.since = call[c].since
    BY <1>1 DEF CallRecord, Pcs
  <2> HIDE DEF hit
  <2> QED
    BY <1>2, <2>1, <2>2, MovesTo
<1>3. CASE ~(ok /\ Found(c)) /\ call[c].left = 1
  <2> DEFINE last == Left(call[c], "booking", 0)
  <2>1. call' = [call EXCEPT ![c] = last]
    BY <1>3 DEF Poll, CallsTyped, Left
  <2>2. 0 \in 0 .. Polls /\ "booking" \in Pcs
    BY <1>1 DEF Pcs
  <2>3. last = Left(call[c], "booking", 0)
    OBVIOUS
  <2> HIDE DEF last
  <2>4. /\ last \in CallRecord /\ last.pc = "booking" /\ last.op = call[c].op
        /\ last.version = call[c].version /\ last.sent = call[c].sent
        /\ last.since = call[c].since /\ last.matched = call[c].matched
    BY <1>1, <2>2, <2>3, LeftTyped
  <2> QED
    BY <2>1, <2>4, MovesTo
<1>4. CASE ~(ok /\ Found(c)) /\ call[c].left # 1
  <2> DEFINE n == call[c].left - 1
             next == Left(call[c], "polling", n)
  <2>1. call' = [call EXCEPT ![c] = next]
    <3>1. call' = [call EXCEPT ![c] = [call[c] EXCEPT !.left = n]]
      BY <1>4 DEF Poll, CallsTyped
    <3>2. [call[c] EXCEPT !.left = n] = next
      BY <1>1 DEF CallRecord, Left
    <3> QED
      BY <3>1, <3>2
  <2>2. n \in 0 .. Polls /\ n > 0 /\ "polling" \in Pcs
    BY <1>1, <1>4 DEF Pcs
  <2> HIDE DEF n
  <2>3. next = Left(call[c], "polling", n)
    OBVIOUS
  <2> HIDE DEF next
  <2>4. /\ next \in CallRecord /\ next.pc = "polling" /\ next.op = call[c].op
        /\ next.version = call[c].version /\ next.sent = call[c].sent
        /\ next.since = call[c].since /\ next.matched = call[c].matched
        /\ next.left = n
    BY <1>1, <2>2, <2>3, LeftTyped
  <2> QED
    BY <2>1, <2>2, <2>4, MovesTo
<1> QED
  BY <1>2, <1>3, <1>4

LEMMA MovingMoves ==
  ASSUME CallsTyped, PollsLeft, NEW c \in Calls, MovingStep(c)
  PROVE  OnlyMoves(c)
<1> USE DEF MovingStep
<1>1. CASE Create(c) \/ Delete(c)
  BY <1>1, CreateMoves
<1>2. CASE \E via \in Interfaces : RunScenario(c, via)
  BY <1>2, ScenarioMoves
<1>3. CASE \E via \in Interfaces, iface \in BOOLEAN : RunTool(c, via, iface)
  BY <1>3, ToolMoves
<1>4. CASE Attach(c)
  BY <1>4, AttachMoves
<1>5. CASE Send(c)
  BY <1>5, SendMoves
<1>6. CASE Return(c)
  BY <1>6, ReturnMoves
<1>7. CASE \E ok \in BOOLEAN : Poll(c, ok)
  BY <1>7, PollMoves
<1>8. CASE \/ Refuse(c) \/ Broken(c) \/ GiveUp(c)
           \/ \E ok \in BOOLEAN : BookFile(c, ok) \/ BookRun(c, ok)
  BY <1>8, EndMoves
<1> QED
  BY <1>1, <1>2, <1>3, <1>4, <1>5, <1>6, <1>7, <1>8

(* What a step of a call leaves to others. *)
LEMMA MovingKeeps ==
  ASSUME NEW c \in Calls, MovingStep(c)
  PROVE  /\ UNCHANGED <<phase, template, imported, now, visible>>
         /\ generated' \in {generated, c, None}
         /\ holder' = holder \/ holder' = Released(c)
            \/ (Attach(c) /\ holder' = [holder EXCEPT ![call[c].via] = c])
         /\ alerts' \in {alerts, alerts \cup {[at |-> now, by |-> c]}}
<1>1. UNCHANGED <<phase, template, imported, now, visible>>
  BY DEF MovingStep, Create, Delete, Refuse, GiveUp, RunScenario, RunTool, Attach,
         Send, Return, Broken, BookFile, Poll, BookRun, files
<1>2. generated' = generated \/ generated' = c \/ generated' = None
  BY DEF MovingStep, Create, Delete, Refuse, GiveUp, RunScenario, RunTool, Attach,
         Send, Return, Broken, BookFile, Poll, BookRun, files, Written, Removed
<1>3. holder' = holder \/ holder' = Released(c)
            \/ (Attach(c) /\ holder' = [holder EXCEPT ![call[c].via] = c])
  BY DEF MovingStep, Create, Delete, Refuse, GiveUp, RunScenario, RunTool, Attach,
         Send, Return, Broken, BookFile, Poll, BookRun
<1>4. alerts' = alerts \/ alerts' = alerts \cup {[at |-> now, by |-> c]}
  BY DEF MovingStep, Create, Delete, Refuse, GiveUp, RunScenario, RunTool, Attach,
         Send, Return, Broken, BookFile, Poll, BookRun
<1> QED
  BY <1>1, <1>2, <1>3, <1>4

LEMMA CrashMoves ==
  ASSUME CallsTyped, Crash
  PROVE  /\ call' \in [Calls -> CallRecord]
         /\ \A c \in Calls : call'[c] \in {Idle, Ended("gone")}
<1>1. "gone" \in Pcs
  BY DEF Pcs
<1> QED
  BY <1>1, IdleTyped, EndedTyped DEF Crash

LEMMA CallsStayTyped ==
  ASSUME CallsTyped, PollsLeft, RedTeamNext
  PROVE  CallsTyped' /\ PollsLeft'
<1>1. CASE QuietStep
  <2>1. UNCHANGED <<call, holder>>
    BY <1>1, QuietIsQuiet
  <2>2. now' \in Nat /\ generated' \in File /\ template' \in File /\ imported' \in File
    <3>1. now' = now \/ now' = now + 1
      BY <1>1 DEF QuietStep, Start, BeginCopy, EndCopy, Serve, RegisterAtStart, RunnerEnds,
         Surface, Import, OtherTraffic, KaliRestarts, Tick
    <3>2. /\ generated' = generated
          /\ template' \in {template, Torn, "template"}
          /\ imported' = imported \/ imported' \in Imported
      BY <1>1 DEF QuietStep, Start, BeginCopy, EndCopy, Serve, RegisterAtStart, RunnerEnds,
         Surface, Import, OtherTraffic, KaliRestarts, Tick, files
    <3> QED
      BY <3>1, <3>2 DEF CallsTyped, File, Versions
  <2> QED
    BY <2>1, <2>2 DEF CallsTyped, PollsLeft
<1>2. CASE Crash
  <2>1. PollsLeft'
    BY <1>2, CrashMoves, IdleTyped, EndedTyped DEF PollsLeft, Pcs
  <2>2. CallsTyped'
    BY <1>2, CrashMoves DEF CallsTyped, Crash, files
  <2> QED
    BY <2>1, <2>2
<1>3. ASSUME NEW c \in Calls, MovingStep(c) PROVE CallsTyped' /\ PollsLeft'
  <2>1. OnlyMoves(c)
    BY <1>3, MovingMoves
  <2>2. /\ now' \in Nat /\ generated' \in File /\ template' \in File /\ imported' \in File
    BY <1>3, MovingKeeps DEF CallsTyped, File, Versions
  <2>3. holder' \in [Interfaces -> Calls \cup {Nobody}]
    <3>1. Released(c) \in [Interfaces -> Calls \cup {Nobody}]
      BY DEF CallsTyped, Released
    <3> QED
      BY <1>3, <3>1, MovingKeeps DEF CallsTyped
  <2>4. call'[c].pc = "polling" => call'[c].left > 0
    <3>1. CASE Create(c) \/ Delete(c)
      BY <3>1, CreateMoves
    <3>2. CASE \E via \in Interfaces : RunScenario(c, via)
      BY <3>2, ScenarioMoves
    <3>3. CASE \E via \in Interfaces, iface \in BOOLEAN : RunTool(c, via, iface)
      BY <3>3, ToolMoves
    <3>4. CASE Attach(c)
      BY <3>4, AttachMoves DEF CallsTyped, CallRecord
    <3>5. CASE Send(c)
      BY <3>5, SendMoves DEF CallsTyped, CallRecord
    <3>6. CASE Return(c)
      BY <3>6, ReturnMoves, RunConstants
    <3>7. CASE \E ok \in BOOLEAN : Poll(c, ok)
      BY <3>7, PollMoves
    <3>8. CASE \/ Refuse(c) \/ Broken(c) \/ GiveUp(c)
               \/ \E ok \in BOOLEAN : BookFile(c, ok) \/ BookRun(c, ok)
      BY <3>8, EndMoves, EndedTyped DEF Pcs
    <3> QED
      BY <1>3, <3>1, <3>2, <3>3, <3>4, <3>5, <3>6, <3>7, <3>8 DEF MovingStep
  <2>5. PollsLeft'
    BY <2>1, <2>4 DEF OnlyMoves, PollsLeft
  <2> QED
    BY <2>1, <2>2, <2>3, <2>5 DEF OnlyMoves, CallsTyped
<1> QED
  BY <1>1, <1>2, <1>3, StepCases

(* Between attaching and the runner's answer one call of an interface is   *)
(* at work: a call gets the lock only when nobody has it.                  *)
LEMMA StaysSerialised ==
  ASSUME CallsTyped, PollsLeft, Serialised, RedTeamNext PROVE Serialised'
<1>1. CASE QuietStep
  BY <1>1, QuietIsQuiet DEF Serialised
<1>2. CASE Crash
  BY <1>2, CrashMoves, IdleTyped, EndedTyped DEF Serialised, Pcs
<1>3. ASSUME NEW c \in Calls, MovingStep(c) PROVE Serialised'
  <2>1. OnlyMoves(c)
    BY <1>3, MovingMoves
  <2>2. ASSUME NEW d \in Calls, d # c, call'[d].pc \in {"attached", "running"}, call'[d].iface
        PROVE  holder'[call'[d].via] = d
    <3>1. call'[d] = call[d] /\ call[d] \in CallRecord
      BY <2>1, <2>2 DEF OnlyMoves, CallsTyped
    <3>2. holder[call[d].via] = d /\ call[d].via \in Interfaces
      BY <2>2, <3>1 DEF Serialised, CallRecord
    <3>3. CASE holder' = holder
      BY <3>1, <3>2, <3>3
    <3>4. CASE holder' = Released(c)
      BY <2>2, <3>1, <3>2, <3>4 DEF Released
    <3>5. CASE Attach(c) /\ holder' = [holder EXCEPT ![call[c].via] = c]
      <4>1. holder[call[c].via] = Nobody
        BY <3>5 DEF Attach, Free
      <4>2. call[c].via # call[d].via
        BY <3>2, <4>1, RunConstants
      <4> QED
        BY <3>1, <3>2, <3>5, <4>2 DEF CallsTyped
    <3> QED
      BY <1>3, <3>3, <3>4, <3>5, MovingKeeps
  <2>3. ASSUME call'[c].pc \in {"attached", "running"}, call'[c].iface
        PROVE  holder'[call'[c].via] = c
    <3>1. call[c] \in CallRecord
      BY DEF CallsTyped
    <3>2. CASE Attach(c)
      <4>1. call'[c].via = call[c].via /\ call[c].via \in Interfaces
        BY <3>1, <3>2, AttachMoves DEF CallRecord
      <4>2. holder' = [holder EXCEPT ![call[c].via] = c]
        BY <3>2 DEF Attach
      <4> QED
        BY <4>1, <4>2 DEF CallsTyped
    <3>3. CASE Send(c)
      <4>1. call'[c].via = call[c].via /\ call[c].pc = "attached" /\ holder' = holder
        BY <3>3, SendMoves DEF Send
      <4>2. call[c].iface
        BY <2>3, <3>3, SendMoves
      <4> QED
        BY <4>1, <4>2 DEF Serialised
    <3>4. CASE Create(c) \/ Delete(c)
      BY <2>3, <3>4, CreateMoves
    <3>5. CASE \E via \in Interfaces : RunScenario(c, via)
      BY <2>3, <3>5, ScenarioMoves
    <3>6. CASE \E via \in Interfaces, iface \in BOOLEAN : RunTool(c, via, iface)
      BY <2>3, <3>6, ToolMoves
    <3>7. CASE Return(c)
      BY <2>3, <3>7, ReturnMoves
    <3>8. CASE \E ok \in BOOLEAN : Poll(c, ok)
      BY <2>3, <3>8, PollMoves
    <3>9. CASE \/ Refuse(c) \/ Broken(c) \/ GiveUp(c)
               \/ \E ok \in BOOLEAN : BookFile(c, ok) \/ BookRun(c, ok)
      BY <2>3, <3>9, EndMoves, EndedTyped DEF Pcs
    <3> QED
      BY <1>3, <3>2, <3>3, <3>4, <3>5, <3>6, <3>7, <3>8, <3>9 DEF MovingStep
  <2> QED
    BY <2>2, <2>3 DEF Serialised
<1> QED
  BY <1>1, <1>2, <1>3, StepCases

(* A torn template does not outlive the start, so no run loads one.        *)
LEMMA StaysWhole ==
  ASSUME CallsTyped, PollsLeft, FilesWhole, PlaysWholeFiles, RedTeamNext
  PROVE  FilesWhole' /\ PlaysWholeFiles'
<1>1. CASE QuietStep
  <2>1. PlaysWholeFiles'
    BY <1>1, QuietIsQuiet DEF PlaysWholeFiles
  <2>2. generated' = generated
    BY <1>1 DEF QuietStep, Start, BeginCopy, EndCopy, Serve, RegisterAtStart, RunnerEnds,
       Surface, Import, OtherTraffic, KaliRestarts, Tick, files
  <2>3. imported' = imported \/ imported' \in Imported
    BY <1>1 DEF QuietStep, Start, BeginCopy, EndCopy, Serve, RegisterAtStart, RunnerEnds,
       Surface, Import, OtherTraffic, KaliRestarts, Tick, files
  <2>4. \/ UNCHANGED <<phase, template>> \/ phase' = "seed" \/ phase' = "copy"
        \/ template' = "template"
        \/ phase = "register" /\ UNCHANGED template
    BY <1>1 DEF QuietStep, Start, BeginCopy, EndCopy, Serve, RegisterAtStart, RunnerEnds,
       Surface, Import, OtherTraffic, KaliRestarts, Tick, files
  <2> QED
    BY <2>1, <2>2, <2>3, <2>4, RunConstants DEF FilesWhole
<1>2. CASE Crash
  <2>1. PlaysWholeFiles'
    BY <1>2, CrashMoves, IdleTyped, EndedTyped DEF PlaysWholeFiles, Pcs
  <2>2. FilesWhole'
    BY <1>2 DEF FilesWhole, Crash, files
  <2> QED
    BY <2>1, <2>2
<1>3. ASSUME NEW c \in Calls, MovingStep(c) PROVE FilesWhole' /\ PlaysWholeFiles'
  <2>1. OnlyMoves(c)
    BY <1>3, MovingMoves
  <2>2. FilesWhole'
    BY <1>3, MovingKeeps, RunConstants DEF FilesWhole
  <2>3. ASSUME call'[c].op = "scenario" PROVE call'[c].version # Torn
    <3>1. call[c] \in CallRecord
      BY DEF CallsTyped
    <3>2. CASE \E via \in Interfaces : RunScenario(c, via)
      BY <3>2, ScenarioMoves DEF Loaded, FilesWhole
    <3>3. CASE Attach(c)
      BY <2>3, <3>3, AttachMoves DEF PlaysWholeFiles
    <3>4. CASE Send(c)
      BY <2>3, <3>4, SendMoves DEF PlaysWholeFiles
    <3>5. CASE Return(c)
      BY <2>3, <3>5, ReturnMoves DEF PlaysWholeFiles
    <3>6. CASE \E ok \in BOOLEAN : Poll(c, ok)
      BY <2>3, <3>6, PollMoves DEF PlaysWholeFiles
    <3>7. CASE Create(c) \/ Delete(c)
      BY <2>3, <3>7, CreateMoves
    <3>8. CASE \E via \in Interfaces, iface \in BOOLEAN : RunTool(c, via, iface)
      BY <2>3, <3>8, ToolMoves
    <3>9. CASE \/ Refuse(c) \/ Broken(c) \/ GiveUp(c)
               \/ \E ok \in BOOLEAN : BookFile(c, ok) \/ BookRun(c, ok)
      BY <2>3, <3>9, EndMoves, EndedTyped DEF Pcs
    <3> QED
      BY <1>3, <3>2, <3>3, <3>4, <3>5, <3>6, <3>7, <3>8, <3>9 DEF MovingStep
  <2> QED
    BY <2>1, <2>2, <2>3 DEF PlaysWholeFiles, OnlyMoves
<1> QED
  BY <1>1, <1>2, <1>3, StepCases

(* A row of redteam_results, once the call it is of is booked. *)
LEMMA NewResult ==
  ASSUME NEW c \in Calls, NEW ok \in BOOLEAN, BookRun(c, ok), NEW r \in results' \ results
  PROVE  r.sent = call[c].sent /\ (r.detected = "yes" => call[c].matched)
<1>1. r = Result(c)
  BY DEF BookRun
<1>2. r.sent = call[c].sent
  BY <1>1 DEF Result
<1>3. r.detected = IF call[c].expects THEN IF call[c].matched THEN "yes" ELSE "no" ELSE "null"
  BY <1>1 DEF Result
<1> QED
  BY <1>2, <1>3

LEMMA ResultsBooked ==
  ASSUME RedTeamNext, results' # results
  PROVE  \E c \in Calls, ok \in BOOLEAN : BookRun(c, ok)
<1>1. CASE QuietStep
  BY <1>1, QuietIsQuiet
<1>2. CASE Crash
  BY <1>2 DEF Crash
<1>3. ASSUME NEW c \in Calls, MovingStep(c), \A ok \in BOOLEAN : ~BookRun(c, ok)
      PROVE  results' = results
  BY <1>3 DEF MovingStep, Create, Delete, Refuse, GiveUp, RunScenario, RunTool, Attach,
         Send, Return, Broken, BookFile, Poll
<1> QED
  BY <1>1, <1>2, <1>3, StepCases

(* Time, alerts and what the api answers with only grow. *)
LEMMA OnlyGrows ==
  ASSUME CallsTyped, SearchInTime, RedTeamNext
  PROVE  /\ now' >= now /\ visible \subseteq visible' /\ visible' \subseteq alerts'
         /\ \A a \in alerts' : a.at \in Nat
<1>0. now \in Nat
  BY DEF CallsTyped
<1>1. CASE QuietStep
  <2>1. /\ now' = now \/ now' = now + 1
        /\ visible' = visible \/ \E a \in alerts : visible' = visible \cup {a}
        /\ alerts' = alerts \/ alerts' = alerts \cup {[at |-> now, by |-> Nobody]}
    BY <1>1 DEF QuietStep, Start, BeginCopy, EndCopy, Serve, RegisterAtStart, RunnerEnds,
       Surface, Import, OtherTraffic, KaliRestarts, Tick
  <2>2. now' >= now
    BY <1>0, <2>1
  <2>3. visible \subseteq visible' /\ visible' \subseteq alerts'
    BY <2>1 DEF SearchInTime
  <2>4. \A a \in alerts' : a.at \in Nat
    BY <1>0, <2>1 DEF SearchInTime
  <2> QED
    BY <2>2, <2>3, <2>4
<1>2. CASE Crash
  BY <1>0, <1>2 DEF Crash, SearchInTime
<1>3. ASSUME NEW c \in Calls, MovingStep(c)
      PROVE  /\ now' >= now /\ visible \subseteq visible' /\ visible' \subseteq alerts'
             /\ \A a \in alerts' : a.at \in Nat
  <2>1. now' = now /\ visible' = visible
        /\ (alerts' = alerts \/ alerts' = alerts \cup {[at |-> now, by |-> c]})
    BY <1>3, MovingKeeps
  <2>2. \A a \in alerts' : a.at \in Nat
    BY <1>0, <2>1 DEF SearchInTime
  <2> QED
    BY <1>0, <2>1, <2>2 DEF SearchInTime
<1> QED
  BY <1>1, <1>2, <1>3, StepCases

(* Of one call: the clauses of SearchInTime and MatchFounded. *)
Search(c) ==
  /\ call[c].sent <= now
  /\ call[c].pc = "polling" => call[c].since + Tolerance >= call[c].sent
Match(c) ==
  call[c].matched => /\ call[c].pc = "booking"
                     /\ \E a \in visible : a.at + Tolerance >= call[c].sent

(* The search of a run starts from its end, so not earlier than the        *)
(* tolerance before it sent; what it finds is recent enough.               *)
LEMMA StaysInTime ==
  ASSUME CallsTyped, PollsLeft, SearchInTime, MatchFounded, RedTeamNext
  PROVE  SearchInTime' /\ MatchFounded'
<1>0. now \in Nat /\ now' \in Nat /\ now' >= now /\ visible \subseteq visible'
  BY CallsStayTyped, OnlyGrows DEF CallsTyped
<1>1. ASSUME NEW d \in Calls, call'[d] = call[d] PROVE Search(d)' /\ Match(d)'
  <2>1. call[d].sent \in Nat /\ call[d].sent <= now
    BY DEF CallsTyped, CallRecord, SearchInTime
  <2>2. Search(d)'
    BY <1>0, <1>1, <2>1 DEF Search, SearchInTime
  <2>3. Match(d)'
    BY <1>0, <1>1 DEF Match, MatchFounded
  <2> QED
    BY <2>2, <2>3
<1>2. ASSUME NEW d \in Calls, call'[d].matched = FALSE, call'[d].sent = 0,
             call'[d].pc # "polling"
      PROVE  Search(d)' /\ Match(d)'
  BY <1>0, <1>2 DEF Search, Match
<1>3. \A d \in Calls : Search(d)' /\ Match(d)'
  <2>1. CASE QuietStep
    BY <1>1, <2>1, QuietIsQuiet
  <2>2. CASE Crash
    BY <1>2, <2>2, CrashMoves, IdleTyped, EndedTyped DEF Pcs
  <2>3. ASSUME NEW c \in Calls, MovingStep(c) PROVE Search(c)' /\ Match(c)'
    <3>1. /\ call[c] \in CallRecord /\ call[c].sent \in Nat /\ call[c].sent <= now
          /\ call[c].matched => call[c].pc = "booking"
      BY DEF CallsTyped, CallRecord, SearchInTime, MatchFounded
    <3>2. CASE Create(c) \/ Delete(c)
      BY <1>2, <3>2, CreateMoves
    <3>3. CASE \E via \in Interfaces : RunScenario(c, via)
      BY <1>2, <3>3, ScenarioMoves
    <3>4. CASE \E via \in Interfaces, iface \in BOOLEAN : RunTool(c, via, iface)
      BY <1>2, <3>4, ToolMoves
    <3>5. CASE \/ Refuse(c) \/ Broken(c) \/ GiveUp(c)
               \/ \E ok \in BOOLEAN : BookFile(c, ok) \/ BookRun(c, ok)
      BY <1>2, <3>5, EndMoves, EndedTyped DEF Pcs
    <3>6. CASE Attach(c)
      <4>1. call[c].pc = "waiting" /\ call'[c].pc = "attached" /\ call'[c].sent = call[c].sent
        BY <3>6, AttachMoves DEF Attach
      <4>2. ~call'[c].matched
        BY <3>1, <3>6, <4>1, AttachMoves
      <4> QED
        BY <1>0, <3>1, <4>1, <4>2 DEF Search, Match
    <3>7. CASE Send(c)
      <4>1. call[c].pc = "attached" /\ call'[c].pc = "running" /\ call'[c].sent = now
        BY <3>7, SendMoves DEF Send
      <4>2. ~call'[c].matched
        BY <3>1, <3>7, <4>1, SendMoves
      <4> QED
        BY <1>0, <4>1, <4>2 DEF Search, Match
    <3>8. CASE Return(c)
      <4>1. call[c].pc = "running" /\ call'[c].sent = call[c].sent /\ call'[c].since = SearchFrom
        BY <3>8, ReturnMoves DEF Return
      <4>2. ~call'[c].matched
        BY <3>1, <3>8, <4>1, ReturnMoves
      <4>3. call'[c].since + Tolerance >= call'[c].sent
        BY <1>0, <3>1, <4>1, SearchStart, RunConstants
      <4> QED
        BY <1>0, <3>1, <4>1, <4>2, <4>3 DEF Search, Match
    <3>9. CASE \E ok \in BOOLEAN : Poll(c, ok)
      <4>1. /\ call[c].pc = "polling" /\ call'[c].sent = call[c].sent
            /\ call'[c].since = call[c].since
            /\ call[c].since + Tolerance >= call[c].sent
        BY <3>9, PollMoves DEF Poll, SearchInTime
      <4>2. Search(c)'
        BY <1>0, <3>1, <4>1 DEF Search
      <4>3. ASSUME call'[c].matched
            PROVE  call'[c].pc = "booking" /\ Found(c)
        BY <3>1, <3>9, <4>1, <4>3, PollMoves
      <4>4. ASSUME Found(c) PROVE \E a \in visible' : a.at + Tolerance >= call'[c].sent
        <5>1. PICK a \in visible : a.at >= call[c].since
          BY <4>4 DEF Found
        <5>2. a.at \in Nat /\ call[c].since \in Nat /\ a \in visible'
          BY <1>0, <3>1 DEF SearchInTime, CallRecord
        <5>3. a.at + Tolerance >= call[c].sent
          BY <3>1, <4>1, <5>1, <5>2, RunConstants
        <5> QED
          BY <4>1, <5>2, <5>3
      <4> QED
        BY <4>2, <4>3, <4>4 DEF Match
    <3> QED
      BY <2>3, <3>2, <3>3, <3>4, <3>5, <3>6, <3>7, <3>8, <3>9 DEF MovingStep
  <2>4. ASSUME NEW c \in Calls, MovingStep(c) PROVE \A d \in Calls : Search(d)' /\ Match(d)'
    BY <1>1, <2>3, <2>4, MovingMoves DEF OnlyMoves
  <2> QED
    BY <2>1, <2>2, <2>4, StepCases
<1>4. (\A a \in alerts' : a.at \in Nat) /\ visible' \subseteq alerts'
  BY OnlyGrows
<1> QED
  BY <1>3, <1>4 DEF SearchInTime, MatchFounded, Search, Match

LEMMA StaysHonest ==
  ASSUME RunInv, RedTeamNext PROVE OldHitsDoNotCount'
<1>0. visible \subseteq visible'
  BY OnlyGrows DEF RunInv
<1>1. ASSUME NEW r \in results', r.detected = "yes"
      PROVE  \E a \in visible : a.at + Tolerance >= r.sent
  <2>1. CASE r \in results
    BY <1>1, <2>1 DEF RunInv, OldHitsDoNotCount
  <2>2. CASE r \notin results
    <3>1. PICK c \in Calls, ok \in BOOLEAN : BookRun(c, ok)
      BY <2>2, ResultsBooked
    <3>2. r.sent = call[c].sent /\ call[c].matched
      BY <1>1, <2>2, <3>1, NewResult
    <3> QED
      BY <3>2 DEF RunInv, MatchFounded
  <2> QED
    BY <2>1, <2>2
<1> QED
  BY <1>0, <1>1 DEF OldHitsDoNotCount

LEMMA RunStep == RunInv /\ [RedTeamNext]_vars => RunInv'
<1>1. ASSUME RunInv, RedTeamNext PROVE RunInv'
  BY <1>1, CallsStayTyped, StaysSerialised, StaysWhole, StaysInTime, StaysHonest DEF RunInv
<1>2. ASSUME RunInv, UNCHANGED vars PROVE RunInv'
  BY <1>2 DEF vars, files, RunInv, CallsTyped, PollsLeft, FilesWhole, SearchInTime,
     MatchFounded, Serialised, PlaysWholeFiles, OldHitsDoNotCount
<1> QED
  BY <1>1, <1>2

LEMMA RunInvariant == RedTeamSpec => []RunInv
BY RunInitially, RunStep, PTL DEF RedTeamSpec

(* A run of the redteam orchestrator is the only one of its interface at   *)
(* the veth pair, plays no half-written scenario, and is not recorded as   *)
(* detected for an alert older than the tolerance before it sent.          *)
THEOREM RunsHonest == RedTeamSpec => []RunsAreHonest
<1>1. RunInv => RunsAreHonest
  BY DEF RunInv, RunsAreHonest
<1> QED
  BY <1>1, RunInvariant, PTL
=============================================================================
