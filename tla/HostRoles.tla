------------------------------ MODULE HostRoles ------------------------------
(***************************************************************************)
(* One role of one host, from the flows that show it to the JSON of        *)
(* host_info.detected_roles: the tap condenses its flows (tap-uplink       *)
(* host_profiler.py) into a frame, the master stores it                    *)
(* (tap_host_profiles), the detector takes it and its own flows together   *)
(* once per cycle (host-role-detector: aggregator.py, matcher.py, db.py,   *)
(* main.py), and the operator corrects the outcome (api routers/hosts.py). *)
(* Roles of a host are independent, and so are hosts.                      *)
(*                                                                         *)
(* Whether the ports seen amount to the role (match_role) is an input:     *)
(* the host serves the ports of the role, or others.  Time counts days.    *)
(***************************************************************************)
EXTENDS Integers, Sequences

CONSTANTS
  TapWindow,       \* HOST_PROFILE_WINDOW_S
  MasterWindow,    \* DETECT_WINDOW_DAYS
  StaleDays,           \* ROLE_STALE_DAYS
  MaxDelay,        \* days a frame may wait in the outage buffer of the tap
  MaxFrames, MaxDay, MaxCorrections, MaxRestarts     \* bounds

RolesAssumption ==
  {TapWindow, MasterWindow, StaleDays, MaxDelay, MaxFrames, MaxDay, MaxCorrections, MaxRestarts}
    \subseteq Nat

Never == -1
NoEntry == [source |-> "none", confirmed |-> Never]
NoRow == [known |-> FALSE, entry |-> NoEntry, lock |-> "none"]

VARIABLES
  day,
  slot,       \* tap: last flow to the role's ports, last flow at all (Never: no slot)
  frames,     \* profiles on their way: the days they were emitted
  profile,    \* tap_host_profiles.updated_at, or Never
  own,        \* last flow of the role in the flows of the master, or Never
  roles,      \* host_info: whether there is a row, entry of the role, manual lock
  detector, found,  \* the detector, and what it knows of the host in this cycle
  corrections, restarts,
  served,     \* last day the host served the role (history)
  cycled      \* a cycle is over today, and nobody edited since (history)

rolesVars == <<day, slot, frames, profile, own, roles, detector, found, corrections, restarts, served, cycled>>
tapVars == <<slot, frames, profile, own, served, restarts>>

NoSlot == [port |-> Never, seen |-> Never]

RolesInit ==
  /\ day = 0 /\ slot = NoSlot /\ frames = <<>> /\ profile = Never /\ own = Never
  /\ roles = NoRow /\ detector = "idle" /\ found = "nothing"
  /\ corrections = 0 /\ restarts = 0 /\ served = Never /\ cycled = FALSE

WithinDays(t, window) == t # Never /\ t >= day - window

-----------------------------------------------------------------------------
\* HostProfiler._ingest: an answered flow to the ports, ...
TapFlow ==
  /\ slot' = [port |-> day, seen |-> day] /\ served' = day
  /\ UNCHANGED <<day, frames, profile, own, roles, detector, found, corrections, restarts, cycled>>

\* ... and one of the host as a client, which keeps its slot alive only.
ClientFlow ==
  /\ slot # NoSlot
  /\ slot' = [slot EXCEPT !.seen = day]
  /\ UNCHANGED <<day, frames, profile, own, roles, detector, found, corrections, restarts, served, cycled>>

\* Bug: ports stay as long as their host does.
KeptPortsAll == WithinDays(slot.seen, TapWindow)

\* snapshot: a port is reported while it was served within the window.
KeptPorts == WithinDays(slot.seen, TapWindow) /\ WithinDays(slot.port, TapWindow)

\* snapshot and emit_loop: what is out of the window is dropped, the rest pushed
\* to the outage buffer.
EmitProfile ==
  /\ slot.seen # Never /\ (KeptPorts => Len(frames) < MaxFrames)
  /\ frames' = IF KeptPorts THEN Append(frames, day) ELSE frames
  /\ slot' = IF ~WithinDays(slot.seen, TapWindow) THEN NoSlot
             ELSE IF KeptPorts THEN slot ELSE [slot EXCEPT !.port = Never]
  /\ UNCHANGED <<day, profile, own, roles, detector, found, corrections, restarts, served, cycled>>

\* upsert_host_profile: updated_at is the time of arrival.  A lost
\* acknowledgement has the frame come once more.
StoreProfile(again) ==
  /\ frames # <<>>
  /\ profile' = day
  /\ frames' = IF again THEN frames ELSE Tail(frames)
  /\ UNCHANGED <<day, slot, own, roles, detector, found, corrections, restarts, served, cycled>>

\* The tap starts anew: its slots are in memory only.
RestartTap ==
  /\ restarts < MaxRestarts /\ slot # NoSlot
  /\ restarts' = restarts + 1 /\ slot' = NoSlot
  /\ UNCHANGED <<day, frames, profile, own, roles, detector, found, corrections, served, cycled>>

\* A flow of the role in the master's own table.
MasterFlow ==
  /\ own' = day /\ served' = day
  /\ UNCHANGED <<day, slot, frames, profile, roles, detector, found, corrections, restarts, cycled>>

-----------------------------------------------------------------------------
\* Bug: profiles of taps count whatever their age.
RecentAlways(t) == t # Never

\* The windows of served_ports and tap_profiles.
Recent(t) == WithinDays(t, MasterWindow)

\* build_profiles: the host shows the role, serves other ports, or nothing.
Aggregate(others) ==
  /\ detector = "idle" /\ detector' = "host" /\ cycled' = FALSE
  /\ found' = IF Recent(own) \/ Recent(profile) THEN "role" ELSE IF others THEN "other" ELSE "nothing"
  /\ UNCHANGED <<day, tapVars, roles, corrections>>

\* _is_manual.
Manual(r) == r.entry.source = "manual" \/ r.lock = "locked"

\* Bug: what is suppressed is detected again.
DetectedAgain(r) ==
  IF Manual(r) THEN r.entry
  ELSE IF found = "role" THEN [source |-> "auto", confirmed |-> day] ELSE NoEntry

\* build_detected_roles, on what the row holds.
Detected(r) ==
  IF Manual(r) THEN r.entry
  ELSE IF found = "role" /\ r.lock # "suppressed" THEN [source |-> "auto", confirmed |-> day]
  ELSE NoEntry

\* Bug: nothing is taken away from a host that serves nothing any more.
AgedNever(r) == r.entry

\* prune_auto_roles: an entry without a date stays.
Aged(r) ==
  IF ~Manual(r) /\ r.entry.confirmed # Never /\ r.entry.confirmed < day - StaleDays
  THEN NoEntry ELSE r.entry

\* update_detected_roles, the row being there: read and written under its lock.
EvaluateHost ==
  /\ detector = "host" /\ (found = "nothing" \/ roles.known)
  /\ roles' = [roles EXCEPT !.entry = IF found = "nothing" THEN Aged(roles) ELSE Detected(roles)]
  /\ detector' = "idle" /\ cycled' = TRUE
  /\ UNCHANGED <<day, tapVars, found, corrections>>

\* There is no row, so none is locked ...
FindNoRow ==
  /\ detector = "host" /\ found # "nothing" /\ ~roles.known
  /\ detector' = "insert"
  /\ UNCHANGED <<day, tapVars, roles, found, corrections, cycled>>

\* ... and the outcome for an empty row is inserted, or replaces what has come
\* into being meanwhile, its manual block included (ON CONFLICT DO UPDATE).
InsertRow ==
  /\ detector = "insert"
  /\ roles' = [known |-> TRUE, entry |-> Detected(NoRow), lock |-> "none"]
  /\ detector' = "idle" /\ cycled' = TRUE
  /\ UNCHANGED <<day, tapVars, found, corrections>>

-----------------------------------------------------------------------------
EditRow(r) ==
  /\ corrections < MaxCorrections
  /\ corrections' = corrections + 1 /\ roles' = r /\ cycled' = FALSE
  /\ UNCHANGED <<day, tapVars, detector, found>>

\* create_host, or enrichment-service meeting the address.
CreateRow == ~roles.known /\ EditRow([NoRow EXCEPT !.known = TRUE])

\* The four actions of update_host_roles.
SetRole == roles.known /\ EditRow([roles EXCEPT !.entry.source = "manual", !.lock = "locked"])

ResetRole ==
  /\ roles.known /\ roles.lock # "none"
  /\ EditRow([roles EXCEPT !.entry.source = IF roles.entry = NoEntry THEN "none" ELSE "auto",
                         !.lock = "none"])

RemoveRole == roles.known /\ EditRow([roles EXCEPT !.entry = NoEntry, !.lock = "none"])
SuppressRole == roles.known /\ EditRow([roles EXCEPT !.entry = NoEntry, !.lock = "suppressed"])

DeleteRow == roles.known /\ EditRow(NoRow)

\* A day passes: no frame waits longer than MaxDelay, a cycle does not last a day.
RolesTick ==
  /\ day < MaxDay /\ detector = "idle"
  /\ \A i \in DOMAIN frames : day < frames[i] + MaxDelay
  /\ day' = day + 1 /\ cycled' = FALSE
  /\ UNCHANGED <<tapVars, roles, detector, found, corrections>>

RolesNext ==
  \/ TapFlow \/ ClientFlow \/ EmitProfile \/ RestartTap \/ MasterFlow
  \/ \E again \in BOOLEAN : StoreProfile(again)
  \/ \E others \in BOOLEAN : Aggregate(others)
  \/ EvaluateHost \/ FindNoRow \/ InsertRow
  \/ CreateRow \/ SetRole \/ ResetRole \/ RemoveRole \/ SuppressRole \/ DeleteRow
  \/ RolesTick

RolesSpec == RolesInit /\ [][RolesNext]_rolesVars

-----------------------------------------------------------------------------
RolesTypeOK ==
  /\ roles.entry.source \in {"none", "auto", "manual"}
  /\ roles.lock \in {"none", "locked", "suppressed"}
  /\ ~roles.known => roles = NoRow
  /\ detector \in {"idle", "host", "insert"}

\* A role that the detector holds, and dates, has been served within the sum of
\* what its stations allow: the window of the tap, the wait for the uplink, the
\* window of the master and the time until a role counts as stale
\* (host_profiler.py:160-181, master-uplink main.py:376-404, db.py:144-184,
\* matcher.py:222-263).
RoleBacked ==
  cycled /\ roles.entry.source = "auto" /\ roles.entry.confirmed # Never =>
    served # Never /\ day - served <= TapWindow + MaxDelay + MasterWindow + StaleDays

\* On a row that was there when the detector looked, a role the operator has set
\* stays and one he has suppressed does not come back (matcher.py:142-196,
\* db.py:241-251).
LockRespected ==
  [][corrections' = corrections /\ detector = "host" /\ roles.lock # "none"
     => roles'.lock = roles.lock /\ roles'.entry = roles.entry]_rolesVars

\* A role a host shows is backed by ports served within the windows, and a role
\* the operator has set or suppressed is not overwritten: all of the above.
HostRolesOK == [](RolesTypeOK /\ RoleBacked) /\ LockRespected

\* What db.py:245-251 says of every write: a manual edit that falls into a cycle
\* is not overwritten with the state before it.
EditSurvivesCycle ==
  [][corrections' = corrections /\ roles.lock # "none" => roles'.lock = roles.lock]_rolesVars

\* What hosts.py:469-470 says of a lock that is lifted: "nächster
\* Detektor-Cycle übernimmt die Rolle wieder".
ResetTakenOver == cycled /\ roles.entry.source = "auto" => roles.entry.confirmed # Never
=============================================================================
