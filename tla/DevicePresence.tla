---------------------------- MODULE DevicePresence ----------------------------
(***************************************************************************)
(* agent-control-service holds which devices are online.  A heartbeat says *)
(* so, a sweep takes it back when heartbeats stay away; both read the rows *)
(* without a lock, decide, and commit the columns they change.             *)
(* A device is first seen by its first heartbeat; no code disables one.    *)
(***************************************************************************)
EXTENDS DeviceEdge

CONSTANTS
    Beat,           \* heartbeats on their way at a time (bound)
    OfflineTimeout  \* offline_timeout_seconds

ASSUME OfflineAssumption == OfflineTimeout \in Nat

VARIABLES
    sessions,       \* table device_sessions: state, and time since last_seen_at
    announced,      \* per device the last event in the outbox (history)
    beat,           \* what the handler of each heartbeat remembers
    sweep           \* what the offline worker remembers

presenceVars == <<sessions, announced, beat, sweep>>

NoBeat == [at |-> "none"]
NoSweep == [at |-> "none", stale |-> {}]

PresenceInit ==
    /\ sessions = [d \in Device |-> [state |-> "absent", seen |-> 0]]
    /\ announced = [d \in Device |-> "absent"]
    /\ beat = [b \in Beat |-> NoBeat]
    /\ sweep = NoSweep

Announce(d, state) == announced' = [announced EXCEPT ![d] = state]

-----------------------------------------------------------------------------
(* A heartbeat *)

\* The edge admits the request and forwards it with the certificate's identity.
SendBeat(b, i) ==
    /\ beat[b] = NoBeat
    /\ Exists(i) /\ Admits(i)
    /\ beat' = [beat EXCEPT ![b] = [at |-> "admitted", certificate |-> i,
                                    device |-> certificates[i].device, age |-> 0]]
    /\ UNCHANGED <<sessions, announced, sweep>>

\* now is read, then the row.
ReadSession(b) ==
    /\ beat[b].at = "admitted"
    /\ beat' = [beat EXCEPT ![b] = [at |-> "read", device |-> beat[b].device, age |-> 0,
                                    saw |-> sessions[beat[b].device].state]]
    /\ UNCHANGED <<sessions, announced, sweep>>

\* Mutant: state is written in any case.
Record_EveryColumn(b) ==
    LET d == beat[b].device
        saw == beat[b].saw
    IN  /\ beat[b].at = "read"
        /\ saw = "absent" => sessions[d].state = "absent"
        /\ sessions' = [sessions EXCEPT ![d] = [state |-> "online", seen |-> beat[b].age]]
        /\ IF saw = "online" THEN UNCHANGED announced ELSE Announce(d, "online")
        /\ beat' = [beat EXCEPT ![b] = NoBeat]
        /\ UNCHANGED sweep

\* apply_heartbeat commits.  state is written, and device.online announced, only
\* if it was not read as online; a second first heartbeat fails on its key.
Record(b) ==
    LET d == beat[b].device
        saw == beat[b].saw
    IN  /\ beat[b].at = "read"
        /\ saw = "absent" => sessions[d].state = "absent"
        /\ sessions' = [sessions EXCEPT
                ![d] = [state |-> IF saw = "online" THEN @.state ELSE "online",
                        seen |-> beat[b].age]]
        /\ IF saw = "online" THEN UNCHANGED announced ELSE Announce(d, "online")
        /\ beat' = [beat EXCEPT ![b] = NoBeat]
        /\ UNCHANGED sweep

\* The request is refused, lost, or ends with its process.
BeatFails(b) ==
    /\ beat[b] # NoBeat
    /\ beat' = [beat EXCEPT ![b] = NoBeat]
    /\ UNCHANGED <<sessions, announced, sweep>>

-----------------------------------------------------------------------------
(* The offline worker *)

SweepRead ==
    /\ sweep = NoSweep
    /\ sweep' = [at |-> "read", stale |->
           {d \in Device : sessions[d].state = "online" /\ sessions[d].seen > OfflineTimeout}]
    /\ UNCHANGED <<sessions, announced, beat>>

\* mark_stale_devices_offline commits, heartbeats recorded meanwhile or not.
SweepCommit ==
    /\ sweep.at = "read"
    /\ sessions' = [d \in Device |->
           IF d \in sweep.stale THEN [sessions[d] EXCEPT !.state = "offline"] ELSE sessions[d]]
    /\ announced' = [d \in Device |-> IF d \in sweep.stale THEN "offline" ELSE announced[d]]
    /\ sweep' = NoSweep
    /\ UNCHANGED beat

\* The worker dies before its commit and is started again.
SweepFails ==
    /\ sweep.at = "read"
    /\ sweep' = NoSweep
    /\ UNCHANGED <<sessions, announced, beat>>

BeatStep(b) == ReadSession(b) \/ Record(b) \/ BeatFails(b)

PresenceStep ==
    \/ \E b \in Beat : BeatStep(b)
    \/ SweepRead \/ SweepCommit \/ SweepFails

PresenceTick ==
    /\ sessions' = [d \in Device |->
           [sessions[d] EXCEPT !.seen = IF sessions[d].state = "absent" THEN 0
                                        ELSE Older(@, OfflineTimeout + 1)]]
    /\ beat' = [b \in Beat |->
           IF beat[b].at = "read" THEN [beat[b] EXCEPT !.age = Older(@, OfflineTimeout + 1)]
           ELSE beat[b]]
    /\ UNCHANGED <<announced, sweep>>

-----------------------------------------------------------------------------
\* What was announced last of a device is what the table says of it, however
\* heartbeats and sweeps overlap: state changes only together with its event
\* (apply_heartbeat, mark_stale_devices_offline).  The last is the one committed
\* last.
StateIsAnnounced == \A d \in Device : announced[d] = sessions[d].state
=============================================================================
