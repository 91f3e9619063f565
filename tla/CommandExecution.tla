-------------------------- MODULE CommandExecution --------------------------
(***************************************************************************)
(* What command-service and a device's agent together promise of a remote  *)
(* job, without requests, a spool, retries or restarts: the device gets it *)
(* with the one offer or never, begins it once at most and only while it   *)
(* is offered, and only the verdict of that execution is recorded.         *)
(***************************************************************************)
EXTENDS CommandLifecycle

VARIABLE
    device            \* what the device has of each job, and then its verdict

execution == <<lifecycle, device>>

XInit == LInit /\ device = [c \in Command |-> "idle"]

\* A poll whose answer tells the device of `given`; it may be lost.
Offer(offered, lapsed, given) ==
    /\ Poll(offered, lapsed)
    /\ given \subseteq offered
    /\ device' = [c \in Command |-> IF c \in given THEN "given" ELSE device[c]]

Begin(c) ==
    /\ phase[c] = "offered" /\ device[c] = "given"
    /\ device' = [device EXCEPT ![c] = "busy"]
    /\ UNCHANGED lifecycle

\* The device gives up jobs, begun or not; they are not given to it again.
Drop(jobs) ==
    /\ \A c \in jobs : device[c] \in {"given", "busy"}
    /\ device' = [c \in Command |-> IF c \in jobs THEN "idle" ELSE device[c]]
    /\ UNCHANGED lifecycle

Perform(c, verdict) ==
    /\ device[c] = "busy"
    /\ device' = [device EXCEPT ![c] = verdict]
    /\ UNCHANGED lifecycle

Settle(c, verdict) ==
    /\ device[c] = verdict
    /\ Conclude(c, verdict)
    /\ UNCHANGED device

XNext ==
    \/ \E offered, lapsed, given \in SUBSET Command : Offer(offered, lapsed, given)
    \/ \E jobs \in SUBSET Command : Drop(jobs)
    \/ \E c \in Command :
          \/ (Submit(c) \/ Withdraw(c)) /\ UNCHANGED device
          \/ Begin(c)
          \/ \E verdict \in Verdict : Perform(c, verdict) \/ Settle(c, verdict)

XSpec == XInit /\ [][XNext]_execution
=============================================================================
