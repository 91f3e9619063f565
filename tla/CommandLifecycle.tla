-------------------------- MODULE CommandLifecycle --------------------------
(***************************************************************************)
(* What command-service promises of a remote job, without requests, locks, *)
(* clocks, leases or tokens: it is submitted once, offered to its device   *)
(* at most once, ends at most once, and its device's report is on record   *)
(* exactly when that report ended it.                                      *)
(***************************************************************************)
CONSTANT Command

VARIABLES
    phase,            \* where each job is
    report            \* the verdicts its device has on record

lifecycle == <<phase, report>>

Verdict == {"succeeded", "failed"}
Phase == {"unborn", "waiting", "offered", "withdrawn", "lapsed"} \cup Verdict

LInit ==
    /\ phase = [c \in Command |-> "unborn"]
    /\ report = [c \in Command |-> {}]

Submit(c) ==
    /\ phase[c] = "unborn"
    /\ phase' = [phase EXCEPT ![c] = "waiting"]
    /\ UNCHANGED report

\* One poll of a device: the jobs in `offered` go to it, those in `lapsed`
\* were too old.
Poll(offered, lapsed) ==
    /\ \A c \in offered \cup lapsed : phase[c] = "waiting"
    /\ phase' = [c \in Command |-> IF c \in lapsed THEN "lapsed"
                                   ELSE IF c \in offered THEN "offered"
                                   ELSE phase[c]]
    /\ UNCHANGED report

Conclude(c, verdict) ==
    /\ phase[c] = "offered"
    /\ phase' = [phase EXCEPT ![c] = verdict]
    /\ report' = [report EXCEPT ![c] = {verdict}]

Withdraw(c) ==
    /\ phase[c] \in {"waiting", "offered"}
    /\ phase' = [phase EXCEPT ![c] = "withdrawn"]
    /\ UNCHANGED report

LNext ==
    \/ \E c \in Command :
          \/ Submit(c)
          \/ Withdraw(c)
          \/ \E verdict \in Verdict : Conclude(c, verdict)
    \/ \E offered, lapsed \in SUBSET Command : Poll(offered, lapsed)

LSpec == LInit /\ [][LNext]_lifecycle
=============================================================================
