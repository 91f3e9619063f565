----------------------------- MODULE AgentUpdate -----------------------------
(***************************************************************************)
(* The updater of the Windows agent.  `itguardian-agent update` downloads  *)
(* a release next to the executable and starts a copy of itself, the       *)
(* helper, which stops the service, swaps the executables, starts the      *)
(* service and waits for the new agent's health marker until a deadline:   *)
(* then it removes the old executable, or else puts it back.               *)
(*                                                                         *)
(* Every rename, stop and start is a step of its own and may fail; power   *)
(* may be lost between any two.  A file is the version it contains.  A     *)
(* second `update` may run beside the helper of the first one.             *)
(***************************************************************************)
EXTENDS Integers

CONSTANTS
    Release,          \* versions, later ones greater
    Installed         \* the one the device was set up with

ASSUME ReleaseAssumption == Release \subseteq Nat \ {0} /\ Installed \in Release

VARIABLES
    disk,             \* the executables and the health marker
    running,          \* the version of the service's process
    died,             \* history: it ended by itself, and was not started or stopped since
    proven,           \* history: the versions that completed a cycle
    cli,              \* the `update` process
    helper            \* the `apply-update` process

updaterVars == <<disk, running, died, proven, cli, helper>>

None == 0
File == Release \cup {None}

CliSteps == {"none", "stage", "copy", "launch"}
HelperSteps == {"none", "begin", "stop", "activate", "swap", "start", "watch", "evaluate",
                "tidy", "restore", "restart"}

\* How the helper ended: with an action, committed or rolled back, or without.
Troubles == {"none", "control", "rename", "refused", "in use", "late", "power"}

UpdaterTypeOK ==
    /\ disk \in [current : File, staged : File, previous : File, failed : File, healthy : BOOLEAN]
    /\ running \in File /\ died \in BOOLEAN
    /\ proven \subseteq Release
    /\ cli \in [at : CliSteps, image : File]
    /\ helper \in [at : HelperSteps, due : BOOLEAN, forced : BOOLEAN, trouble : Troubles]

NoCli == [at |-> "none", image |-> None]
NoHelper == [at |-> "none", due |-> FALSE, forced |-> FALSE, trouble |-> "none"]

UpdaterInit ==
    /\ disk = [current |-> Installed, staged |-> None, previous |-> None, failed |-> None,
               healthy |-> FALSE]
    /\ running = None /\ died = FALSE
    /\ proven = {Installed}
    /\ cli = NoCli
    /\ helper = NoHelper

-----------------------------------------------------------------------------
(* PrepareUpdate: the `update` process *)

CliEnds == cli' = NoCli

\* It refuses to start while the executable of an undecided update is there.
CliStart ==
    /\ cli.at = "none" /\ disk.current # None
    /\ disk.previous = None
    /\ cli' = [at |-> "stage", image |-> disk.current]
    /\ UNCHANGED <<disk, running, died, proven, helper>>

\* Stage: a verified release, later than the process's own version.
Stage(v) ==
    /\ cli.at = "stage"
    /\ v > cli.image
    /\ disk' = [disk EXCEPT !.staged = v]
    /\ cli' = [cli EXCEPT !.at = "copy"]
    /\ UNCHANGED <<running, died, proven, helper>>

\* The download fails, or the last rename does, after the old file was removed.
StageFails ==
    /\ cli.at = "stage"
    /\ CliEnds
    /\ \/ UNCHANGED disk
       \/ disk' = [disk EXCEPT !.staged = None]
    /\ UNCHANGED <<running, died, proven, helper>>

HelperRuns == helper.at # "none"

\* copyExecutableAtomic: the image of a running helper cannot be replaced.
CopyHelper ==
    /\ cli.at = "copy" /\ ~HelperRuns
    /\ cli' = [cli EXCEPT !.at = "launch"]
    /\ UNCHANGED <<disk, running, died, proven, helper>>

PrepareFails ==
    /\ cli.at \in {"copy", "launch"}
    /\ disk' = [disk EXCEPT !.staged = None]
    /\ CliEnds
    /\ UNCHANGED <<running, died, proven, helper>>

\* The helper is started, with the deadline, and its parent exits.
Launch ==
    /\ cli.at = "launch"
    /\ helper' = [NoHelper EXCEPT !.at = "begin"]
    /\ CliEnds
    /\ UNCHANGED <<disk, running, died, proven>>

-----------------------------------------------------------------------------
(* FinalizeUpdate: the helper *)

Proceed(from, to) == helper.at = from /\ helper' = [helper EXCEPT !.at = to]
HelperEnds(trouble) == helper' = [helper EXCEPT !.at = "none", !.trouble = trouble]

DeadlinePasses ==
    /\ HelperRuns /\ ~helper.due
    /\ helper' = [helper EXCEPT !.due = TRUE]
    /\ UNCHANGED <<disk, running, died, proven, cli>>

\* ApplyUpdate refuses a deadline that has passed.
Begin ==
    /\ helper.at = "begin"
    /\ IF helper.due THEN HelperEnds("none") ELSE Proceed("begin", "stop")
    /\ UNCHANGED <<disk, running, died, proven, cli>>

\* WindowsServiceController.Stop: the service is stopped, or the call fails,
\* whatever becomes of the service.
StopService ==
    /\ \/ Proceed("stop", IF helper.forced THEN "evaluate" ELSE "activate") /\ running' = None
       \/ helper.at = "stop" /\ HelperEnds("control") /\ running' \in {running, None}
    /\ died' = FALSE
    /\ UNCHANGED <<disk, proven, cli>>

\* Mutant: the marker of the agent that was replaced is left in place.
Activate_KeepsMarker ==
    /\ helper.at = "activate"
    /\ IF disk.current # None /\ disk.staged # None /\ disk.previous = None
       THEN \/ /\ Proceed("activate", "swap")
               /\ disk' = [disk EXCEPT !.current = None, !.previous = disk.current]
            \/ HelperEnds("rename") /\ UNCHANGED disk
       ELSE HelperEnds("refused") /\ UNCHANGED disk
    /\ UNCHANGED <<running, died, proven, cli>>

\* Promotion.Activate, up to its first rename.  It does not begin on an
\* undecided update, or when the staged release is gone.
Activate ==
    /\ helper.at = "activate"
    /\ IF disk.current # None /\ disk.staged # None /\ disk.previous = None
       THEN \/ /\ Proceed("activate", "swap")
               /\ disk' = [disk EXCEPT !.healthy = FALSE, !.current = None,
                                       !.previous = disk.current]
            \/ HelperEnds("rename") /\ disk' = [disk EXCEPT !.healthy = FALSE]
       ELSE HelperEnds("refused") /\ UNCHANGED disk
    /\ UNCHANGED <<running, died, proven, cli>>

\* Its second rename; if that fails the first one is undone, which may fail too.
Swap ==
    /\ \/ /\ Proceed("swap", "start") /\ disk.staged # None
          /\ disk' = [disk EXCEPT !.current = disk.staged, !.staged = None]
       \/ /\ helper.at = "swap" /\ HelperEnds("rename")
          /\ \/ disk' = [disk EXCEPT !.current = disk.previous, !.previous = None]
             \/ UNCHANGED disk
    /\ UNCHANGED <<running, died, proven, cli>>

\* forceRollback begins with a stop.
ForceRollback == helper' = [helper EXCEPT !.at = "stop", !.forced = TRUE]

\* WindowsServiceController.Start: the service runs, or it stopped during its
\* start-up, or took too long.
StartService ==
    /\ helper.at = "start"
    /\ \/ Proceed("start", "watch") /\ running' = disk.current
       \/ ForceRollback /\ running' \in {None, disk.current}
    /\ died' = FALSE
    /\ UNCHANGED <<disk, proven, cli>>

\* The loop looks for the marker first and for the deadline second.
Watch ==
    /\ \/ disk.healthy /\ Proceed("watch", "evaluate")
       \/ helper.at = "watch" /\ ~disk.healthy /\ helper.due /\ ForceRollback
    /\ UNCHANGED <<disk, running, died, proven, cli>>

\* Promotion.Evaluate with the marker there: the old executable goes, unless an
\* `update` process still runs from it, and then the marker.
ImageInUse(file) == cli.at # "none" /\ cli.image = file

Commit ==
    /\ helper.at = "evaluate" /\ disk.healthy
    /\ IF ImageInUse(disk.previous)
       THEN HelperEnds("in use") /\ UNCHANGED disk
       ELSE Proceed("evaluate", "tidy") /\ disk' = [disk EXCEPT !.previous = None]
    /\ UNCHANGED <<running, died, proven, cli>>

\* forceRollback takes a commit for an error, and leaves the service stopped.
Tidy ==
    /\ helper.at = "tidy"
    /\ disk' = [disk EXCEPT !.healthy = FALSE]
    /\ HelperEnds(IF helper.forced THEN "late" ELSE "none")
    /\ UNCHANGED <<running, died, proven, cli>>

\* Promotion.Evaluate without it, after the deadline: the first rename back.
Rollback ==
    /\ helper.at = "evaluate" /\ ~disk.healthy
    /\ IF disk.previous # None
       THEN \/ /\ Proceed("evaluate", "restore")
               /\ disk' = [disk EXCEPT !.failed = disk.current, !.current = None]
            \/ HelperEnds("rename") /\ UNCHANGED disk
       ELSE HelperEnds("refused") /\ UNCHANGED disk
    /\ UNCHANGED <<running, died, proven, cli>>

\* The second; if it fails the first one is undone, which may fail too.
Restore ==
    /\ \/ /\ Proceed("restore", "restart")
          /\ disk' = [disk EXCEPT !.current = disk.previous, !.previous = None]
       \/ /\ helper.at = "restore" /\ HelperEnds("rename")
          /\ \/ disk' = [disk EXCEPT !.current = disk.failed, !.failed = None]
             \/ UNCHANGED disk
    /\ UNCHANGED <<running, died, proven, cli>>

\* Mutant: forceRollback returns without its last call.
Restart_Omitted ==
    /\ helper.at = "restart"
    /\ HelperEnds("none")
    /\ UNCHANGED <<disk, running, died, proven, cli>>

Restart ==
    /\ helper.at = "restart"
    /\ \/ HelperEnds("none") /\ running' = disk.current
       \/ HelperEnds("control") /\ running' \in {None, disk.current}
    /\ died' = FALSE
    /\ UNCHANGED <<disk, proven, cli>>

-----------------------------------------------------------------------------
(* The service's process *)

\* RunAgent: the first cycle is complete, the marker is written.
MarkHealthy ==
    /\ disk' = [disk EXCEPT !.healthy = TRUE]
    /\ proven' = proven \cup {running}
    /\ UNCHANGED <<running, died, cli, helper>>

\* RunAgent returns an error, or the process dies; nothing restarts the service.
AgentExits == running' = None /\ died' = TRUE /\ UNCHANGED <<disk, proven, cli, helper>>

PowerLoss ==
    /\ running' = None /\ died' = FALSE
    /\ CliEnds
    /\ helper' = IF HelperRuns THEN [NoHelper EXCEPT !.trouble = "power"] ELSE helper
    /\ UNCHANGED <<disk, proven>>

\* The service starts with the device, if its executable is where it should be.
Boot ==
    /\ running = None /\ ~HelperRuns /\ disk.current # None
    /\ running' = disk.current /\ died' = FALSE
    /\ UNCHANGED <<disk, proven, cli, helper>>

Cli ==
    \/ CliStart \/ StageFails \/ CopyHelper \/ PrepareFails \/ Launch
    \/ \E v \in Release : Stage(v)

HelperStep ==
    \/ Begin \/ StopService \/ Activate \/ Swap \/ StartService \/ Watch \/ Commit \/ Tidy
    \/ Rollback \/ Restore \/ Restart

Updater == Cli \/ HelperStep \/ DeadlinePasses \/ PowerLoss \/ Boot

-----------------------------------------------------------------------------
\* Whatever fails or is cut short, and however many updates follow one another,
\* an executable that has once completed a cycle is on the disk, in its place or
\* beside it: the old one goes only after the new one has shown that it works
\* (Activate, Evaluate).
WorkingVersionKept == {disk.current, disk.previous} \cap proven # {}

\* A helper that reports an update as committed or rolled back leaves an executable in
\* place that has completed a cycle, the new one, or the old one again, and the service
\* started from it: it runs, unless the process has died by itself after it had written
\* the marker, which is all the helper looks at (FinalizeUpdate, forceRollback).
ServiceIsLeftRunning ==
    [][helper.at \notin {"none", "begin"} /\ helper'.at = "none" /\ helper'.trouble = "none"
          => /\ disk'.current \in proven'
             /\ running' = disk'.current \/ died']_updaterVars
=============================================================================
