---------------------------- MODULE EndpointProofs ----------------------------
(* Theorems about module Endpoint: the agent that is replaced, and the agent that
   executes commands and reports their outcomes, for any number of commands, any
   capacity of the spool and any releases. *)
EXTENDS Endpoint, FiniteSetTheorems, WellFoundedInduction, TLAPS

-----------------------------------------------------------------------------
(* The replacement of the agent *)

\* The executables at every step of the updater.  The old one goes when the marker of
\* the one in its place is there, and the marker is there only since that one ran.
DiskOK ==
    /\ DOMAIN disk = {"current", "staged", "previous", "failed", "healthy"}
    /\ disk.healthy \in BOOLEAN
    /\ disk.previous = None => disk.current \in proven
    /\ disk.previous # None => disk.previous \in proven
    /\ disk.healthy => disk.current \in proven
    /\ running # None => running = disk.current

HelperOK ==
    /\ DOMAIN helper = {"at", "due", "forced", "trouble"} /\ helper.forced \in BOOLEAN
    /\ helper.at \in {"activate", "swap", "start", "restore", "restart"} => running = None
    /\ helper.at = "evaluate" /\ ~disk.healthy => running = None
    /\ helper.at \in {"swap", "start", "restore"} => ~disk.healthy
    /\ helper.at \in {"swap", "restore"} => disk.previous # None
    /\ helper.at \in {"tidy", "restart"} => disk.previous = None

\* While the helper trusts the marker, the agent that wrote it runs, or has died since.
WatchedOK ==
    /\ helper.at = "watch" /\ disk.healthy => running # None \/ died
    /\ helper.at \in {"evaluate", "tidy"} /\ ~helper.forced =>
         disk.healthy /\ (running # None \/ died)

\* The process is there when the service runs.
ProcessOK ==
    /\ setting \in {"operations", "update"} /\ first \in BOOLEAN
    /\ setting = "operations" => helper.at = "none"
    /\ setting = "update" => (running = None <=> pc = "exited") /\ WatchedOK

UpdateInv == DiskOK /\ HelperOK /\ ProcessOK

-----------------------------------------------------------------------------
(* Commands and their outcomes *)

\* A file of the spool, or what is about to become one: if it is a result, it tells
\* the outcome of the command's one execution (`done` are the executions so far).
TelemetryOK(i) == i.kind = "telemetry" /\ i.createdAt \in Nat /\ i.id \in Nat
ResultOK(i, done) ==
    /\ i.kind = "command-result" /\ i.createdAt \in Nat /\ i.id \in Nat
    /\ i.id \in Command /\ i.status \in Verdict /\ done[i.id] = <<i.status>>
ItemOK(i, done) == TelemetryOK(i) \/ ResultOK(i, done)

RequestOK(r, done) ==
    \/ r.op = "acquire"
    \/ r.op = "running" /\ r.command \in Command
    \/ r.op = "send" /\ ItemOK(r.item, done)

\* A command's row, the verdict on record and its executions.
RowOK(row, outcome, done) ==
    /\ "state" \in DOMAIN row /\ row.state \in States \cup {"absent"}
    /\ row.state # "absent" => row.expiresAt \in Nat
    /\ done = <<>> \/ \E v \in Verdict : done = <<v>>
    /\ row.state \in {"absent", "queued"} => done = <<>>
    /\ outcome = "none" \/ (outcome \in Verdict /\ done = << outcome >>)
    /\ row.state \in Verdict \/ outcome # "none" => row.state = outcome

TableOK ==
    /\ DOMAIN rows = Command /\ DOMAIN stored = Command /\ DOMAIN executed = Command
    /\ \A c \in Command : RowOK(rows[c], stored[c], executed[c])

\* A command that may still be executed has been handed out, and has not been executed.
Pending(c) == c \in Command /\ rows[c].state \notin {"absent", "queued"} /\ executed[c] = <<>>

WorkOK ==
    /\ \A g \in todo : Pending(g.command)
    /\ \A g, o \in todo : g.command = o.command => g = o
    /\ pc = "execute" => Pending(job.command) /\ \A g \in todo : g.command # job.command
    /\ pc \in {"submit", "keep"} => ResultOK(job, executed)

WireOK == \A r \in wire : RequestOK(r, executed)

SpoolOK ==
    /\ clock \in Nat /\ batches \in Nat
    /\ \A i \in spool : ItemOK(i, executed)
    /\ IsFiniteSet(spool) /\ Cardinality(spool) <= MaxItems

\* What is about to leave the spool has been recorded.
AckOK ==
    pc = "ack" => /\ spool # {}
                  /\ Upfront.kind = "command-result" => stored[Upfront.id] # "none"

OutcomeInv == TableOK /\ WorkOK /\ WireOK /\ SpoolOK /\ AckOK

-----------------------------------------------------------------------------
(* The steps of the updater *)

\* The process takes no step when it is not there.
LEMMA AgentSteps ==
    ASSUME Agent, first \in BOOLEAN
    PROVE  pc # "exited" /\ first' \in BOOLEAN
<1> DEFINE Lasts == first' \in BOOLEAN
<1>1. ASSUME Fail  PROVE Lasts
  BY <1>1 DEF Fail
<1>2. ASSUME EndOfCycle  PROVE Lasts
  BY <1>2 DEF EndOfCycle
<1>3. ASSUME first' = first  PROVE Lasts
  BY <1>3
<1> SUFFICES pc # "exited" /\ Lasts
  OBVIOUS
<1> HIDE DEF Lasts
<1>4. CASE ListFails \/ DrainSend \/ Ack \/ Drained \/ Heartbeat \/ Telemetry
  <2>1. pc \in {"drain", "ack", "heartbeat", "telemetry"} /\ (Fail \/ \E step \in Steps : Goto(step))
    BY <1>4 DEF ListFails, DrainSend, Ack, Drained, Heartbeat, Telemetry, Steps
  <2> QED  BY <1>1, <1>3, <2>1 DEF Goto, cycle
<1>5. CASE AcquireCommands \/ CommandsDone
  <2>1. pc \in {"acquire", "next"} /\ (Fail \/ EndOfCycle \/ (pc' = "stamp" /\ first' = first))
    BY <1>5 DEF AcquireCommands, CommandsDone
  <2> QED  BY <1>1, <1>2, <1>3, <2>1
<1>6. CASE Stamp \/ Execute
  <2>1. pc \in {"stamp", "execute"} /\ pc' \in {"next", "submit"} /\ first' = first
    BY <1>6 DEF Stamp, Execute
  <2> QED  BY <1>3, <2>1
<1>7. ASSUME NEW g \in todo, Skip(g) \/ MarkRunning(g)
      PROVE  pc # "exited" /\ Lasts
  <2>1. pc = "next" /\ (Fail \/ (first' = first /\ pc' \in {"next", "execute"}))
    BY <1>7 DEF Skip, MarkRunning
  <2> QED  BY <1>1, <1>3, <2>1
<1>8. CASE Submit \/ Keep \/ Broken
  <2>1. pc \in {"submit", "keep", "broken"} /\ (Fail \/ first' = first)
    BY <1>8 DEF Submit, Keep, Broken, Goto, cycle
  <2> QED  BY <1>1, <1>3, <2>1
<1> QED  BY <1>4, <1>5, <1>6, <1>7, <1>8 DEF Agent

\* What becomes of the process when the updater takes a step.
LEMMA ProcessFollows ==
    ASSUME UpdateInv, AppliesTo(Updater)
    PROVE  /\ UNCHANGED setting /\ setting = "update" /\ Updater
           /\ (running' = None <=> pc' = "exited")
           /\ first' \in BOOLEAN
<1>1. /\ setting = "update" /\ Updater /\ UNCHANGED setting /\ first \in BOOLEAN
      /\ (running = None <=> pc = "exited")
  BY DEF AppliesTo, UpdateInv, ProcessOK
<1>2. CASE running' = None
  <2>1. IF pc = "exited" THEN UNCHANGED vars ELSE Crash
    BY <1>2 DEF AppliesTo, Stopped
  <2>2. pc' = "exited" /\ first' \in BOOLEAN
    BY <1>1, <2>1 DEF vars, cycle, Crash
  <2> QED  BY <1>1, <1>2, <2>2
<1>3. CASE running' # None /\ running = None
  <2>1. Start
    BY <1>3 DEF AppliesTo
  <2> QED  BY <1>1, <1>3, <2>1 DEF Start
<1>4. CASE running' # None /\ running # None
  <2>1. UNCHANGED vars
    BY <1>4 DEF AppliesTo
  <2> QED  BY <1>1, <1>4, <2>1 DEF vars, cycle
<1> QED  BY <1>2, <1>3, <1>4

\* What the updater's step does to executables and helper; the process's part is done.
LEMMA UpdaterKeeps ==
    ASSUME UpdateInv, AppliesTo(Updater)
    PROVE  UpdateInv'
<1>0. /\ DOMAIN disk = {"current", "staged", "previous", "failed", "healthy"}
      /\ disk.healthy \in BOOLEAN
      /\ disk.previous = None => disk.current \in proven
      /\ disk.previous # None => disk.previous \in proven
      /\ disk.healthy => disk.current \in proven
      /\ running # None => running = disk.current
  BY DEF UpdateInv, DiskOK
<1>1. /\ DOMAIN helper = {"at", "due", "forced", "trouble"} /\ helper.forced \in BOOLEAN
      /\ helper.at \in {"activate", "swap", "start", "restore", "restart"} => running = None
      /\ helper.at = "evaluate" /\ ~disk.healthy => running = None
      /\ helper.at \in {"swap", "start", "restore"} => ~disk.healthy
      /\ helper.at \in {"swap", "restore"} => disk.previous # None
      /\ helper.at \in {"tidy", "restart"} => disk.previous = None
  BY DEF UpdateInv, HelperOK
<1>2. /\ setting' = setting /\ setting = "update" /\ Updater
      /\ (running' = None <=> pc' = "exited")
      /\ first' \in BOOLEAN
  BY ProcessFollows
<1>3. WatchedOK
  BY <1>2 DEF UpdateInv, ProcessOK
<1>4. SUFFICES DiskOK' /\ HelperOK' /\ WatchedOK'
  BY <1>2 DEF UpdateInv, ProcessOK
<1>5. CASE CliStart \/ CopyHelper \/ StageFails \/ PrepareFails \/ Launch \/ \E v \in Release : Stage(v)
  <2>1. CASE UNCHANGED <<disk, running, died, proven, helper>>
    BY <1>0, <1>1, <1>2, <1>3, <2>1 DEF DiskOK, HelperOK, WatchedOK
  <2>2. ASSUME NEW v, disk' = [disk EXCEPT !.staged = v], UNCHANGED <<running, died, proven, helper>>
        PROVE  DiskOK' /\ HelperOK' /\ WatchedOK'
    BY <1>0, <1>1, <1>2, <1>3, <2>2 DEF DiskOK, HelperOK, WatchedOK
  <2>3. CASE Launch
    BY <1>0, <1>1, <1>2, <1>3, <2>3 DEF DiskOK, HelperOK, WatchedOK, Launch, NoHelper
  <2> QED  BY <1>5, <2>1, <2>2, <2>3 DEF CliStart, CopyHelper, StageFails, PrepareFails, Stage
<1>6. CASE Begin \/ DeadlinePasses
  BY <1>0, <1>1, <1>2, <1>3, <1>6
     DEF DiskOK, HelperOK, WatchedOK, Begin, DeadlinePasses, HelperEnds, Proceed
<1>7. CASE StopService
  BY <1>0, <1>1, <1>2, <1>3, <1>7 DEF DiskOK, HelperOK, WatchedOK, StopService, HelperEnds, Proceed
<1>8. CASE Activate
  <2>1. CASE /\ Proceed("activate", "swap") /\ disk.current # None /\ disk.previous = None
             /\ disk' = [disk EXCEPT !.healthy = FALSE, !.current = None,
                                     !.previous = disk.current]
    BY <1>0, <1>1, <1>8, <2>1 DEF DiskOK, HelperOK, WatchedOK, Activate, Proceed
  <2>2. CASE HelperEnds("rename") /\ disk' = [disk EXCEPT !.healthy = FALSE]
    BY <1>0, <1>1, <1>8, <2>2 DEF DiskOK, HelperOK, WatchedOK, Activate, HelperEnds
  <2>3. CASE HelperEnds("refused") /\ UNCHANGED disk
    BY <1>0, <1>1, <1>8, <2>3 DEF DiskOK, HelperOK, WatchedOK, Activate, HelperEnds
  <2> QED  BY <1>8, <2>1, <2>2, <2>3 DEF Activate
<1>9. CASE Swap
  <2>1. CASE /\ Proceed("swap", "start") /\ disk.staged # None
             /\ disk' = [disk EXCEPT !.current = disk.staged, !.staged = None]
    BY <1>0, <1>1, <1>9, <2>1 DEF DiskOK, HelperOK, WatchedOK, Swap, Proceed
  <2>2. CASE /\ helper.at = "swap" /\ HelperEnds("rename")
             /\ disk' = [disk EXCEPT !.current = disk.previous, !.previous = None]
    BY <1>0, <1>1, <1>9, <2>2 DEF DiskOK, HelperOK, WatchedOK, Swap, HelperEnds
  <2>3. CASE helper.at = "swap" /\ HelperEnds("rename") /\ UNCHANGED disk
    BY <1>0, <1>1, <1>9, <2>3 DEF DiskOK, HelperOK, WatchedOK, Swap, HelperEnds
  <2> QED  BY <1>9, <2>1, <2>2, <2>3 DEF Swap
<1>10. CASE StartService
  <2>1. CASE Proceed("start", "watch") /\ running' = disk.current
    BY <1>0, <1>1, <1>10, <2>1 DEF DiskOK, HelperOK, WatchedOK, StartService, Proceed
  <2>2. CASE ForceRollback /\ running' \in {None, disk.current}
    BY <1>0, <1>1, <1>10, <2>2 DEF DiskOK, HelperOK, WatchedOK, StartService, ForceRollback
  <2> QED  BY <1>10, <2>1, <2>2 DEF StartService
<1>11. CASE Watch
  <2>1. UNCHANGED <<disk, running, died, proven>>
    BY <1>11 DEF Watch
  <2>2. DiskOK'
    BY <1>0, <2>1 DEF DiskOK
  <2>3. CASE disk.healthy /\ Proceed("watch", "evaluate")
    BY <1>1, <1>3, <2>1, <2>2, <2>3 DEF HelperOK, WatchedOK, Proceed
  <2>4. CASE helper.at = "watch" /\ ~disk.healthy /\ ForceRollback
    BY <1>1, <2>1, <2>2, <2>4 DEF HelperOK, WatchedOK, ForceRollback
  <2> QED  BY <1>11, <2>3, <2>4 DEF Watch
<1>12. CASE Commit
  BY <1>0, <1>1, <1>2, <1>3, <1>12 DEF DiskOK, HelperOK, WatchedOK, Commit, HelperEnds, Proceed
<1>13. CASE Tidy
  BY <1>0, <1>1, <1>2, <1>3, <1>13 DEF DiskOK, HelperOK, WatchedOK, Tidy, HelperEnds
<1>14. CASE Rollback
  <2>1. CASE /\ disk.previous # None /\ Proceed("evaluate", "restore")
             /\ disk' = [disk EXCEPT !.failed = disk.current, !.current = None]
    BY <1>0, <1>1, <1>14, <2>1 DEF DiskOK, HelperOK, WatchedOK, Rollback, Proceed
  <2>2. CASE (HelperEnds("rename") \/ HelperEnds("refused")) /\ UNCHANGED disk
    BY <1>0, <1>1, <1>14, <2>2 DEF DiskOK, HelperOK, WatchedOK, Rollback, HelperEnds
  <2> QED  BY <1>14, <2>1, <2>2 DEF Rollback
<1>15. CASE Restore
  <2>1. CASE /\ Proceed("restore", "restart")
             /\ disk' = [disk EXCEPT !.current = disk.previous, !.previous = None]
    BY <1>0, <1>1, <1>15, <2>1 DEF DiskOK, HelperOK, WatchedOK, Restore, Proceed
  <2>2. CASE /\ helper.at = "restore" /\ HelperEnds("rename")
             /\ disk' = [disk EXCEPT !.current = disk.failed, !.failed = None]
    BY <1>0, <1>1, <1>15, <2>2 DEF DiskOK, HelperOK, WatchedOK, Restore, HelperEnds
  <2>3. CASE helper.at = "restore" /\ HelperEnds("rename") /\ UNCHANGED disk
    BY <1>0, <1>1, <1>15, <2>3 DEF DiskOK, HelperOK, WatchedOK, Restore, HelperEnds
  <2> QED  BY <1>15, <2>1, <2>2, <2>3 DEF Restore
<1>16. CASE Restart
  <2>1. CASE HelperEnds("none") /\ running' = disk.current
    BY <1>0, <1>1, <1>16, <2>1 DEF DiskOK, HelperOK, WatchedOK, Restart, HelperEnds
  <2>2. CASE HelperEnds("control") /\ running' \in {None, disk.current}
    BY <1>0, <1>1, <1>16, <2>2 DEF DiskOK, HelperOK, WatchedOK, Restart, HelperEnds
  <2> QED  BY <1>16, <2>1, <2>2 DEF Restart
<1>17. CASE PowerLoss \/ Boot
  <2>1. UNCHANGED <<disk, proven>> /\ running' \in {None, disk.current} /\ helper'.at = "none"
        /\ (helper' = helper \/ helper' = [NoHelper EXCEPT !.trouble = "power"])
    BY <1>1, <1>17 DEF PowerLoss, Boot, HelperRuns, NoHelper
  <2>2. DOMAIN helper' = {"at", "due", "forced", "trouble"} /\ helper'.forced \in BOOLEAN
    BY <1>1, <2>1 DEF NoHelper
  <2> QED  BY <1>0, <2>1, <2>2 DEF DiskOK, HelperOK, WatchedOK
<1> QED  BY <1>2, <1>5, <1>6, <1>7, <1>8, <1>9, <1>10, <1>11, <1>12, <1>13, <1>14, <1>15, <1>16,
            <1>17 DEF Updater, Cli, HelperStep

\* The agent's own part: it writes the marker when it has completed a cycle, and dies.
LEMMA AgentKeeps ==
    ASSUME UpdateInv, AgentCycles \/ AgentDies
    PROVE  UpdateInv'
<1>0. /\ setting = "update" /\ setting' = setting /\ (Agent \/ Crash) /\ first \in BOOLEAN
      /\ (running = None <=> pc = "exited") /\ DiskOK /\ HelperOK /\ WatchedOK
  BY DEF AgentCycles, AgentDies, UpdateInv, ProcessOK
<1>1. pc # "exited" /\ first' \in BOOLEAN
  BY <1>0, AgentSteps DEF Crash
<1>2. SUFFICES DiskOK' /\ HelperOK' /\ WatchedOK' /\ (running' = None <=> pc' = "exited")
  BY <1>0, <1>1 DEF UpdateInv, ProcessOK
<1>3. CASE pc' = "exited" /\ AgentExits
  BY <1>0, <1>1, <1>3 DEF AgentExits, DiskOK, HelperOK, WatchedOK
<1>4. CASE pc' # "exited" /\ MarkHealthy
  BY <1>0, <1>1, <1>4 DEF MarkHealthy, DiskOK, HelperOK, WatchedOK
<1>5. CASE pc' # "exited" /\ UNCHANGED updaterVars
  BY <1>0, <1>1, <1>5 DEF updaterVars, DiskOK, HelperOK, WatchedOK
<1> QED  BY <1>3, <1>4, <1>5 DEF AgentCycles, AgentDies, Crash

\* At first the version that runs works.
LEMMA UpdateInitially == EndpointInit => UpdateInv
<1>1. EndpointInit => DiskOK
  BY DEF EndpointInit, UpdaterInit, DiskOK, None
<1>2. EndpointInit => HelperOK /\ ProcessOK
  BY DEF EndpointInit, UpdaterInit, Init, NoHelper, HelperOK, ProcessOK, WatchedOK, None
<1> QED  BY <1>1, <1>2 DEF UpdateInv

\* While only the agent's work is looked at the updater rests.
LEMMA OperationsKeep ==
    ASSUME UpdateInv, UNCHANGED <<updaterVars, setting>>, setting = "operations", first' \in BOOLEAN
    PROVE  UpdateInv'
BY DEF UpdateInv, updaterVars, DiskOK, HelperOK, ProcessOK

\* Every step keeps the flag of the first look a flag.
LEMMA FirstIsBoolean ==
    ASSUME Next, first \in BOOLEAN
    PROVE  first' \in BOOLEAN
<1>1. CASE Start \/ Crash \/ Tick
  BY <1>1 DEF Start, Crash, Tick, cycle
<1>2. ASSUME NEW r, Deliver(r)  PROVE first' \in BOOLEAN
  BY <1>2 DEF Deliver, cycle
<1>3. ASSUME NEW c, Cancel(c)  PROVE first' \in BOOLEAN
  BY <1>3 DEF Cancel, cycle
<1>4. ASSUME NEW c, NEW lifetime, Create(c, lifetime)  PROVE first' \in BOOLEAN
  BY <1>4 DEF Create, cycle
<1> QED  BY <1>1, <1>2, <1>3, <1>4, AgentSteps DEF Next

\* Every step of agent, helper and power keeps a version that works.
LEMMA UpdatePreserved == UpdateInv /\ [EndpointNext]_endpointVars => UpdateInv'
<1> SUFFICES ASSUME UpdateInv, [EndpointNext]_endpointVars
             PROVE  UpdateInv'
  OBVIOUS
<1>1. CASE Operations(Next)
  <2>1. first' \in BOOLEAN
    BY <1>1, FirstIsBoolean DEF Operations, UpdateInv, ProcessOK
  <2> QED  BY <1>1, <2>1, OperationsKeep DEF Operations
<1>2. CASE UNCHANGED endpointVars
  BY <1>2 DEF endpointVars, vars, cycle, updaterVars, UpdateInv, DiskOK, HelperOK, ProcessOK, WatchedOK
<1> QED  BY <1>1, <1>2, UpdaterKeeps, AgentKeeps DEF EndpointNext

\* Whatever fails or is cut short, and however many updates follow one another, an
\* executable that once completed a cycle is on the disk (Activate, Evaluate).
THEOREM AWorkingVersionIsKept == EndpointSpec => []WorkingVersionKept
<1>1. UpdateInv => WorkingVersionKept
  BY DEF UpdateInv, DiskOK, WorkingVersionKept
<1> QED  BY <1>1, UpdateInitially, UpdatePreserved, PTL DEF EndpointSpec

\* A helper that reports success leaves an executable in place that has completed a cycle,
\* and the service started from it: it runs, unless its process has died by itself since
\* (FinalizeUpdate, forceRollback).
THEOREM TheServiceRunsOn == EndpointSpec => ServiceIsLeftRunning
<1> DEFINE Ended == helper.at \notin {"none", "begin"} /\ helper'.at = "none" /\ helper'.trouble = "none"
           Right == Ended => /\ disk'.current \in proven'
                             /\ running' = disk'.current \/ died'
<1>1. UpdateInv /\ [EndpointNext]_endpointVars => [Right]_updaterVars
  <2> SUFFICES ASSUME UpdateInv, EndpointNext, ~UNCHANGED updaterVars, Ended
               PROVE  disk'.current \in proven' /\ (running' = disk'.current \/ died')
    BY DEF endpointVars
  <2>1. CASE AgentCycles \/ AgentDies
    BY <2>1 DEF AgentCycles, AgentDies, AgentExits, MarkHealthy, updaterVars
  <2>2. CASE AppliesTo(Updater)
    <3>1. DiskOK /\ HelperOK /\ WatchedOK /\ Updater
      BY <2>2 DEF UpdateInv, ProcessOK, AppliesTo
    <3>2. CASE Tidy
      BY <3>1, <3>2 DEF Tidy, HelperEnds, DiskOK, HelperOK, WatchedOK
    <3>3. CASE Restart
      BY <3>1, <3>3 DEF Restart, HelperEnds, DiskOK, HelperOK
    <3>4. CASE Cli \/ DeadlinePasses \/ PowerLoss \/ Boot
      <4>1. CASE PowerLoss
        BY <4>1 DEF PowerLoss, HelperRuns, NoHelper
      <4>2. CASE DeadlinePasses
        BY <3>1, <4>2 DEF DeadlinePasses, HelperRuns, HelperOK
      <4> QED  BY <3>4, <4>1, <4>2 DEF Cli, CliStart, StageFails, CopyHelper, PrepareFails, Launch, Stage,
                  Boot, NoHelper
    <3>5. CASE Begin \/ StopService \/ Activate \/ Swap
      BY <3>1, <3>5 DEF Begin, StopService, Activate, Swap, HelperEnds, Proceed, HelperOK
    <3>6. CASE StartService \/ Watch \/ Commit \/ Rollback \/ Restore
      BY <3>1, <3>6 DEF StartService, Watch, Commit, Rollback, Restore, HelperEnds, Proceed, ForceRollback,
         HelperOK
    <3> QED  BY <3>1, <3>2, <3>3, <3>4, <3>5, <3>6 DEF Updater, HelperStep
  <2> QED  BY <2>1, <2>2 DEF EndpointNext, Operations
<1> QED  BY <1>1, UpdateInitially, UpdatePreserved, PTL DEF EndpointSpec, ServiceIsLeftRunning
-----------------------------------------------------------------------------
(* The services *)

\* A step of the services records nothing that was not executed, takes nothing back, and
\* makes no command executable again.
TableSteps ==
    /\ TableOK' /\ executed' = executed
    /\ \A c \in Command : rows[c].state \notin {"absent", "queued"} =>
                            rows'[c].state \notin {"absent", "queued"}
    /\ \A c \in Command : stored[c] # "none" => stored'[c] = stored[c]

\* One execution is not none.
LEMMA OneIsNotNone ==
    ASSUME NEW x
    PROVE  <<x>> # <<>> /\ Len(<<x>>) = 1 /\ Len(<<>>) = 0
<1>1. <<x>> \in Seq({x}) /\ Len(<<x>>) = 1
  OBVIOUS
<1>2. Len(<<>>) = 0
  OBVIOUS
<1> QED  BY <1>1, <1>2

\* A step that leaves rows, results and executions alone makes lawful steps on them.
LEMMA UnchangedTable ==
    ASSUME TableOK, UNCHANGED <<rows, stored, executed>>
    PROVE  TableSteps
BY DEF TableOK, TableSteps

\* A row that is handed out was queued: nobody has executed that command.
LEMMA PollEffect ==
    ASSUME TableOK, clock \in Nat, UNCHANGED executed, NEW taken \in Polls, HandOut(taken)
    PROVE  /\ TableSteps
           /\ taken \subseteq Command
           /\ \A c \in taken : executed[c] = <<>> /\ rows'[c].state = "dispatched"
<1>1. taken \subseteq Command /\ \A c \in taken : rows[c].state = "queued" /\ Acquirable(rows[c], Self, clock)
  BY DEF Polls, OldestFirst, Acquirable
<1>2. stored' = stored /\ DOMAIN rows' = Command /\ DOMAIN stored' = Command
      /\ DOMAIN executed' = Command
  BY DEF HandOut, TableOK
<1>3. ASSUME NEW c \in Command
      PROVE  /\ RowOK(rows'[c], stored[c], executed[c])
             /\ rows[c].state \notin {"absent", "queued"} => rows'[c].state \notin {"absent", "queued"}
             /\ c \in taken => rows'[c].state = "dispatched" /\ executed[c] = <<>>
  <2>1. RowOK(rows[c], stored[c], executed[c])
    BY DEF TableOK
  <2>2. CASE Expirable(rows[c], Self, clock)
    <3>1. rows'[c] = Expired(rows[c]) /\ rows[c].state = "queued"
      BY <2>2 DEF HandOut, Expirable
    <3>2. c \notin taken
      <4>1. CASE c \in taken
        <5>1. rows[c].expiresAt > clock /\ rows[c].expiresAt <= clock /\ rows[c].expiresAt \in Nat
          BY <1>1, <2>1, <2>2, <4>1 DEF Acquirable, Expirable, RowOK
        <5> QED  BY <5>1
      <4> QED  BY <4>1
    <3>3. rows'[c].state = "expired" /\ "state" \in DOMAIN rows'[c] /\ rows'[c].expiresAt = rows[c].expiresAt
      BY <2>1, <3>1 DEF RowOK, Expired
    <3> QED  BY <2>1, <3>1, <3>2, <3>3 DEF RowOK, Verdict, States, TerminalStates
  <2>3. CASE ~Expirable(rows[c], Self, clock) /\ c \in taken
    <3>1. rows'[c] = Dispatched(rows[c], clock) /\ rows[c].state = "queued"
      BY <1>1, <2>3 DEF HandOut
    <3>2. rows'[c].state = "dispatched" /\ "state" \in DOMAIN rows'[c]
          /\ rows'[c].expiresAt = rows[c].expiresAt
      BY <2>1, <3>1 DEF RowOK, Dispatched
    <3> QED  BY <2>1, <3>1, <3>2 DEF RowOK, Verdict, States
  <2>4. CASE ~Expirable(rows[c], Self, clock) /\ c \notin taken
    <3>1. rows'[c] = rows[c]
      BY <2>4 DEF HandOut
    <3> QED  BY <2>1, <2>4, <3>1
  <2> QED  BY <2>2, <2>3, <2>4
<1> QED  BY <1>1, <1>2, <1>3 DEF TableOK, TableSteps

\* A result counts if it says what the one execution gave, and it is recorded then.
LEMMA ResultEffect ==
    ASSUME TableOK, UNCHANGED executed, NEW item, ResultOK(item, executed),
           AcceptsResult(item), RecordResult(item)
    PROVE  TableSteps /\ stored'[item.id] = item.status
<1>1. /\ item.id \in Command /\ item.status \in Verdict /\ executed[item.id] = <<item.status>>
      /\ RowOK(rows[item.id], stored[item.id], executed[item.id])
  BY DEF TableOK, ResultOK
<1>2. /\ DOMAIN stored' = Command /\ DOMAIN executed' = Command
      /\ stored'[item.id] = item.status
      /\ \A c \in Command : c # item.id => stored'[c] = stored[c]
  BY <1>1 DEF RecordResult, TableOK
<1>3. item.status # "none" /\ item.status \notin {"absent", "queued"} /\ item.status \in States
  BY <1>1 DEF Verdict, States, TerminalStates
<1>4. CASE Replayed(item)
  <2>1. rows' = rows /\ stored[item.id] = item.status
    BY <1>4 DEF RecordResult, Replayed
  <2>2. \A c \in Command : stored'[c] = stored[c]
    BY <1>2, <2>1
  <2> QED  BY <1>2, <2>1, <2>2 DEF TableOK, TableSteps
<1>5. CASE ~Replayed(item)
  <2>1. stored[item.id] = "none" /\ rows' = [rows EXCEPT ![item.id] = Completed(@, item.status)]
        /\ rows[item.id].state # "absent"
    BY <1>5 DEF RecordResult, AcceptsResult, BoundTo, Exists
  <2>2. DOMAIN rows' = Command /\ rows'[item.id] = Completed(rows[item.id], item.status)
        /\ \A c \in Command : c # item.id => rows'[c] = rows[c]
    BY <1>1, <2>1 DEF TableOK
  <2>3. "state" \in DOMAIN rows'[item.id] /\ rows'[item.id].state = item.status
        /\ rows'[item.id].expiresAt = rows[item.id].expiresAt
    BY <1>1, <2>2 DEF Completed, RowOK
  <2>4. RowOK(rows'[item.id], stored'[item.id], executed[item.id])
    BY <1>1, <1>2, <1>3, <2>1, <2>3 DEF RowOK
  <2>5. \A c \in Command : c # item.id => RowOK(rows'[c], stored'[c], executed[c])
    BY <1>2, <2>2 DEF TableOK
  <2>6. \A c \in Command : RowOK(rows'[c], stored'[c], executed[c])
    BY <2>4, <2>5
  <2>7. \A c \in Command : rows[c].state \notin {"absent", "queued"} =>
                            rows'[c].state \notin {"absent", "queued"}
    BY <1>3, <2>2, <2>3
  <2>8. \A c \in Command : stored[c] # "none" => stored'[c] = stored[c]
    BY <1>2, <2>1
  <2> QED  BY <1>2, <2>2, <2>6, <2>7, <2>8 DEF TableOK, TableSteps
<1> QED  BY <1>2, <1>4, <1>5

\* The start of a command that was handed out.
LEMMA RunningEffect ==
    ASSUME TableOK, UNCHANGED <<executed, stored>>, NEW c \in Command,
           rows[c].state \in {"dispatched", "running"},
           rows' = [rows EXCEPT ![c] = Running(@)]
    PROVE  TableSteps
<1>1. DOMAIN rows' = Command /\ rows'[c] = Running(rows[c])
      /\ \A o \in Command : o # c => rows'[o] = rows[o]
  BY DEF TableOK
<1>2. RowOK(rows[c], stored[c], executed[c])
  BY DEF TableOK
<1>3. "state" \in DOMAIN rows'[c] /\ rows'[c].state = "running"
      /\ rows'[c].expiresAt = rows[c].expiresAt
  BY <1>1, <1>2 DEF RowOK, Running
<1>4. RowOK(rows'[c], stored[c], executed[c])
  BY <1>2, <1>3 DEF RowOK, Verdict, States
<1>5. \A o \in Command : RowOK(rows'[o], stored[o], executed[o])
  BY <1>1, <1>4 DEF TableOK
<1> QED  BY <1>1, <1>3, <1>5 DEF TableOK, TableSteps

\* A request that is accepted, answered or not.
LEMMA AcceptedEffect ==
    ASSUME TableOK, clock \in Nat, UNCHANGED executed, NEW r, RequestOK(r, executed),
           Accepts(r), Effect(r)
    PROVE  /\ TableSteps
           /\ r.op = "send" /\ r.item.kind = "command-result" => stored'[r.item.id] # "none"
<1>1. CASE r.op = "acquire"
  <2>1. PICK taken \in Polls : HandOut(taken)
    BY <1>1 DEF Effect
  <2> QED  BY <1>1, <2>1, PollEffect
<1>2. CASE r.op = "running"
  <2>1. /\ r.command \in Command /\ rows[r.command].state \in {"dispatched", "running"}
        /\ rows' = [rows EXCEPT ![r.command] = Running(@)] /\ UNCHANGED stored
    BY <1>2 DEF RequestOK, Accepts, Effect, MayRun
  <2>2. TableSteps
    BY <2>1, RunningEffect
  <2> QED  BY <1>2, <2>2
<1>3. CASE r.op = "send" /\ r.item.kind = "telemetry"
  <2>1. UNCHANGED <<rows, stored>>
    BY <1>3 DEF Effect, RecordBatch
  <2> QED  BY <1>3, <2>1, UnchangedTable
<1>4. CASE r.op = "send" /\ r.item.kind = "command-result"
  <2>1. ResultOK(r.item, executed)
    BY <1>4 DEF RequestOK, ItemOK, TelemetryOK
  <2>2. AcceptsResult(r.item) /\ RecordResult(r.item)
    BY <1>4 DEF Accepts, Effect
  <2>3. TableSteps /\ stored'[r.item.id] = r.item.status /\ r.item.status # "none"
    BY <2>1, <2>2, ResultEffect DEF ResultOK, Verdict
  <2> QED  BY <2>3
<1> QED  BY <1>1, <1>2, <1>3, <1>4 DEF RequestOK, ItemOK, TelemetryOK, ResultOK

\* A call of the agent: what is on its way afterwards is what the agent sent.
LEMMA CallEffect ==
    ASSUME TableOK, WireOK, clock \in Nat, UNCHANGED executed, NEW r, RequestOK(r, executed),
           Answered(r) \/ Errs(r)
    PROVE  /\ TableSteps /\ WireOK'
           /\ Answered(r) /\ r.op = "send" /\ r.item.kind = "command-result" =>
                stored'[r.item.id] # "none"
<1>1. WireOK'
  <2>1. \A q \in wire' : q \in wire \/ q = r
    BY DEF Answered, Errs, Refused, Unanswered
  <2> QED  BY <2>1 DEF WireOK
<1>2. CASE Answered(r)
  BY <1>1, <1>2, AcceptedEffect DEF Answered
<1>3. CASE Errs(r) /\ ~Answered(r)
  <2>1. UNCHANGED <<rows, stored>>
    BY <1>3 DEF Errs, Refused, Unanswered, services
  <2> QED  BY <1>1, <1>3, <2>1, UnchangedTable
<1> QED  BY <1>2, <1>3

-----------------------------------------------------------------------------
(* The spool *)

\* A nonempty set of numbers has a smallest one.
LEMMA SmallestExists ==
    ASSUME NEW S \in SUBSET Nat, S # {}
    PROVE  \E m \in S : \A s \in S : m <= s
<1> DEFINE less == {pair \in Nat \X Nat : pair[1] < pair[2]}
<1>1. IsWellFoundedOn(less, Nat)
  BY NatLessThanWellFounded DEF OpToRel
<1>2. \A a, b \in Nat : <<a, b>> \in less <=> a < b
  OBVIOUS
<1> HIDE DEF less
<1>3. PICK m \in S : \A s \in S : <<s, m>> \notin less
  BY <1>1, WFMin
<1>4. \A s \in S : m <= s
  <2> TAKE s \in S
  <2>1. m \in Nat /\ s \in Nat
    OBVIOUS
  <2>2. ~(s < m)
    BY <1>2, <1>3, <2>1
  <2> QED  BY <2>1, <2>2
<1> QED  BY <1>4

\* The item chosen as the oldest of some is one of them.
LEMMA OldestIsThere ==
    ASSUME NEW S, S # {}, \A i \in S : i.createdAt \in Nat /\ i.id \in Nat
    PROVE  Oldest(S) \in S
<1> DEFINE times == {i.createdAt : i \in S}
<1>1. times \in SUBSET Nat /\ times # {}
  OBVIOUS
<1>2. PICK t \in times : \A u \in times : t <= u
  BY <1>1, SmallestExists
<1> DEFINE eldest == {i \in S : i.createdAt = t}
           names == {i.id : i \in eldest}
<1>3. names \in SUBSET Nat /\ names # {}
  BY <1>2
<1>4. PICK n \in names : \A m \in names : n <= m
  BY <1>3, SmallestExists
<1>5. PICK i \in eldest : i.id = n
  BY <1>4
<1>6. i \in S /\ i.createdAt = t
  BY <1>5
<1>7. ASSUME NEW j \in S  PROVE Earlier(i, j)
  <2>1. t <= j.createdAt /\ t \in Nat /\ j.createdAt \in Nat
    BY <1>1, <1>2
  <2>2. CASE j.createdAt = t
    BY <1>4, <1>5, <1>6, <2>2 DEF Earlier
  <2>3. CASE j.createdAt # t
    BY <1>6, <2>1, <2>3 DEF Earlier
  <2> QED  BY <2>2, <2>3
<1> QED  BY <1>6, <1>7 DEF Oldest

\* The item drain sends next is in the spool.
LEMMA UpfrontIsThere ==
    ASSUME SpoolOK, spool # {}
    PROVE  Upfront \in spool
<1>1. \A i \in spool : i.createdAt \in Nat /\ i.id \in Nat /\ i.kind \in {"telemetry", "command-result"}
  BY DEF SpoolOK, ItemOK, TelemetryOK, ResultOK
<1>2. \A i \in Results \cup Batches : i \in spool /\ i.createdAt \in Nat /\ i.id \in Nat
  BY <1>1 DEF Results, Batches
<1>3. CASE Results # {}
  <2>1. Oldest(Results) \in Results
    BY <1>2, <1>3, OldestIsThere
  <2> QED  BY <1>2, <1>3, <2>1 DEF Upfront
<1>4. CASE Results = {}
  <2>1. Batches # {}
    BY <1>1, <1>4 DEF Results, Batches
  <2>2. Oldest(Batches) \in Batches
    BY <1>2, <2>1, OldestIsThere
  <2> QED  BY <1>2, <1>4, <2>2 DEF Upfront
<1> QED  BY <1>3, <1>4

\* Room is made at the expense of telemetry alone; what is accepted is in the spool
\* then, and what is refused finds its own name taken or nothing but results there.
LEMMA EnqueuedEffect ==
    ASSUME SpoolOK, NEW item
    PROVE  /\ Enqueued(item) \subseteq spool \cup {item}
           /\ IsFiniteSet(Enqueued(item)) /\ Cardinality(Enqueued(item)) <= MaxItems
           /\ \A i \in Results : i \in Enqueued(item)
           /\ ~EnqueueFails(item) => item \in Enqueued(item)
           /\ EnqueueFails(item) => \/ Present(item) # {} /\ Enqueued(item) = spool
                                    \/ Cardinality(Results) = MaxItems
<1>1. IsFiniteSet(spool) /\ Cardinality(spool) <= MaxItems /\ Cardinality(spool) \in Nat
      /\ MaxItems \in Nat \ {0}
  BY SpoolAssumption, FS_CardinalityType DEF SpoolOK
<1>2. \A i \in spool : i \in Results \/ i \in Batches
  BY DEF SpoolOK, ItemOK, TelemetryOK, ResultOK, Results, Batches
<1>3. Results \subseteq spool /\ Present(item) \subseteq spool
  BY DEF Results, Present
<1>4. CASE Present(item) # {}
  BY <1>1, <1>3, <1>4 DEF Enqueued, EnqueueFails
<1>5. CASE Present(item) = {} /\ Fits
  <2>1. Enqueued(item) = spool \cup {item} /\ ~EnqueueFails(item)
    BY <1>5 DEF Enqueued, EnqueueFails
  <2>2. IsFiniteSet(spool \cup {item})
        /\ (Cardinality(spool \cup {item}) = Cardinality(spool)
            \/ Cardinality(spool \cup {item}) = Cardinality(spool) + 1)
    BY <1>1, FS_AddElement
  <2> QED  BY <1>1, <1>3, <1>5, <2>1, <2>2 DEF Fits
<1>6. CASE Present(item) = {} /\ ~Fits /\ Batches # {}
  <2> DEFINE b == Oldest(Batches)
             rest == spool \ {b}
  <2>1. \A i \in Batches : i.createdAt \in Nat /\ i.id \in Nat
    BY DEF Batches, SpoolOK, ItemOK, TelemetryOK, ResultOK
  <2>2. b \in Batches
    BY <1>6, <2>1, OldestIsThere
  <2>3. b \in spool /\ b \notin Results
    BY <2>2 DEF Batches, Results
  <2>4. Enqueued(item) = rest \cup {item} /\ ~EnqueueFails(item)
    BY <1>6 DEF Enqueued, EnqueueFails
  <2> HIDE DEF b
  <2>5. IsFiniteSet(rest) /\ Cardinality(rest) = Cardinality(spool) - 1
    BY <1>1, <2>3, FS_RemoveElement
  <2>6. IsFiniteSet(rest \cup {item})
        /\ (Cardinality(rest \cup {item}) = Cardinality(rest)
            \/ Cardinality(rest \cup {item}) = Cardinality(rest) + 1)
    BY <2>5, FS_AddElement
  <2>7. Cardinality(rest \cup {item}) <= MaxItems
    BY <1>1, <2>5, <2>6
  <2> QED  BY <1>3, <2>3, <2>4, <2>6, <2>7
<1>7. CASE Present(item) = {} /\ ~Fits /\ Batches = {}
  <2>1. Enqueued(item) = spool /\ EnqueueFails(item)
    BY <1>7 DEF Enqueued, EnqueueFails
  <2>2. Results = spool
    BY <1>2, <1>3, <1>7
  <2>3. Cardinality(Results) = MaxItems
    BY <1>1, <1>7, <2>2 DEF Fits
  <2> QED  BY <1>1, <1>3, <2>1, <2>3
<1> QED  BY <1>4, <1>5, <1>6, <1>7

\* A directory that fails gives up telemetry at most.
LEMMA DiskEffect ==
    ASSUME SpoolOK, NEW item, DiskFails(item)
    PROVE  /\ spool' \subseteq spool
           /\ IsFiniteSet(spool') /\ Cardinality(spool') <= MaxItems
           /\ \A i \in Results : i \in spool'
<1>1. CASE spool' = spool
  BY <1>1 DEF SpoolOK, Results
<1>2. CASE Batches # {} /\ spool' = spool \ {Oldest(Batches)}
  <2>1. \A i \in Batches : i.createdAt \in Nat /\ i.id \in Nat
    BY DEF Batches, SpoolOK, ItemOK, TelemetryOK, ResultOK
  <2>2. Oldest(Batches) \in Batches
    BY <1>2, <2>1, OldestIsThere
  <2>3. spool' \in SUBSET spool /\ \A i \in Results : i \in spool'
    BY <1>2, <2>2 DEF Batches, Results
  <2>4. IsFiniteSet(spool') /\ Cardinality(spool') <= Cardinality(spool)
    BY <2>3, FS_Subset DEF SpoolOK
  <2>5. Cardinality(spool') \in Nat /\ Cardinality(spool) \in Nat /\ MaxItems \in Nat
    BY <2>4, FS_CardinalityType, SpoolAssumption DEF SpoolOK
  <2>6. Cardinality(spool') <= MaxItems
    BY <2>4, <2>5 DEF SpoolOK
  <2> QED  BY <2>3, <2>4, <2>6
<1> QED  BY <1>1, <1>2 DEF DiskFails

\* A report of telemetry, answered or not, disturbs no command and no result.
LEMMA ReportEffect ==
    ASSUME SpoolOK, Reports \/ FailsToReport
    PROVE  /\ UNCHANGED <<rows, stored>> /\ batches' \in Nat
           /\ \A r \in wire' : r \in wire \/ (r.op = "send" /\ TelemetryOK(r.item))
           /\ \A i \in spool' : i \in spool \/ TelemetryOK(i)
           /\ IsFiniteSet(spool') /\ Cardinality(spool') <= MaxItems
           /\ \A i \in Results : i \in spool'
<1>1. CASE UNCHANGED <<services, wire, batches, spool>>
  BY <1>1 DEF services, SpoolOK, Results
<1> DEFINE item == [kind |-> "telemetry", id |-> batches + 1, createdAt |-> clock]
<1>2. CASE ~UNCHANGED <<services, wire, batches, spool>>
  <2>1. /\ batches' \in {batches, batches + 1}
        /\ Answered(Sending(item)) \/ Errs(Sending(item))
        /\ spool' = spool \/ spool' = Enqueued(item) \/ DiskFails(item)
    BY <1>2 DEF Reports, FailsToReport
  <2>2. TelemetryOK(item) /\ batches' \in Nat
    BY <2>1 DEF TelemetryOK, SpoolOK
  <2>3. Sending(item).op = "send" /\ Sending(item).item = item /\ item.kind = "telemetry"
    BY DEF Sending
  <2> HIDE DEF item
  <2>4. UNCHANGED <<rows, stored>>
    BY <2>1, <2>3 DEF Answered, Errs, Refused, Unanswered, Effect, RecordBatch, services
  <2>5. \A r \in wire' : r \in wire \/ (r.op = "send" /\ TelemetryOK(r.item))
    <3>1. \A r \in wire' : r \in wire \/ r = Sending(item)
      BY <2>1 DEF Answered, Errs, Refused, Unanswered
    <3> QED  BY <2>2, <2>3, <3>1
  <2>6. CASE spool' = spool
    BY <2>2, <2>4, <2>5, <2>6 DEF SpoolOK, Results
  <2>7. CASE spool' = Enqueued(item)
    <3>1. /\ spool' \subseteq spool \cup {item} /\ IsFiniteSet(spool') /\ Cardinality(spool') <= MaxItems
          /\ \A i \in Results : i \in spool'
      BY <2>7, EnqueuedEffect
    <3> QED  BY <2>2, <2>4, <2>5, <3>1
  <2>8. CASE DiskFails(item)
    <3>1. /\ spool' \subseteq spool /\ IsFiniteSet(spool') /\ Cardinality(spool') <= MaxItems
          /\ \A i \in Results : i \in spool'
      BY <2>8, DiskEffect
    <3> QED  BY <2>2, <2>4, <2>5, <3>1
  <2> QED  BY <2>1, <2>6, <2>7, <2>8
<1> QED  BY <1>1, <1>2

-----------------------------------------------------------------------------
(* The steps of the agent and around it *)

Handing == pc \in {"submit", "keep"}

\* What HeldUntilRecorded says of one step.
HeldStep ==
    \A c \in Command :
        /\ Spooled(c) /\ ~Spooled(c)' => stored'[c] # "none"
        /\ InHand(c) /\ ~InHand(c)' =>
              \/ stored'[c] # "none"
              \/ Spooled(c)'
              \/ pc' = "exited" /\ MayCrash
              \/ Cardinality(Results) = MaxItems
              \/ pc' = "broken" /\ todo' = {}

StepOK == OutcomeInv' /\ HeldStep

\* A step that takes no result from the spool keeps every result held.
LEMMA ResultsStayHeld ==
    ASSUME \A i \in Results : i \in spool',
           Handing => \/ Handing' /\ job' = job
                      \/ stored'[job.id] # "none"
                      \/ \E i \in spool' : i.kind = "command-result" /\ i.id = job.id
                      \/ pc' = "exited" /\ MayCrash
                      \/ Cardinality(Results) = MaxItems
                      \/ pc' = "broken" /\ todo' = {}
    PROVE  HeldStep
<1>1. ASSUME NEW c \in Command, Spooled(c)  PROVE Spooled(c)'
  BY <1>1 DEF Spooled, Results
<1>2. ASSUME NEW c \in Command, InHand(c), ~InHand(c)'
      PROVE  \/ stored'[c] # "none"
             \/ Spooled(c)'
             \/ pc' = "exited" /\ MayCrash
             \/ Cardinality(Results) = MaxItems
             \/ pc' = "broken" /\ todo' = {}
  <2>1. Handing /\ job.id = c /\ ~(Handing' /\ job'.id = c)
    BY <1>2 DEF InHand, Handing
  <2> QED  BY <2>1 DEF Spooled, Results
<1> QED  BY <1>1, <1>2 DEF HeldStep

\* Commands acquired stay executable while the services only go on.
LEMMA WorkRemains ==
    ASSUME WorkOK, TableSteps, todo' \subseteq todo,
           pc' \notin {"execute", "submit", "keep"} \/ UNCHANGED <<pc, job>>
    PROVE  WorkOK'
<1>1. \A c : Pending(c) => Pending(c)'
  BY DEF Pending, TableSteps
<1>2. \A g \in todo' : Pending(g.command)'
  BY <1>1 DEF WorkOK
<1>3. \A g, o \in todo' : g.command = o.command => g = o
  BY DEF WorkOK
<1>4. pc' = "execute" => Pending(job.command)' /\ \A g \in todo' : g.command # job'.command
  BY <1>1 DEF WorkOK
<1>5. pc' \in {"submit", "keep"} => ResultOK(job', executed')
  BY DEF WorkOK, TableSteps
<1> QED  BY <1>2, <1>3, <1>4, <1>5 DEF WorkOK

\* The item whose upload was acknowledged stays what it was.
LEMMA HeadRemains ==
    ASSUME SpoolOK, AckOK, TableSteps, UNCHANGED spool, pc' = "ack" => pc = "ack"
    PROVE  AckOK'
<1> SUFFICES ASSUME pc' = "ack"
             PROVE  spool' # {} /\ (Upfront'.kind = "command-result" => stored'[Upfront'.id] # "none")
  BY DEF AckOK
<1>1. spool # {} /\ (Upfront.kind = "command-result" => stored[Upfront.id] # "none")
  BY DEF AckOK
<1>2. Upfront' = Upfront
  BY DEF Upfront, Results, Batches
<1>3. ItemOK(Upfront, executed)
  BY <1>1, UpfrontIsThere DEF SpoolOK
<1>4. Upfront.kind = "command-result" => Upfront.id \in Command
  BY <1>3 DEF ItemOK, TelemetryOK, ResultOK
<1> QED  BY <1>1, <1>2, <1>4 DEF TableSteps

\* A step that leaves the spool alone and begins nothing with a command.
LEMMA QuietStep ==
    ASSUME OutcomeInv, TableSteps, WireOK', UNCHANGED <<spool, batches>>, clock' \in Nat,
           todo' \subseteq todo, pc' = "ack" => pc = "ack",
           \/ UNCHANGED <<pc, job>>
           \/ /\ pc' \notin {"execute", "submit", "keep"}
              /\ Handing => pc' = "exited" /\ MayCrash
    PROVE  StepOK
<1>1. WorkOK' /\ AckOK'
  BY WorkRemains, HeadRemains DEF OutcomeInv
<1>2. SpoolOK'
  BY DEF OutcomeInv, SpoolOK, TableSteps
<1>3. Handing => (Handing' /\ job' = job) \/ (pc' = "exited" /\ MayCrash)
  BY DEF Handing
<1>4. HeldStep
  BY <1>3, ResultsStayHeld DEF Results
<1> QED  BY <1>1, <1>2, <1>4 DEF OutcomeInv, StepOK, TableSteps

\* The same for a call of the agent that fails.
LEMMA FailedCall ==
    ASSUME OutcomeInv, UNCHANGED <<clock, spool, batches, executed>>, ~Handing,
           NEW r, RequestOK(r, executed), Errs(r), Fail
    PROVE  StepOK
<1>1. TableSteps /\ WireOK' /\ clock \in Nat
  BY CallEffect DEF OutcomeInv, SpoolOK
<1>2. todo' \subseteq todo /\ pc' \in {"exited", "drain"}
  BY DEF Fail
<1> QED  BY <1>1, <1>2, QuietStep

\* Sending the head of the spool keeps the invariant.
LEMMA DrainSendKeeps == OutcomeInv /\ DrainSend => StepOK
<1> SUFFICES ASSUME OutcomeInv, DrainSend  PROVE StepOK
  OBVIOUS
<1> DEFINE r == Sending(Upfront)
<1>1. /\ pc = "drain" /\ spool # {} /\ UNCHANGED <<clock, batches, spool, executed>>
      /\ (Answered(r) /\ Goto("ack")) \/ (Errs(r) /\ Fail)
  BY DEF DrainSend
<1>2. r.op = "send" /\ r.item = Upfront
  BY DEF Sending
<1>3. RequestOK(r, executed)
  BY <1>1, <1>2, UpfrontIsThere DEF OutcomeInv, SpoolOK, RequestOK
<1> HIDE DEF r
<1>4. CASE Errs(r) /\ Fail
  BY <1>1, <1>3, <1>4, FailedCall DEF Handing
<1>5. CASE Answered(r) /\ Goto("ack")
  <2>1. TableSteps /\ WireOK' /\ clock \in Nat
        /\ (Upfront.kind = "command-result" => stored'[Upfront.id] # "none")
    BY <1>1, <1>2, <1>3, <1>5, CallEffect DEF OutcomeInv, SpoolOK
  <2>2. pc' = "ack" /\ todo' = todo /\ job' = job
    BY <1>5 DEF Goto, cycle
  <2>3. Upfront' = Upfront
    BY <1>1 DEF Upfront, Results, Batches
  <2>4. AckOK'
    BY <1>1, <2>1, <2>3 DEF AckOK
  <2>5. WorkOK'
    BY <2>1, <2>2, WorkRemains DEF OutcomeInv
  <2>6. SpoolOK'
    BY <1>1 DEF OutcomeInv, SpoolOK
  <2>7. HeldStep
    BY <1>1, ResultsStayHeld DEF Handing, Results
  <2> QED  BY <2>1, <2>4, <2>5, <2>6, <2>7 DEF StepOK, OutcomeInv, TableSteps
<1> QED  BY <1>1, <1>4, <1>5

\* What leaves the spool is the head, and it has been recorded.
LEMMA AckKeeps == OutcomeInv /\ Ack => StepOK
<1> SUFFICES ASSUME OutcomeInv, Ack  PROVE StepOK
  OBVIOUS
<1>1. /\ pc = "ack" /\ spool' \in {spool \ {Upfront}, spool} /\ pc' \in {"drain", "exited"}
      /\ todo' \subseteq todo
      /\ UNCHANGED <<clock, rows, stored, wire, batches, executed>>
  BY DEF Ack, Goto, Fail, cycle, services
<1>2. TableSteps
  BY <1>1, UnchangedTable DEF OutcomeInv
<1>3. WorkOK' /\ WireOK'
  BY <1>1, <1>2, WorkRemains DEF OutcomeInv, WireOK
<1>4. SpoolOK'
  <2>1. spool' \in SUBSET spool /\ IsFiniteSet(spool)
    BY <1>1 DEF OutcomeInv, SpoolOK
  <2>2. IsFiniteSet(spool') /\ Cardinality(spool') <= Cardinality(spool)
    BY <2>1, FS_Subset
  <2>3. Cardinality(spool') \in Nat /\ Cardinality(spool) \in Nat /\ MaxItems \in Nat
    BY <2>1, <2>2, FS_CardinalityType, SpoolAssumption
  <2>4. Cardinality(spool') <= MaxItems
    BY <2>2, <2>3 DEF OutcomeInv, SpoolOK
  <2> QED  BY <1>1, <2>2, <2>4 DEF OutcomeInv, SpoolOK
<1>5. AckOK'
  BY <1>1 DEF AckOK
<1>6. HeldStep
  <2> SUFFICES ASSUME NEW c \in Command
               PROVE  /\ Spooled(c) /\ ~Spooled(c)' => stored'[c] # "none"
                      /\ ~InHand(c)
    BY DEF HeldStep
  <2>1. ASSUME Spooled(c), ~Spooled(c)'  PROVE stored'[c] # "none"
    <3>1. PICK i \in spool : i.kind = "command-result" /\ i.id = c
      BY <2>1 DEF Spooled, Results
    <3>2. i \notin spool'
      BY <2>1, <3>1 DEF Spooled, Results
    <3>3. i = Upfront
      BY <1>1, <3>2
    <3> QED  BY <1>1, <3>1, <3>3 DEF OutcomeInv, AckOK
  <2> QED  BY <1>1, <2>1 DEF InHand
<1> QED  BY <1>2, <1>3, <1>4, <1>5, <1>6 DEF StepOK, OutcomeInv, TableSteps

\* Steps in which the agent only moves on, starts or dies.
LEMMA MovesKeep ==
    ASSUME OutcomeInv,
           \/ ListFails \/ Drained \/ Heartbeat \/ Stamp \/ CommandsDone \/ Broken \/ Start \/ Crash
           \/ \E g \in todo : Skip(g)
    PROVE  StepOK
<1>1. UNCHANGED <<clock, rows, stored, wire, batches, spool, executed>> /\ todo' \subseteq todo
      /\ \/ pc' = pc /\ job' = job
         \/ /\ pc' \in {"drain", "heartbeat", "telemetry", "next", "exited"}
            /\ Handing => pc' = "exited" /\ MayCrash
  <2>1. CASE ListFails \/ Drained \/ Heartbeat \/ CommandsDone \/ Broken
    BY <2>1 DEF ListFails, Drained, Heartbeat, CommandsDone, Broken, EndOfCycle, Goto, cycle, Fail, services, Handing
  <2>2. CASE Stamp \/ Start \/ Crash
    BY <2>2 DEF Stamp, Start, Crash, services, Handing
  <2>3. ASSUME NEW g \in todo, Skip(g)
        PROVE  UNCHANGED <<clock, rows, stored, wire, batches, spool, executed, pc, job>>
               /\ todo' \subseteq todo
    BY <2>3 DEF Skip, services
  <2> QED  BY <2>1, <2>2, <2>3
<1>2. TableSteps
  BY <1>1, UnchangedTable DEF OutcomeInv
<1>3. WireOK' /\ clock' \in Nat
  BY <1>1 DEF OutcomeInv, WireOK, SpoolOK
<1>4. pc' = "ack" => pc = "ack"
  BY <1>1
<1> QED  BY <1>1, <1>2, <1>3, <1>4, QuietStep

\* Steps of the services and of time: the agent and its spool are not concerned.
LEMMA SurroundingsKeep ==
    ASSUME OutcomeInv,
           \/ Tick
           \/ \E r \in wire : Deliver(r)
           \/ \E c \in Command : Cancel(c) \/ \E lifetime \in Lifetime : Create(c, lifetime)
    PROVE  StepOK
<1>1. UNCHANGED <<pc, todo, job, spool, batches, executed>>
  BY DEF Tick, Deliver, Cancel, Create, cycle
<1>2. SUFFICES TableSteps /\ WireOK' /\ clock' \in Nat
  BY <1>1, QuietStep
<1>3. clock \in Nat /\ TableOK /\ WireOK
  BY DEF OutcomeInv, SpoolOK
<1>4. CASE Tick
  <2>1. UNCHANGED <<rows, stored, wire>> /\ clock' = clock + 1
    BY <1>4 DEF Tick, services
  <2> QED  BY <1>1, <1>3, <2>1, UnchangedTable DEF WireOK
<1>5. ASSUME NEW r \in wire, Deliver(r)
      PROVE  TableSteps /\ WireOK' /\ clock' \in Nat
  <2>1. wire' \subseteq wire /\ clock' = clock
    BY <1>5 DEF Deliver
  <2>2. RequestOK(r, executed)
    BY <1>3 DEF WireOK
  <2>3. CASE Accepts(r) /\ Effect(r)
    BY <1>1, <1>3, <2>1, <2>2, <2>3, AcceptedEffect DEF WireOK
  <2>4. CASE UNCHANGED services
    BY <1>1, <1>3, <2>1, <2>4, UnchangedTable DEF WireOK, services
  <2> QED  BY <1>5, <2>3, <2>4 DEF Deliver
<1>6. ASSUME NEW c \in Command, NEW row, rows' = [rows EXCEPT ![c] = row],
             UNCHANGED <<clock, stored, wire>>, RowOK(row, stored[c], executed[c]),
             rows[c].state \notin {"absent", "queued"} => row.state \notin {"absent", "queued"}
      PROVE  TableSteps /\ WireOK' /\ clock' \in Nat
  <2>1. DOMAIN rows' = Command /\ rows'[c] = row /\ \A o \in Command : o # c => rows'[o] = rows[o]
    BY <1>3, <1>6 DEF TableOK
  <2>2. \A o \in Command : RowOK(rows'[o], stored[o], executed[o])
    BY <1>3, <1>6, <2>1 DEF TableOK
  <2>3. TableSteps
    BY <1>1, <1>3, <1>6, <2>1, <2>2 DEF TableOK, TableSteps
  <2> QED  BY <1>1, <1>3, <1>6, <2>3 DEF WireOK
<1>7. ASSUME NEW c \in Command, Cancel(c)
      PROVE  TableSteps /\ WireOK' /\ clock' \in Nat
  <2>1. /\ rows' = [rows EXCEPT ![c] = Cancelled(rows[c])] /\ UNCHANGED <<clock, stored, wire>>
        /\ rows[c].state # "absent" /\ rows[c].state \notin TerminalStates
    BY <1>7 DEF Cancel, Cancellable, Exists
  <2>2. RowOK(rows[c], stored[c], executed[c])
    BY <1>3 DEF TableOK
  <2>3. LET row == Cancelled(rows[c])
        IN  "state" \in DOMAIN row /\ row.state = "cancelled" /\ row.expiresAt = rows[c].expiresAt
    BY <2>2 DEF Cancelled, RowOK
  <2>4. RowOK(Cancelled(rows[c]), stored[c], executed[c])
    BY <2>1, <2>2, <2>3 DEF RowOK, TerminalStates, States, Verdict
  <2> QED  BY <1>6, <2>1, <2>3, <2>4
<1>8. ASSUME NEW c \in Command, NEW lifetime \in Lifetime, Create(c, lifetime)
      PROVE  TableSteps /\ WireOK' /\ clock' \in Nat
  <2> DEFINE row == NewRow(c, [device |-> Self, lifetime |-> lifetime], clock)
  <2>1. /\ rows' = [rows EXCEPT ![c] = row] /\ UNCHANGED <<clock, stored, wire>>
        /\ rows[c].state = "absent"
    BY <1>8 DEF Create, Exists
  <2>2. RowOK(rows[c], stored[c], executed[c])
    BY <1>3 DEF TableOK
  <2>3. "state" \in DOMAIN row /\ row.state = "queued" /\ row.expiresAt \in Nat
    BY <1>3, LifetimeAssumption DEF NewRow
  <2> HIDE DEF row
  <2>4. RowOK(row, stored[c], executed[c])
    BY <2>1, <2>2, <2>3 DEF RowOK, Verdict, States
  <2> QED  BY <1>6, <2>1, <2>4
<1> QED  BY <1>4, <1>5, <1>7, <1>8

\* A report may displace telemetry, nothing else.
LEMMA TelemetryKeeps == OutcomeInv /\ Telemetry => StepOK
<1> SUFFICES ASSUME OutcomeInv, Telemetry  PROVE StepOK
  OBVIOUS
<1>1. /\ pc = "telemetry" /\ UNCHANGED <<clock, executed>>
      /\ pc' \in {"acquire", "exited", "drain"} /\ todo' \subseteq todo
      /\ Reports \/ FailsToReport
  BY DEF Telemetry, Goto, Fail, cycle
<1>2. /\ UNCHANGED <<rows, stored>> /\ batches' \in Nat
      /\ \A r \in wire' : r \in wire \/ (r.op = "send" /\ TelemetryOK(r.item))
      /\ \A i \in spool' : i \in spool \/ TelemetryOK(i)
      /\ IsFiniteSet(spool') /\ Cardinality(spool') <= MaxItems
      /\ \A i \in Results : i \in spool'
  BY <1>1, ReportEffect DEF OutcomeInv
<1>3. TableSteps
  BY <1>1, <1>2, UnchangedTable DEF OutcomeInv
<1>4. WorkOK'
  BY <1>1, <1>3, WorkRemains DEF OutcomeInv
<1>5. WireOK'
  BY <1>1, <1>2 DEF OutcomeInv, WireOK, RequestOK, ItemOK
<1>6. SpoolOK'
  BY <1>1, <1>2 DEF OutcomeInv, SpoolOK, ItemOK
<1>7. AckOK'
  BY <1>1 DEF AckOK
<1>8. HeldStep
  BY <1>1, <1>2, ResultsStayHeld DEF Handing
<1> QED  BY <1>3, <1>4, <1>5, <1>6, <1>7, <1>8 DEF StepOK, OutcomeInv, TableSteps

\* What is acquired has just been handed out for the first time.
LEMMA AcquireKeeps == OutcomeInv /\ AcquireCommands => StepOK
<1> SUFFICES ASSUME OutcomeInv, AcquireCommands  PROVE StepOK
  OBVIOUS
<1>0. pc = "acquire" /\ UNCHANGED <<clock, batches, spool, executed>> /\ TableOK /\ clock \in Nat
  BY DEF AcquireCommands, OutcomeInv, SpoolOK
<1>1. ASSUME NEW taken \in Polls, HandOut(taken), UNCHANGED wire, pc' = "stamp",
             todo' = {[command |-> c, token |-> rows'[c].token, lease |-> rows'[c].lease,
                       expiresAt |-> rows'[c].expiresAt] : c \in taken}
      PROVE  StepOK
  <2>1. /\ TableSteps /\ taken \subseteq Command
        /\ \A c \in taken : executed[c] = <<>> /\ rows'[c].state = "dispatched"
    BY <1>0, <1>1, PollEffect
  <2>2. \A g \in todo' : g.command \in taken
    BY <1>1
  <2>3. \A g, o \in todo' : g.command = o.command => g = o
    BY <1>1
  <2>4. \A g \in todo' : Pending(g.command)'
    BY <1>0, <2>1, <2>2 DEF Pending
  <2>5. WorkOK'
    BY <1>1, <2>3, <2>4 DEF WorkOK
  <2>6. WireOK' /\ SpoolOK' /\ AckOK'
    BY <1>0, <1>1 DEF OutcomeInv, WireOK, SpoolOK, AckOK
  <2>7. HeldStep
    BY <1>0, ResultsStayHeld DEF Handing, Results
  <2> QED  BY <2>1, <2>5, <2>6, <2>7 DEF StepOK, OutcomeInv, TableSteps
<1>2. CASE Errs(Poll) /\ Fail
  <2>1. RequestOK(Poll, executed)
    BY DEF Poll, RequestOK
  <2> QED  BY <1>0, <1>2, <2>1, FailedCall DEF Handing
<1>3. CASE EndOfCycle /\ UNCHANGED <<services, wire>>
  <2>1. UNCHANGED <<rows, stored, wire>> /\ todo' = todo /\ pc' = "drain"
    BY <1>3 DEF EndOfCycle, services
  <2>2. TableSteps /\ WireOK'
    BY <1>0, <2>1, UnchangedTable DEF OutcomeInv, WireOK
  <2> QED  BY <1>0, <2>1, <2>2, QuietStep DEF Handing
<1> QED  BY <1>1, <1>2, <1>3 DEF AcquireCommands

\* Marking a command as running keeps the invariant.
LEMMA MarkRunningKeeps ==
    ASSUME OutcomeInv, NEW g \in todo, MarkRunning(g)
    PROVE  StepOK
<1> DEFINE r == StartOf(g)
<1>1. /\ pc = "next" /\ UNCHANGED <<clock, batches, spool, executed>>
      /\ (Answered(r) /\ pc' = "execute" /\ job' = g /\ todo' = todo \ {g}) \/ (Errs(r) /\ Fail)
  BY DEF MarkRunning
<1>2. Pending(g.command) /\ \A o \in todo : g.command = o.command => g = o
  BY DEF OutcomeInv, WorkOK
<1>3. RequestOK(r, executed)
  BY <1>2 DEF StartOf, RequestOK, Pending
<1> HIDE DEF r
<1>4. CASE Errs(r) /\ Fail
  BY <1>1, <1>3, <1>4, FailedCall DEF Handing
<1>5. CASE Answered(r) /\ pc' = "execute" /\ job' = g /\ todo' = todo \ {g}
  <2>1. TableSteps /\ WireOK'
    BY <1>1, <1>3, <1>5, CallEffect DEF OutcomeInv, SpoolOK
  <2>2. \A c : Pending(c) => Pending(c)'
    BY <2>1 DEF Pending, TableSteps
  <2>3. WorkOK'
    BY <1>2, <1>5, <2>2 DEF OutcomeInv, WorkOK
  <2>4. SpoolOK' /\ AckOK'
    BY <1>1, <1>5 DEF OutcomeInv, SpoolOK, AckOK
  <2>5. HeldStep
    BY <1>1, ResultsStayHeld DEF Handing, Results
  <2> QED  BY <2>1, <2>3, <2>4, <2>5 DEF StepOK, OutcomeInv, TableSteps
<1> QED  BY <1>1, <1>4, <1>5

\* The execution: the command had none before, and its result says how it went.
LEMMA ExecuteKeeps == OutcomeInv /\ Execute => StepOK
<1> SUFFICES ASSUME OutcomeInv, Execute  PROVE StepOK
  OBVIOUS
<1>1. PICK outcome \in Verdict :
        /\ UNCHANGED <<services, wire, batches, spool>> \/ Reports \/ FailsToReport
        /\ executed' = [executed EXCEPT ![job.command] = Append(@, outcome)]
        /\ job' = [kind |-> "command-result", id |-> job.command, token |-> job.token,
                   status |-> outcome, createdAt |-> clock]
  BY DEF Execute
<1>2. /\ pc = "execute" /\ pc' = "submit" /\ clock' = clock /\ todo' = todo /\ clock \in Nat
      /\ Pending(job.command) /\ \A g \in todo : g.command # job.command
  BY DEF Execute, OutcomeInv, WorkOK, SpoolOK
<1> DEFINE me == job.command
<1>3. me \in Command /\ executed[me] = <<>> /\ rows[me].state \notin {"absent", "queued"}
  BY <1>2 DEF Pending
<1>4. /\ DOMAIN executed' = Command /\ executed'[me] = << outcome >>
      /\ \A c \in Command : c # me => executed'[c] = executed[c]
  BY <1>1, <1>3 DEF OutcomeInv, TableOK
<1>5. /\ UNCHANGED <<rows, stored>> /\ batches' \in Nat
      /\ \A r \in wire' : r \in wire \/ (r.op = "send" /\ TelemetryOK(r.item))
      /\ \A i \in spool' : i \in spool \/ TelemetryOK(i)
      /\ IsFiniteSet(spool') /\ Cardinality(spool') <= MaxItems
      /\ \A i \in Results : i \in spool'
  <2>1. CASE UNCHANGED <<services, wire, batches, spool>>
    BY <2>1 DEF OutcomeInv, SpoolOK, services, Results
  <2> QED  BY <1>1, <2>1, ReportEffect DEF OutcomeInv
<1>6. ResultOK(job', executed')
  <2>1. /\ job'.kind = "command-result" /\ job'.id = me /\ job'.status = outcome
        /\ job'.createdAt = clock
    BY <1>1
  <2>2. me \in Nat
    BY <1>3, CommandAssumption
  <2> QED  BY <1>2, <1>3, <1>4, <2>1, <2>2 DEF ResultOK
<1> HIDE DEF me
<1>7. TableOK'
  <2>1. RowOK(rows[me], stored[me], executed[me])
    BY <1>3 DEF OutcomeInv, TableOK
  <2>2. stored[me] = "none"
    BY <1>3, <2>1 DEF RowOK
  <2>3. RowOK(rows[me], stored[me], executed'[me])
    BY <1>3, <1>4, <2>1, <2>2 DEF RowOK
  <2>4. \A c \in Command : RowOK(rows[c], stored[c], executed'[c])
    BY <1>4, <2>3 DEF OutcomeInv, TableOK
  <2> QED  BY <1>4, <1>5, <2>4 DEF OutcomeInv, TableOK
<1>8. \A i : ItemOK(i, executed) => ItemOK(i, executed')
  <2> SUFFICES ASSUME NEW i, ResultOK(i, executed)  PROVE ResultOK(i, executed')
    BY DEF ItemOK
  <2>1. i.id # me
    BY <1>3, OneIsNotNone DEF ResultOK
  <2> QED  BY <1>4, <2>1 DEF ResultOK
<1>9. WorkOK'
  <2>1. \A g \in todo' : Pending(g.command)'
    <3> SUFFICES ASSUME NEW g \in todo  PROVE Pending(g.command)'
      BY <1>2
    <3>1. Pending(g.command) /\ g.command # me
      BY <1>2 DEF OutcomeInv, WorkOK, me
    <3> QED  BY <1>4, <1>5, <3>1 DEF Pending
  <2> QED  BY <1>2, <1>6, <2>1 DEF OutcomeInv, WorkOK
<1>10. WireOK' /\ SpoolOK' /\ AckOK'
  <2>1. \A r : RequestOK(r, executed) => RequestOK(r, executed')
    BY <1>8 DEF RequestOK
  <2>2. WireOK'
    BY <1>5, <2>1 DEF OutcomeInv, WireOK, RequestOK, ItemOK
  <2>3. \A i \in spool' : ItemOK(i, executed')
    BY <1>5, <1>8 DEF OutcomeInv, SpoolOK, ItemOK
  <2> QED  BY <1>2, <1>5, <2>2, <2>3 DEF SpoolOK, AckOK
<1>11. HeldStep
  BY <1>2, <1>5, ResultsStayHeld DEF Handing
<1> QED  BY <1>7, <1>9, <1>10, <1>11 DEF StepOK, OutcomeInv

\* An answered upload has recorded the result; any other leaves it in the agent's hands.
LEMMA SubmitKeeps == OutcomeInv /\ Submit => StepOK
<1> SUFFICES ASSUME OutcomeInv, Submit  PROVE StepOK
  OBVIOUS
<1> DEFINE r == Sending(job)
<1>1. /\ pc = "submit" /\ UNCHANGED <<clock, batches, spool, executed, todo>>
      /\ (Answered(r) /\ pc' = "next") \/ (Errs(r) /\ pc' = "keep" /\ job' = job)
  BY DEF Submit, Goto, cycle
<1>2. r.op = "send" /\ r.item = job
  BY DEF Sending
<1>3. ResultOK(job, executed) /\ RequestOK(r, executed)
  BY <1>1, <1>2 DEF OutcomeInv, WorkOK, RequestOK, ItemOK
<1> HIDE DEF r
<1>4. /\ TableSteps /\ WireOK'
      /\ Answered(r) => stored'[job.id] # "none"
  BY <1>1, <1>2, <1>3, CallEffect DEF OutcomeInv, SpoolOK, ResultOK
<1>5. WorkOK'
  <2>1. \A c : Pending(c) => Pending(c)'
    BY <1>4 DEF Pending, TableSteps
  <2> QED  BY <1>1, <1>3, <2>1 DEF OutcomeInv, WorkOK
<1>6. SpoolOK' /\ AckOK'
  BY <1>1 DEF OutcomeInv, SpoolOK, AckOK
<1>7. HeldStep
  BY <1>1, <1>4, ResultsStayHeld DEF Handing, Results
<1> QED  BY <1>4, <1>5, <1>6, <1>7 DEF StepOK, OutcomeInv, TableSteps

\* The result goes to the spool, unless nothing but results is in it, or it cannot be
\* written.
LEMMA KeepKeeps == OutcomeInv /\ Keep => StepOK
<1> SUFFICES ASSUME OutcomeInv, Keep  PROVE StepOK
  OBVIOUS
<1>1. /\ pc = "keep" /\ pc' \in {"exited", "drain", "next", "broken"} /\ todo' \subseteq todo
      /\ UNCHANGED <<clock, rows, stored, wire, batches, executed>>
      /\ \/ ~EnqueueFails(job) /\ spool' = Enqueued(job)
         \/ EnqueueFails(job) /\ spool' = spool
         \/ DiskFails(job) /\ pc' = "broken" /\ todo' = {}
  BY DEF Keep, Fail, services
<1>2. ResultOK(job, executed)
  BY <1>1 DEF OutcomeInv, WorkOK
<1>3. /\ spool' \subseteq spool \cup {job} /\ IsFiniteSet(spool') /\ Cardinality(spool') <= MaxItems
      /\ \A i \in Results : i \in spool'
      /\ \/ job \in spool'
         \/ Present(job) # {} /\ spool' = spool
         \/ Cardinality(Results) = MaxItems
         \/ pc' = "broken" /\ todo' = {}
  <2>1. CASE ~EnqueueFails(job) /\ spool' = Enqueued(job)
    BY <2>1, EnqueuedEffect DEF OutcomeInv
  <2>2. CASE EnqueueFails(job) /\ spool' = spool
    BY <2>2, EnqueuedEffect DEF OutcomeInv, SpoolOK, Results
  <2>3. CASE DiskFails(job) /\ pc' = "broken" /\ todo' = {}
    BY <2>3, DiskEffect DEF OutcomeInv
  <2> QED  BY <1>1, <2>1, <2>2, <2>3
<1>4. TableSteps
  BY <1>1, UnchangedTable DEF OutcomeInv
<1>5. WorkOK'
  BY <1>1, <1>4, WorkRemains DEF OutcomeInv
<1>6. WireOK' /\ SpoolOK' /\ AckOK'
  BY <1>1, <1>2, <1>3 DEF OutcomeInv, WireOK, SpoolOK, AckOK, ItemOK
<1>7. \/ \E i \in spool' : i.kind = "command-result" /\ i.id = job.id
      \/ Cardinality(Results) = MaxItems
      \/ pc' = "broken" /\ todo' = {}
  <2>1. CASE job \in spool'
    BY <1>2, <2>1 DEF ResultOK
  <2>2. CASE Present(job) # {} /\ spool' = spool
    BY <1>2, <2>2 DEF Present, ResultOK
  <2> QED  BY <1>3, <2>1, <2>2
<1>8. HeldStep
  BY <1>3, <1>7, ResultsStayHeld
<1> QED  BY <1>4, <1>5, <1>6, <1>8 DEF StepOK, OutcomeInv, TableSteps

\* At first nothing is executed, held or recorded.
LEMMA OutcomeInitially == EndpointInit => OutcomeInv
<1> SUFFICES ASSUME EndpointInit  PROVE OutcomeInv
  OBVIOUS
<1>1. TableOK
  BY DEF EndpointInit, Init, TableOK, RowOK, NoRow, Verdict
<1>2. WorkOK /\ WireOK /\ AckOK
  BY DEF EndpointInit, Init, WorkOK, WireOK, AckOK
<1>3. SpoolOK
  BY FS_EmptySet, SpoolAssumption DEF EndpointInit, Init, SpoolOK
<1> QED  BY <1>1, <1>2, <1>3 DEF OutcomeInv

\* Every step of the endpoint is a step of the agent or its surroundings, or none.
LEMMA OutcomeSteps == OutcomeInv /\ [EndpointNext]_endpointVars => OutcomeInv' /\ [HeldStep]_vars
<1> SUFFICES ASSUME OutcomeInv, [EndpointNext]_endpointVars
             PROVE  StepOK \/ (OutcomeInv' /\ UNCHANGED vars)
  BY DEF StepOK
<1>1. ASSUME Agent  PROVE StepOK
  BY <1>1, DrainSendKeeps, AckKeeps, MovesKeep, TelemetryKeeps, AcquireKeeps, MarkRunningKeeps,
     ExecuteKeeps, SubmitKeeps, KeepKeeps DEF Agent
<1>2. CASE UNCHANGED vars
  BY <1>2 DEF vars, services, cycle, OutcomeInv, TableOK, WorkOK, WireOK, SpoolOK, AckOK, Pending,
     Upfront, Results, Batches
<1>3. CASE Operations(Next)
  BY <1>1, <1>3, MovesKeep, SurroundingsKeep DEF Operations, Next
<1>4. CASE AgentCycles \/ AgentDies
  BY <1>1, <1>4, MovesKeep DEF AgentCycles, AgentDies
<1>5. CASE AppliesTo(Updater)
  BY <1>2, <1>5, MovesKeep DEF AppliesTo, Stopped
<1> QED  BY <1>2, <1>3, <1>4, <1>5 DEF EndpointNext, endpointVars

\* Whatever is lost, late, repeated or killed, a command is executed at most once
\* (Runner.commands, acquire_commands).
THEOREM CommandsRunOnce == EndpointSpec => []ExecutedOnce
<1>1. OutcomeInv => ExecutedOnce
  <2> SUFFICES ASSUME OutcomeInv, NEW c \in Command  PROVE Len(executed[c]) <= 1
    BY DEF ExecutedOnce
  <2> DEFINE n == Len(executed[c])
  <2>1. executed[c] = <<>> \/ \E v \in Verdict : executed[c] = <<v>>
    BY DEF OutcomeInv, TableOK, RowOK
  <2>2. n = 0 \/ n = 1
    BY <2>1, OneIsNotNone
  <2> HIDE DEF n
  <2>3. n <= 1
    BY <2>2
  <2> QED  BY <2>3 DEF n
<1> QED  BY <1>1, OutcomeInitially, OutcomeSteps, PTL DEF EndpointSpec

\* The verdict on record is that of the one execution, also when its report was repeated
\* or arrived late (submit_result, drain).
THEOREM VerdictsAreTrue == EndpointSpec => []VerdictIsTrue
<1>1. OutcomeInv => VerdictIsTrue
  BY DEF OutcomeInv, TableOK, RowOK, VerdictIsTrue, Verdict
<1> QED  BY <1>1, OutcomeInitially, OutcomeSteps, PTL DEF EndpointSpec

\* The outcome of an execution stays in the spool until the service has it, whatever the
\* disk does, and leaves the agent's hands only into the spool, with the process, for want
\* of room among results alone, or because its file cannot be written, which ends the poll
\* (Queue.Enqueue, Queue.Ack, drain, Runner.commands).
THEOREM OutcomesAreHeld == EndpointSpec => HeldUntilRecorded
<1>1. [HeldStep]_vars => [\A c \in Command :
          /\ Spooled(c) /\ ~Spooled(c)' => stored'[c] # "none"
          /\ InHand(c) /\ ~InHand(c)' =>
                \/ stored'[c] # "none"
                \/ Spooled(c)'
                \/ pc' = "exited" /\ MayCrash
                \/ Cardinality(Results) = MaxItems
                \/ pc' = "broken" /\ todo' = {}]_vars
  BY DEF HeldStep
<1> QED  BY <1>1, OutcomeInitially, OutcomeSteps, PTL DEF EndpointSpec, HeldUntilRecorded

-----------------------------------------------------------------------------
(* The endpoint implements CommandExecution *)

Given(c) == \E g \in todo : g.command = c
Busy(c) == pc = "execute" /\ job.command = c

\* There are commands to do only while the agent is among them.
TodoOK == todo # {} => pc \in {"stamp", "next", "execute", "submit", "keep"}

ExecutionStep == Execution!XNext \/ UNCHANGED <<phases, reports, devices>>

\* The promise sees of a command its state, its verdict and what the agent does with it.
LEMMA Views ==
    ASSUME NEW c \in Command
    PROVE  /\ phases[c] = PhaseOf(rows[c].state) /\ phases'[c] = PhaseOf(rows'[c].state)
           /\ reports[c] = {stored[c]} \ {"none"} /\ reports'[c] = {stored'[c]} \ {"none"}
           /\ devices[c] = IF Given(c) THEN "given" ELSE IF Busy(c) THEN "busy"
                           ELSE IF executed[c] = <<>> THEN "idle" ELSE executed[c][1]
           /\ devices'[c] = IF Given(c)' THEN "given" ELSE IF Busy(c)' THEN "busy"
                            ELSE IF executed'[c] = <<>> THEN "idle" ELSE executed'[c][1]
BY DEF phases, reports, devices, Given, Busy

\* They are functions of the commands.
LEMMA ViewsAreFunctions ==
    /\ phases = [c \in Command |-> phases[c]] /\ phases' = [c \in Command |-> phases'[c]]
    /\ reports = [c \in Command |-> reports[c]] /\ reports' = [c \in Command |-> reports'[c]]
    /\ devices = [c \in Command |-> devices[c]] /\ devices' = [c \in Command |-> devices'[c]]
BY DEF phases, reports, devices

\* Where the services do nothing, nothing happens to the promise but on the device.
LEMMA SameServices ==
    ASSUME UNCHANGED <<rows, stored>>
    PROVE  UNCHANGED <<phases, reports>>
BY DEF phases, reports

\* The device's view stays where the agent takes up and drops nothing.
LEMMA SameDevice ==
    ASSUME UNCHANGED <<todo, executed>>, UNCHANGED <<pc, job>> \/ (pc # "execute" /\ pc' # "execute")
    PROVE  UNCHANGED devices
BY DEF devices

\* A command that is to do or being executed has not been executed, and is not both.
LEMMA AtWork ==
    ASSUME OutcomeInv, NEW c \in Command
    PROVE  /\ Given(c) \/ Busy(c) => executed[c] = <<>>
           /\ ~(Given(c) /\ Busy(c))
BY DEF OutcomeInv, WorkOK, Pending, Given, Busy

\* A poll is an offer, of which the device may hear.
LEMMA PollIsOffer ==
    ASSUME TableOK, NEW taken \in Polls, HandOut(taken), NEW given \in SUBSET taken,
           \A c \in Command : devices'[c] = IF c \in given THEN "given" ELSE devices[c]
    PROVE  ExecutionStep
<1> DEFINE lapsed == {c \in Command : Expirable(rows[c], Self, clock)}
<1>1. taken \subseteq Command /\ \A c \in taken : Acquirable(rows[c], Self, clock)
  BY DEF Polls, OldestFirst
<1>2. \A c \in taken \cup lapsed : phases[c] = "waiting"
  BY <1>1, Views DEF Acquirable, Expirable, PhaseOf
<1>3. ASSUME NEW c \in Command
      PROVE  phases'[c] = IF c \in lapsed THEN "lapsed" ELSE IF c \in taken THEN "offered"
                          ELSE phases[c]
  <2>1. "state" \in DOMAIN rows[c]
    BY DEF TableOK, RowOK
  <2>2. rows'[c] = IF Expirable(rows[c], Self, clock) THEN Expired(rows[c])
                   ELSE IF c \in taken THEN Dispatched(rows[c], clock) ELSE rows[c]
    BY DEF HandOut
  <2>3. CASE c \in lapsed
    BY <2>1, <2>2, <2>3, Views DEF Expired, PhaseOf
  <2>4. CASE c \notin lapsed /\ c \in taken
    <3>1. rows'[c].state = "dispatched"
      BY <2>1, <2>2, <2>4 DEF Dispatched
    <3> QED  BY <2>4, <3>1, Views DEF PhaseOf
  <2>5. CASE c \notin lapsed /\ c \notin taken
    BY <2>2, <2>5, Views
  <2> QED  BY <2>3, <2>4, <2>5
<1>4. UNCHANGED reports
  BY DEF HandOut, reports
<1> HIDE DEF lapsed
<1>5. phases' = [c \in Command |-> IF c \in lapsed THEN "lapsed" ELSE IF c \in taken THEN "offered"
                                   ELSE phases[c]]
  BY <1>3, ViewsAreFunctions
<1>6. devices' = [c \in Command |-> IF c \in given THEN "given" ELSE devices[c]]
  BY ViewsAreFunctions
<1>7. Execution!Offer(taken, lapsed, given)
  BY <1>2, <1>4, <1>5, <1>6 DEF Execution!Offer, Execution!Poll
<1>8. lapsed \in SUBSET Command /\ taken \in SUBSET Command /\ given \in SUBSET Command
  BY <1>1 DEF lapsed
<1> QED  BY <1>7, <1>8 DEF ExecutionStep, Execution!XNext

\* A result that is accepted settles a job with the verdict its device gave, or is a repetition.
LEMMA ResultSettles ==
    ASSUME OutcomeInv, NEW item, ResultOK(item, executed), AcceptsResult(item), RecordResult(item),
           UNCHANGED devices
    PROVE  ExecutionStep
<1> DEFINE c == item.id
<1>1. /\ c \in Command /\ item.status \in Verdict /\ executed[c] = <<item.status>>
      /\ RowOK(rows[c], stored[c], executed[c]) /\ DOMAIN rows = Command /\ DOMAIN stored = Command
  BY DEF ResultOK, OutcomeInv, TableOK
<1>2. devices[c] = item.status
  <2>1. executed[c] # <<>>
    BY <1>1, OneIsNotNone
  <2>2. ~Given(c) /\ ~Busy(c)
    BY <1>1, <2>1, AtWork
  <2>3. devices[c] = executed[c][1]
    BY <1>1, <2>1, <2>2, Views
  <2> QED  BY <1>1, <2>3
<1>3. CASE Replayed(item)
  <2>1. rows' = rows /\ stored[c] = item.status /\ stored' = [stored EXCEPT ![c] = item.status]
    BY <1>3 DEF RecordResult, Replayed
  <2>2. reports' = reports /\ phases' = phases
    BY <1>1, <2>1 DEF reports, phases
  <2> QED  BY <2>2 DEF ExecutionStep
<1>4. CASE ~Replayed(item)
  <2>1. /\ stored[c] = "none" /\ rows[c].state \notin TerminalStates
        /\ rows' = [rows EXCEPT ![c] = Completed(@, item.status)]
        /\ stored' = [stored EXCEPT ![c] = item.status]
    BY <1>4 DEF RecordResult, AcceptsResult, MayComplete
  <2>2. rows[c].state \in {"dispatched", "running"} /\ "state" \in DOMAIN rows[c]
    BY <1>1, <2>1, OneIsNotNone DEF RowOK, States
  <2>3. rows'[c].state = item.status /\ stored'[c] = item.status
        /\ \A o \in Command : o # c => rows'[o] = rows[o] /\ stored'[o] = stored[o]
    BY <1>1, <2>1, <2>2 DEF Completed
  <2> HIDE DEF c
  <2>4. phases[c] = "offered" /\ phases'[c] = item.status
    BY <1>1, <2>2, <2>3, Views DEF PhaseOf, Verdict
  <2>5. reports'[c] = {item.status}
    BY <1>1, <2>3, Views DEF Verdict
  <2>6. ASSUME NEW o \in Command, o # c  PROVE phases'[o] = phases[o] /\ reports'[o] = reports[o]
    <3>1. rows'[o] = rows[o] /\ stored'[o] = stored[o]
      BY <2>3, <2>6
    <3>2. phases'[o] = phases[o]
      BY <3>1, Views
    <3>3. reports'[o] = reports[o]
      BY <3>1, Views
    <3> QED  BY <3>2, <3>3
  <2>7. phases' = [phases EXCEPT ![c] = item.status] /\ reports' = [reports EXCEPT ![c] = {item.status}]
    BY <1>1, <2>4, <2>5, <2>6, ViewsAreFunctions
  <2>8. Execution!Settle(c, item.status)
    BY <1>2, <2>4, <2>7 DEF Execution!Settle, Execution!Conclude, c
  <2>9. item.status \in Execution!Verdict
    BY <1>1 DEF Verdict, Execution!Verdict
  <2> QED  BY <1>1, <2>8, <2>9 DEF ExecutionStep, Execution!XNext
<1> QED  BY <1>3, <1>4

\* A job that is marked as running stays on offer.
LEMMA RunningKeepsPhases ==
    ASSUME TableOK, NEW c \in Command, rows[c].state \in {"dispatched", "running"},
           rows' = [rows EXCEPT ![c] = Running(@)], UNCHANGED stored
    PROVE  UNCHANGED <<phases, reports>> /\ phases[c] = "offered"
<1>1. "state" \in DOMAIN rows[c] /\ DOMAIN rows = Command
  BY DEF TableOK, RowOK
<1>2. rows'[c].state = "running" /\ \A o \in Command : o # c => rows'[o] = rows[o]
  BY <1>1 DEF Running
<1>3. phases[c] = "offered" /\ phases'[c] = "offered"
  BY <1>2, Views DEF PhaseOf
<1>4. \A o \in Command : phases'[o] = phases[o]
  BY <1>2, <1>3, Views
<1> QED  BY <1>3, <1>4, ViewsAreFunctions DEF reports

\* What the services do on a request, while the agent takes nothing up, they may do.
LEMMA RequestRefines ==
    ASSUME OutcomeInv, NEW r, RequestOK(r, executed), Accepts(r), Effect(r), UNCHANGED devices
    PROVE  ExecutionStep
<1>1. CASE r.op = "acquire"
  <2>1. PICK taken \in Polls : HandOut(taken)
    BY <1>1 DEF Effect
  <2>2. \A c \in Command : devices'[c] = IF c \in {} THEN "given" ELSE devices[c]
    OBVIOUS
  <2>3. {} \in SUBSET taken
    OBVIOUS
  <2> QED  BY <2>1, <2>2, <2>3, PollIsOffer DEF OutcomeInv
<1>2. CASE r.op = "running"
  <2>1. /\ r.command \in Command /\ rows[r.command].state \in {"dispatched", "running"}
        /\ rows' = [rows EXCEPT ![r.command] = Running(@)] /\ UNCHANGED stored
    BY <1>2 DEF RequestOK, Accepts, Effect, MayRun
  <2> QED  BY <2>1, RunningKeepsPhases DEF OutcomeInv, ExecutionStep
<1>3. CASE r.op = "send" /\ r.item.kind = "telemetry"
  <2>1. UNCHANGED <<rows, stored>>
    BY <1>3 DEF Effect, RecordBatch
  <2> QED  BY <2>1, SameServices DEF ExecutionStep
<1>4. CASE r.op = "send" /\ r.item.kind = "command-result"
  <2>1. ResultOK(r.item, executed)
    BY <1>4 DEF RequestOK, ItemOK, TelemetryOK
  <2>2. AcceptsResult(r.item) /\ RecordResult(r.item)
    BY <1>4 DEF Accepts, Effect
  <2> QED  BY <2>1, <2>2, ResultSettles
<1> QED  BY <1>1, <1>2, <1>3, <1>4 DEF RequestOK, ItemOK, TelemetryOK, ResultOK

\* A step of the agent that calls nobody, or in vain, goes on or gives commands up.
LEMMA DropRefines ==
    ASSUME OutcomeInv, UNCHANGED <<rows, stored, executed>>, todo' \subseteq todo,
           UNCHANGED <<pc, job>> \/ pc' # "execute"
    PROVE  ExecutionStep
<1> DEFINE jobs == {c \in Command : devices'[c] # devices[c]}
<1>1. UNCHANGED <<phases, reports>>
  BY SameServices
<1>2. ASSUME NEW c \in jobs
      PROVE  devices[c] \in {"given", "busy"} /\ devices'[c] = "idle"
  <2>1. c \in Command /\ devices'[c] # devices[c]
    BY <1>2
  <2>2. (Given(c)' => Given(c)) /\ (Busy(c)' => Busy(c))
    BY DEF Given, Busy
  <2>3. (Given(c) \/ Busy(c) => executed[c] = <<>>) /\ ~(Given(c) /\ Busy(c))
    BY <2>1, AtWork
  <2>4. Given(c) \/ Busy(c)
    BY <2>1, <2>2, Views
  <2>5. ~Given(c)' /\ ~Busy(c)'
    BY <2>1, <2>2, <2>3, Views
  <2> QED  BY <2>1, <2>3, <2>4, <2>5, Views
<1>3. \A c \in Command : devices'[c] = IF c \in jobs THEN "idle" ELSE devices[c]
  BY <1>2
<1>4. \A c \in jobs : devices[c] \in {"given", "busy"}
  BY <1>2
<1>5. jobs \in SUBSET Command
  OBVIOUS
<1> HIDE DEF jobs
<1>6. devices' = [c \in Command |-> IF c \in jobs THEN "idle" ELSE devices[c]]
  BY <1>3, ViewsAreFunctions
<1>7. Execution!Drop(jobs)
  BY <1>1, <1>4, <1>6 DEF Execution!Drop, Execution!lifecycle
<1> QED  BY <1>5, <1>7 DEF ExecutionStep, Execution!XNext

\* A call without a usable answer changes nothing in the services.
LEMMA FailedCallChangesNothing ==
    ASSUME NEW r, Errs(r)
    PROVE  UNCHANGED <<rows, stored>>
BY DEF Errs, Refused, Unanswered, services

\* The acquired commands are given to the agent, which had none to do.
LEMMA AcquireRefines == ASSUME OutcomeInv, TodoOK, AcquireCommands  PROVE ExecutionStep
<1>0. pc = "acquire" /\ UNCHANGED executed /\ todo = {}
  BY DEF AcquireCommands, TodoOK
<1>1. ASSUME NEW taken \in Polls, HandOut(taken), pc' = "stamp",
             todo' = {[command |-> c, token |-> rows'[c].token, lease |-> rows'[c].lease,
                       expiresAt |-> rows'[c].expiresAt] : c \in taken}
      PROVE  ExecutionStep
  <2>1. \A c \in Command : Given(c)' <=> c \in taken
    <3> DEFINE grant(c) == [command |-> c, token |-> rows'[c].token, lease |-> rows'[c].lease,
                            expiresAt |-> rows'[c].expiresAt]
    <3>1. \A c : grant(c).command = c
      OBVIOUS
    <3>2. todo' = {grant(c) : c \in taken}
      BY <1>1
    <3> HIDE DEF grant
    <3>3. ASSUME NEW c \in Command  PROVE (\E g \in todo' : g.command = c) <=> c \in taken
      BY <3>1, <3>2
    <3> QED  BY <3>3 DEF Given
  <2>2. \A c \in Command : ~Given(c) /\ ~Busy(c) /\ ~Busy(c)'
    BY <1>0, <1>1 DEF Given, Busy
  <2>3. \A c \in Command : devices'[c] = IF c \in taken THEN "given" ELSE devices[c]
    BY <1>0, <2>1, <2>2, Views
  <2> QED  BY <1>1, <2>3, PollIsOffer DEF OutcomeInv
<1>2. CASE Errs(Poll) /\ Fail
  BY <1>0, <1>2, FailedCallChangesNothing, DropRefines DEF Fail
<1>3. CASE EndOfCycle /\ UNCHANGED services
  BY <1>0, <1>3, DropRefines DEF EndOfCycle, services
<1> QED  BY <1>1, <1>2, <1>3 DEF AcquireCommands

\* A command that the service lets start is one it offers still.
LEMMA MarkRunningRefines ==
    ASSUME OutcomeInv, NEW g \in todo, MarkRunning(g)
    PROVE  ExecutionStep
<1> DEFINE r == StartOf(g)
           c == g.command
<1>1. /\ pc = "next" /\ UNCHANGED executed
      /\ (Answered(r) /\ pc' = "execute" /\ job' = g /\ todo' = todo \ {g}) \/ (Errs(r) /\ Fail)
  BY DEF MarkRunning
<1>2. CASE Errs(r) /\ Fail
  BY <1>1, <1>2, FailedCallChangesNothing, DropRefines DEF Fail
<1>3. CASE Answered(r) /\ pc' = "execute" /\ job' = g /\ todo' = todo \ {g}
  <2>1. c \in Command /\ \A o \in todo : o.command = c => o = g
    BY DEF OutcomeInv, WorkOK, Pending
  <2>2. /\ rows[c].state \in {"dispatched", "running"} /\ UNCHANGED stored
        /\ rows' = [rows EXCEPT ![c] = Running(@)]
    BY <1>3 DEF Answered, Accepts, Effect, StartOf, MayRun
  <2>3. UNCHANGED <<phases, reports>> /\ phases[c] = "offered"
    BY <2>1, <2>2, RunningKeepsPhases DEF OutcomeInv
  <2>4. Given(c) /\ ~Given(c)' /\ Busy(c)'
    BY <1>3, <2>1 DEF Given, Busy
  <2>5. \A o \in Command : o # c => (Given(o)' <=> Given(o)) /\ ~Busy(o) /\ ~Busy(o)'
    BY <1>1, <1>3 DEF Given, Busy
  <2> HIDE DEF c
  <2>6. devices[c] = "given" /\ devices'[c] = "busy"
    BY <2>1, <2>4, Views
  <2>7. \A o \in Command : o # c => devices'[o] = devices[o]
    BY <1>1, <2>5, Views
  <2>8. devices' = [devices EXCEPT ![c] = "busy"]
    BY <2>1, <2>6, <2>7, ViewsAreFunctions
  <2>9. Execution!Begin(c)
    BY <2>3, <2>6, <2>8 DEF Execution!Begin, Execution!lifecycle
  <2> QED  BY <2>1, <2>9 DEF ExecutionStep, Execution!XNext
<1> QED  BY <1>1, <1>2, <1>3

\* The execution gives the command its verdict.
LEMMA ExecuteRefines == ASSUME OutcomeInv, Execute  PROVE ExecutionStep
<1> DEFINE c == job.command
<1>1. PICK outcome \in Verdict :
        /\ UNCHANGED <<services, wire, batches, spool>> \/ Reports \/ FailsToReport
        /\ executed' = [executed EXCEPT ![c] = Append(@, outcome)]
  BY DEF Execute
<1>2. pc = "execute" /\ pc' = "submit" /\ todo' = todo /\ c \in Command /\ Busy(c)
  BY DEF Execute, OutcomeInv, WorkOK, Pending, Busy
<1>3. UNCHANGED <<rows, stored>>
  <2>1. CASE UNCHANGED <<services, wire, batches, spool>>
    BY <2>1 DEF services
  <2> QED  BY <1>1, <2>1, ReportEffect DEF OutcomeInv
<1>4. ~Given(c) /\ executed[c] = <<>>
  BY <1>2, AtWork
<1>5. executed'[c] = << outcome >> /\ \A o \in Command : o # c => executed'[o] = executed[o]
  BY <1>1, <1>2, <1>4 DEF OutcomeInv, TableOK
<1>6. \A o \in Command : (Given(o)' <=> Given(o)) /\ ~Busy(o)' /\ (o # c => ~Busy(o))
  BY <1>2 DEF Given, Busy
<1> HIDE DEF c
<1>7. devices[c] = "busy" /\ devices'[c] = outcome
  <2>1. executed'[c] # <<>> /\ executed'[c][1] = outcome
    BY <1>5, OneIsNotNone
  <2> QED  BY <1>2, <1>4, <1>6, <2>1, Views
<1>8. \A o \in Command : o # c => devices'[o] = devices[o]
  BY <1>5, <1>6, Views
<1>9. devices' = [devices EXCEPT ![c] = outcome]
  BY <1>2, <1>7, <1>8, ViewsAreFunctions
<1>10. Execution!Perform(c, outcome)
  BY <1>3, <1>7, <1>9, SameServices DEF Execution!Perform, Execution!lifecycle
<1>11. outcome \in Execution!Verdict
  BY DEF Verdict, Execution!Verdict
<1> QED  BY <1>2, <1>10, <1>11 DEF ExecutionStep, Execution!XNext

\* An upload, of the result at hand or of the head of the spool.
LEMMA UploadRefines == ASSUME OutcomeInv, TodoOK, Submit \/ DrainSend  PROVE ExecutionStep
<1>1. CASE Submit
  <2>1. pc = "submit" /\ UNCHANGED <<executed, todo>> /\ pc' \in {"next", "keep"}
        /\ (Answered(Sending(job)) \/ Errs(Sending(job)))
    BY <1>1 DEF Submit, Goto, cycle
  <2>2. RequestOK(Sending(job), executed)
    BY <2>1 DEF OutcomeInv, WorkOK, RequestOK, ItemOK, Sending
  <2>3. CASE Answered(Sending(job))
    BY <2>1, <2>2, <2>3, SameDevice, RequestRefines DEF Answered
  <2>4. CASE Errs(Sending(job))
    BY <2>1, <2>4, FailedCallChangesNothing, DropRefines
  <2> QED  BY <2>1, <2>3, <2>4
<1>2. CASE DrainSend
  <2> DEFINE r == Sending(Upfront)
  <2>1. /\ pc = "drain" /\ spool # {} /\ UNCHANGED executed
        /\ (Answered(r) /\ Goto("ack")) \/ (Errs(r) /\ Fail)
    BY <1>2 DEF DrainSend
  <2>2. RequestOK(r, executed)
    BY <2>1, UpfrontIsThere DEF OutcomeInv, SpoolOK, RequestOK, Sending
  <2> HIDE DEF r
  <2>3. CASE Answered(r) /\ Goto("ack")
    BY <2>1, <2>2, <2>3, SameDevice, RequestRefines DEF Answered, Goto, cycle
  <2>4. CASE Errs(r) /\ Fail
    BY <2>1, <2>4, FailedCallChangesNothing, DropRefines DEF Fail
  <2> QED  BY <2>1, <2>3, <2>4
<1> QED  BY <1>1, <1>2

\* All other steps of the agent go on, start over or die.
LEMMA OthersRefine ==
    ASSUME OutcomeInv,
           \/ ListFails \/ Ack \/ Drained \/ Heartbeat \/ Telemetry \/ Stamp \/ CommandsDone
           \/ Keep \/ Broken \/ Start \/ Crash
           \/ \E g \in todo : Skip(g)
    PROVE  ExecutionStep
<1>1. CASE ListFails \/ Ack \/ Drained \/ Heartbeat \/ Stamp \/ CommandsDone
  <2>1. UNCHANGED <<rows, stored, executed>> /\ todo' \subseteq todo /\ pc' # "execute"
    BY <1>1 DEF ListFails, Ack, Drained, Heartbeat, Stamp, CommandsDone, EndOfCycle, Goto, cycle, Fail, services
  <2> QED  BY <2>1, DropRefines
<1>2. CASE Keep \/ Broken \/ Start \/ Crash
  <2>1. UNCHANGED <<rows, stored, executed>> /\ todo' \subseteq todo /\ pc' # "execute"
    BY <1>2 DEF Keep, Broken, Start, Crash, Fail, services
  <2> QED  BY <2>1, DropRefines
<1>3. CASE Telemetry
  <2>1. UNCHANGED executed /\ todo' \subseteq todo /\ pc' # "execute" /\ (Reports \/ FailsToReport)
    BY <1>3 DEF Telemetry, Goto, Fail, cycle
  <2>2. UNCHANGED <<rows, stored>>
    BY <2>1, ReportEffect DEF OutcomeInv
  <2> QED  BY <2>1, <2>2, DropRefines
<1>4. ASSUME NEW g \in todo, Skip(g)  PROVE ExecutionStep
  <2>1. UNCHANGED <<rows, stored, executed, pc, job>> /\ todo' \subseteq todo
    BY <1>4 DEF Skip, services
  <2> QED  BY <2>1, DropRefines
<1> QED  BY <1>1, <1>2, <1>3, <1>4

\* Jobs are asked for and cancelled; time passes and requests arrive late.
LEMMA SurroundingsRefine ==
    ASSUME OutcomeInv,
           \/ Tick
           \/ \E r \in wire : Deliver(r)
           \/ \E c \in Command : Cancel(c) \/ \E lifetime \in Lifetime : Create(c, lifetime)
    PROVE  ExecutionStep
<1>1. UNCHANGED <<pc, todo, job, executed>>
  BY DEF Tick, Deliver, Cancel, Create, cycle
<1>2. UNCHANGED devices
  BY <1>1, SameDevice
<1>3. CASE UNCHANGED <<rows, stored>>
  BY <1>2, <1>3, SameServices DEF ExecutionStep
<1>4. ASSUME NEW r \in wire, Deliver(r)  PROVE ExecutionStep
  <2>1. RequestOK(r, executed)
    BY DEF OutcomeInv, WireOK
  <2>2. CASE Accepts(r) /\ Effect(r)
    BY <1>2, <2>1, <2>2, RequestRefines
  <2> QED  BY <1>3, <1>4, <2>2 DEF Deliver, services
<1>5. ASSUME NEW c \in Command, NEW row, rows' = [rows EXCEPT ![c] = row], UNCHANGED stored
      PROVE  /\ phases' = [phases EXCEPT ![c] = PhaseOf(row.state)] /\ UNCHANGED reports
             /\ phases[c] = PhaseOf(rows[c].state)
  <2>1. rows'[c] = row /\ \A o \in Command : o # c => rows'[o] = rows[o]
    BY <1>5 DEF OutcomeInv, TableOK
  <2>2. phases'[c] = PhaseOf(row.state) /\ \A o \in Command : o # c => phases'[o] = phases[o]
    BY <2>1, Views
  <2> QED  BY <1>5, <2>2, Views, ViewsAreFunctions DEF reports
<1>6. ASSUME NEW c \in Command, Cancel(c)  PROVE ExecutionStep
  <2>1. /\ rows' = [rows EXCEPT ![c] = Cancelled(rows[c])] /\ UNCHANGED stored
        /\ rows[c].state \notin TerminalStates \cup {"absent"}
    BY <1>6 DEF Cancel, Cancellable, Exists
  <2>2. "state" \in DOMAIN rows[c] /\ rows[c].state \in {"queued", "dispatched", "running"}
    BY <2>1 DEF OutcomeInv, TableOK, RowOK, States
  <2>3. Cancelled(rows[c]).state = "cancelled"
    BY <2>2 DEF Cancelled
  <2>4. phases' = [phases EXCEPT ![c] = PhaseOf("cancelled")] /\ UNCHANGED reports
        /\ phases[c] = PhaseOf(rows[c].state)
    BY <1>5, <2>1, <2>3
  <2>5. phases[c] \in {"waiting", "offered"} /\ PhaseOf("cancelled") = "withdrawn"
    BY <2>2, <2>4 DEF PhaseOf
  <2>6. Execution!Withdraw(c)
    BY <2>4, <2>5 DEF Execution!Withdraw
  <2> QED  BY <1>2, <2>6 DEF ExecutionStep, Execution!XNext
<1>7. ASSUME NEW c \in Command, NEW lifetime \in Lifetime, Create(c, lifetime)  PROVE ExecutionStep
  <2> DEFINE row == NewRow(c, [device |-> Self, lifetime |-> lifetime], clock)
  <2>1. rows' = [rows EXCEPT ![c] = row] /\ UNCHANGED stored /\ rows[c].state = "absent"
    BY <1>7 DEF Create, Exists
  <2>2. row.state = "queued"
    BY DEF NewRow
  <2> HIDE DEF row
  <2>3. phases' = [phases EXCEPT ![c] = PhaseOf("queued")] /\ UNCHANGED reports
        /\ phases[c] = PhaseOf("absent")
    <3>1. /\ phases' = [phases EXCEPT ![c] = PhaseOf(row.state)] /\ UNCHANGED reports
          /\ phases[c] = PhaseOf(rows[c].state)
      BY <1>5, <2>1
    <3> QED  BY <2>1, <2>2, <3>1
  <2>4. phases[c] = "unborn" /\ PhaseOf("queued") = "waiting"
    BY <2>3 DEF PhaseOf
  <2>5. Execution!Submit(c)
    BY <2>3, <2>4 DEF Execution!Submit
  <2> QED  BY <1>2, <2>5 DEF ExecutionStep, Execution!XNext
<1>8. Tick => UNCHANGED <<rows, stored>>
  BY DEF Tick, services
<1> QED  BY <1>3, <1>4, <1>6, <1>7, <1>8

\* Every step of the endpoint is one the promise allows, or none of its concern.
LEMMA EndpointRefines ==
    ASSUME OutcomeInv, TodoOK, [EndpointNext]_endpointVars
    PROVE  ExecutionStep
<1>1. ASSUME Agent  PROVE ExecutionStep
  BY <1>1, UploadRefines, AcquireRefines, MarkRunningRefines, ExecuteRefines, OthersRefine DEF Agent
<1>2. CASE UNCHANGED vars
  BY <1>2, DropRefines DEF vars, services, cycle
<1>3. CASE Operations(Next)
  BY <1>1, <1>3, OthersRefine, SurroundingsRefine DEF Operations, Next
<1>4. CASE AgentCycles \/ AgentDies
  BY <1>1, <1>4, OthersRefine DEF AgentCycles, AgentDies
<1>5. CASE AppliesTo(Updater)
  BY <1>2, <1>5, OthersRefine DEF AppliesTo, Stopped
<1> QED  BY <1>2, <1>3, <1>4, <1>5 DEF EndpointNext, endpointVars

\* Only the steps among commands leave some to do.
LEMMA TodoStays == ASSUME TodoOK, [EndpointNext]_endpointVars  PROVE TodoOK'
<1>1. ASSUME ListFails \/ DrainSend \/ Ack \/ Drained \/ Heartbeat \/ Telemetry  PROVE TodoOK'
  BY <1>1 DEF ListFails, DrainSend, Ack, Drained, Heartbeat, Telemetry, Goto, Fail, cycle, TodoOK
<1>2. ASSUME AcquireCommands \/ Stamp \/ CommandsDone  PROVE TodoOK'
  BY <1>2 DEF AcquireCommands, Stamp, CommandsDone, EndOfCycle, Fail, TodoOK
<1>3. ASSUME \E g \in todo : Skip(g) \/ MarkRunning(g)  PROVE TodoOK'
  BY <1>3 DEF Skip, MarkRunning, Fail, TodoOK
<1>4. ASSUME Execute \/ Submit \/ Keep \/ Broken  PROVE TodoOK'
  BY <1>4 DEF Execute, Submit, Keep, Broken, Goto, Fail, cycle, TodoOK
<1>5. ASSUME Start \/ Crash  PROVE TodoOK'
  BY <1>5 DEF Start, Crash, TodoOK
<1>6. CASE UNCHANGED <<pc, todo>>
  BY <1>6 DEF TodoOK
<1>7. (\/ Tick \/ \E r \in wire : Deliver(r)
       \/ \E c \in Command : Cancel(c) \/ \E lifetime \in Lifetime : Create(c, lifetime))
         => UNCHANGED <<pc, todo>>
  BY DEF Tick, Deliver, Cancel, Create, cycle
<1>8. UNCHANGED vars => UNCHANGED <<pc, todo>>
  BY DEF vars, cycle
<1> QED
  BY <1>1, <1>2, <1>3, <1>4, <1>5, <1>6, <1>7, <1>8
  DEF EndpointNext, Operations, Next, Agent, AgentCycles, AgentDies, AppliesTo, Stopped, endpointVars

\* Service, agent, spool and network implement the promise: a job is offered once, runs at
\* most once and only if it is on offer, and no verdict but that of the run is recorded,
\* whatever is lost, late, repeated, killed or replaced.
THEOREM JobsExecuteAsPromised == EndpointSpec => ExecutesAsPromised
<1>1. EndpointInit => Execution!XInit /\ TodoOK
  <2> SUFFICES ASSUME EndpointInit  PROVE Execution!XInit /\ TodoOK
    OBVIOUS
  <2>1. /\ rows = [c \in Command |-> NoRow] /\ stored = [c \in Command |-> "none"] /\ todo = {}
        /\ pc = "exited" /\ executed = [c \in Command |-> <<>>]
    BY DEF EndpointInit, Init
  <2>2. \A c \in Command : phases[c] = "unborn" /\ reports[c] = {} /\ devices[c] = "idle"
    BY <2>1 DEF phases, reports, devices, PhaseOf, NoRow
  <2>3. /\ phases = [c \in Command |-> "unborn"] /\ reports = [c \in Command |-> {}]
        /\ devices = [c \in Command |-> "idle"]
    BY <2>2, ViewsAreFunctions
  <2> QED  BY <2>1, <2>3 DEF Execution!XInit, Execution!LInit, TodoOK
<1>2. OutcomeInv /\ TodoOK /\ [EndpointNext]_endpointVars => TodoOK' /\ [Execution!XNext]_(Execution!execution)
  BY TodoStays, EndpointRefines DEF ExecutionStep, Execution!execution, Execution!lifecycle
<1> QED
  BY <1>1, <1>2, OutcomeInitially, OutcomeSteps, PTL DEF EndpointSpec, ExecutesAsPromised, Execution!XSpec

\* The promise to those who ask for jobs includes what command-service promises alone
\* (CommandLifecycle): the agent takes nothing from it.
THEOREM PromiseKeepsLifecycle == ExecutesAsPromised => Execution!LSpec
<1>1. Execution!XInit => Execution!LInit
  BY DEF Execution!XInit
<1>2. [Execution!XNext]_(Execution!execution) => [Execution!LNext]_(Execution!lifecycle)
  <2>1. CASE \E offered, lapsed, given \in SUBSET Command : Execution!Offer(offered, lapsed, given)
    BY <2>1 DEF Execution!Offer, Execution!LNext
  <2>2. CASE \E jobs \in SUBSET Command : Execution!Drop(jobs)
    BY <2>2 DEF Execution!Drop
  <2>3. ASSUME NEW c \in Command, Execution!Submit(c) \/ Execution!Withdraw(c)
        PROVE  Execution!LNext
    BY <2>3 DEF Execution!LNext
  <2>4. ASSUME NEW c \in Command, Execution!Begin(c)
        PROVE  UNCHANGED Execution!lifecycle
    BY <2>4 DEF Execution!Begin
  <2>5. ASSUME NEW c \in Command, NEW outcome \in Execution!Verdict,
               Execution!Perform(c, outcome) \/ Execution!Settle(c, outcome)
        PROVE  Execution!LNext \/ UNCHANGED Execution!lifecycle
    BY <2>5 DEF Execution!Perform, Execution!Settle, Execution!LNext
  <2>6. CASE UNCHANGED Execution!execution
    BY <2>6 DEF Execution!execution
  <2> QED  BY <2>1, <2>2, <2>3, <2>4, <2>5, <2>6 DEF Execution!XNext
<1> QED  BY <1>1, <1>2, PTL DEF ExecutesAsPromised, Execution!XSpec, Execution!LSpec
=============================================================================
