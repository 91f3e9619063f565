------------------------------- MODULE Endpoint -------------------------------
(***************************************************************************)
(* The agent's service with its updater.  The helper stops and starts the  *)
(* process whose steps EndpointCommands describes; that process writes the *)
(* health marker when its first cycle is complete.                         *)
(*                                                                         *)
(* `setting` chooses what is looked at: the work of an agent, with its     *)
(* spool and its commands, or its replacement, while it has nothing to do  *)
(* but its cycles.                                                         *)
(***************************************************************************)
EXTENDS EndpointCommands, AgentUpdate

VARIABLE setting

endpointVars == <<vars, updaterVars, setting>>

EndpointInit == Init /\ UpdaterInit /\ setting \in {"operations", "update"}

-----------------------------------------------------------------------------
\* One step of the process while it may be replaced.
AgentCycles ==
    /\ setting = "update" /\ Agent
    /\ UNCHANGED <<batches, wire, setting>>
    /\ IF pc' = "exited" THEN AgentExits
       ELSE IF first /\ ~first' THEN MarkHealthy
       ELSE UNCHANGED updaterVars

\* The process dies, before or after it has written the marker.
AgentDies == setting = "update" /\ Crash /\ AgentExits /\ UNCHANGED setting

Stopped == IF pc = "exited" THEN UNCHANGED vars ELSE Crash

\* What the updater's steps, a power cut and a boot do to the process.
AppliesTo(step) ==
    /\ setting = "update" /\ step
    /\ IF running' = None THEN Stopped
       ELSE IF running = None THEN Start
       ELSE UNCHANGED vars
    /\ UNCHANGED setting

Operations(step) == setting = "operations" /\ step /\ UNCHANGED <<updaterVars, setting>>

EndpointNext == Operations(Next) \/ AgentCycles \/ AgentDies \/ AppliesTo(Updater)

-----------------------------------------------------------------------------
\* As in EndpointCommands.
EndpointFairness ==
    /\ WF_endpointVars(Operations(Agent))
    /\ WF_endpointVars(Operations(Start))
    /\ SF_endpointVars(Operations(DrainSend /\ pc' = "ack"))
    /\ SF_endpointVars(Operations(Ack /\ spool' # spool))

EndpointSpec == EndpointInit /\ [][EndpointNext]_endpointVars /\ EndpointFairness
===============================================================================
