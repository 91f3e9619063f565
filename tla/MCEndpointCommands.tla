------------------------- MODULE MCEndpointCommands -------------------------
(* EndpointCommands for TLC: two commands, the second an inventory.refresh. *)
EXTENDS EndpointCommands

AgentDevice == "d1"
=============================================================================
