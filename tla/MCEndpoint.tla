------------------------------ MODULE MCEndpoint ------------------------------
(* Endpoint for TLC: two commands, the second an inventory.refresh; two releases
   after the installed version. *)
EXTENDS Endpoint
===============================================================================
