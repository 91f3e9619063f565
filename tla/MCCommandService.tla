-------------------------- MODULE MCCommandService --------------------------
(* CommandService for TLC: symmetric identifiers, small sets of integers. *)
EXTENDS CommandService, TLC

CONSTANTS c1, c2, h1, h2

\* Below zero, which asks for nothing, and above MAX_ACQUIRE_LIMIT.
PollLimits == {-1, 2}

HandlerSymmetry == Permutations(Handler)
=============================================================================
