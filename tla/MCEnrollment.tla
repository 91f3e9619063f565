---------------------------- MODULE MCEnrollment ----------------------------
(* Enrollment for TLC: interchangeable handlers. *)
EXTENDS Enrollment, TLC

CONSTANTS h1, h2

HandlerSymmetry == Permutations(Handler)
=============================================================================
