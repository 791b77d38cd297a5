---------------------------- MODULE MCCallWheel ----------------------------
(* Instance of CallWheel for TLC. *)
EXTENDS CallWheel

CONSTANTS c1, c2, c3

\* a delay in the past, the next tick, and one that shares a bucket with it
SomeTicks == {-1, 1, 3}
=============================================================================
