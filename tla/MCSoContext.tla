---------------------------- MODULE MCSoContext -----------------------------
(* Instances of SoContext for TLC. *)
EXTENDS SoContext, TLC
CONSTANTS p1, p2, p3, p4
ProcSymmetry == Permutations(Procs)
=============================================================================
