--------------------------- MODULE MCMicroThread ---------------------------
(* Instance of MicroThread for TLC. *)
EXTENDS MicroThread

CONSTANTS p1, p2, f1
=============================================================================
