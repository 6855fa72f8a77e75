--------------------------- MODULE MCSessionLocks ---------------------------
(* Values for checking SessionLocks; no symmetry, since the run has liveness. *)
EXTENDS SessionLocks, TLC
=============================================================================
