-------------------------- MODULE MCMasterProcess --------------------------
(* MasterProcess for TLC.  Liveness is checked: no symmetry.               *)
EXTENDS MasterProcess, TLC
=============================================================================
