--------------------------- MODULE MCMasterServer ---------------------------
(* MasterServer for TLC: workers, handlers and jobs are interchangeable.   *)
EXTENDS MasterServer, TLC

Symmetric ==
  Permutations(Workers) \cup Permutations(Handlers) \cup Permutations(Jobs)
=============================================================================
