---------------------------- MODULE MCWorkerNode ----------------------------
(* WorkerNode for TLC.  Liveness is checked: no symmetry.                  *)
EXTENDS WorkerNode, TLC
=============================================================================
