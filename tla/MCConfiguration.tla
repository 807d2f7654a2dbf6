-------------------------- MODULE MCConfiguration --------------------------
(* Configuration for TLC: the settings and the length of their JSON.       *)
EXTENDS Configuration, TLC

CONSTANTS short, long, bad

MCLength == (short :> 1) @@ (long :> 2) @@ (bad :> 1)

Interchangeable == Permutations(Admins) \cup Permutations(Pollers)
=============================================================================
