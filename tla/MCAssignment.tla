---------------------------- MODULE MCAssignment ----------------------------
(* Assignment for TLC: workers, polls and jobs are interchangeable.        *)
EXTENDS Assignment, TLC

Interchangeable ==
  Permutations(Workers) \cup Permutations(Pollers) \cup Permutations(Jobs)
=============================================================================
