------------------------------ MODULE MCIntake ------------------------------
(* Intake for TLC: all files end with the same content, as duplicates do.  *)
(* Liveness is checked: no symmetry.                                       *)
EXTENDS Intake, TLC

CONSTANT film

MCContent == [f \in Files |-> film]

MCUnread == [both \in BOOLEAN |-> IF both THEN 0 ELSE 2]
=============================================================================
