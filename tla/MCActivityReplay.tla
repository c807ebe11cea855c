-------------------------- MODULE MCActivityReplay --------------------------
(* Model values for TLC. *)
EXTENDS Activities, TLC

Symmetry == Permutations(Acts) \cup Permutations(Captures)
=============================================================================
