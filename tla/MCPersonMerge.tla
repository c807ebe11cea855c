--------------------------- MODULE MCPersonMerge ---------------------------
(* Model values for TLC. *)
EXTENDS PersonMerge, TLC

Symmetry == Permutations(People) \cup Permutations(Requests) \cup Permutations(Addresses)
=============================================================================
