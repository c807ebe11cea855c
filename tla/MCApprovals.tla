---------------------------- MODULE MCApprovals ----------------------------
(* Model values for TLC: interchangeable items and requests. *)
EXTENDS Approvals, TLC

Symmetry == Permutations(Items) \cup Permutations(Requests)
=============================================================================
