---------------------------- MODULE MCOvernight ----------------------------
(* Model values for TLC: interchangeable deals, items, passes and humans. *)
EXTENDS Overnight, TLC

Symmetry == Permutations(Deals) \cup Permutations(Items) \cup Permutations(Passes)
            \cup Permutations(Humans) \cup Permutations(Effects)
=============================================================================
