--------------------------- MODULE MCOutboxRelay ---------------------------
(* Model values for TLC: interchangeable entities and relays.  Symmetry is only *)
(* for runs without liveness.                                                   *)
EXTENDS OutboxRelay, TLC

Symmetry == Permutations(Entities) \cup Permutations(Relays)
=============================================================================
