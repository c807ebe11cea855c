----------------------------- MODULE MCRetention -----------------------------
(* The policies TLC tries: the seeded one, and the other steps of the ladder. *)
EXTENDS Retention

Ladder(l, p) == [lead |-> l, person |-> p]

AllSteps == {Ladder("anonymize", "erase"), Ladder("archive", "anonymize"), Ladder("erase", "archive")}
LeadErase == {Ladder("erase", "erase")}
=============================================================================
