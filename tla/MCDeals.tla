------------------------------ MODULE MCDeals ------------------------------
(* Values for TLC: two open stages, a won and a lost one. *)
EXTENDS Deals, TLC

CONSTANTS s1, s2, won, lost, eur, usd, chf

AllStages == {s1, s2, won, lost}
OpenAndWon == {s1, s2, won}
SemanticOf ==
  s1 :> "open" @@ s2 :> "open" @@ won :> "won" @@ lost :> "lost"
SemanticOfOpenAndWon == s1 :> "open" @@ s2 :> "open" @@ won :> "won"
JustOpen == {s1}
SemanticOfJustOpen == s1 :> "open"
=============================================================================
