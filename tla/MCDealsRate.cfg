SPECIFICATION Spec
CONSTANTS
  s1 = s1  s2 = s2  won = won  lost = lost
  eur = eur  usd = usd  chf = chf
  Requests = {p1}
  Agents = {}
  Tokens = {}
  Stages <- OpenAndWon
  Semantic <- SemanticOfOpenAndWon
  Currencies = {eur, usd}
  Base = eur
  Rated = {usd}
  Fading = {}
  Ops = {"update"}
  MaxMatch = 2
  None = None
CHECK_DEADLOCK FALSE
INVARIANTS
  FrozenRateFitsCurrency
