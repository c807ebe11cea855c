SPECIFICATION Spec
CONSTANTS
  s1 = s1  s2 = s2  won = won  lost = lost
  eur = eur  usd = usd  chf = chf
  Requests = {p1, p2}
  Agents = {p1}
  Tokens = {t1}
  Stages <- OpenAndWon
  Semantic <- SemanticOfOpenAndWon
  Currencies = {eur, usd}
  Base = eur
  Fading = {s2}
  Rated = {usd}
  Ops = {"advance","update","archive","restore"}
  MaxMatch = 2
  None = None
CHECK_DEADLOCK FALSE
INVARIANTS
  MatchedAdvanceIsApproved
  AdvanceRowsChain
  OneWritePerVersion
  PartedOnlyByPatch
