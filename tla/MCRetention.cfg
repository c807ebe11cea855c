SPECIFICATION FairSpec
CONSTANTS
  LeadIds = {l1}
  People = {p1, p2}
  Promotions = {a, b}
  Patched = {"working"}
  Addresses = {x}
  Ladders <- AllSteps
  MaxFails = 1
  MaxNews = 3
  None = None
CHECK_DEADLOCK FALSE
INVARIANTS
  TwinsNeedStaleRead
  ErasureIsWhole
PROPERTIES
  SweepSparesProtected
  DueIsActedOn
