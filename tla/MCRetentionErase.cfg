SPECIFICATION FairSpec
CONSTANTS
  LeadIds = {l1}
  People = {p1, p2}
  Promotions = {a, b}
  Patched = {"working"}
  Addresses = {x}
  Ladders <- LeadErase
  MaxFails = 1
  MaxNews = 3
  None = None
CHECK_DEADLOCK FALSE
PROPERTY
  DueIsAlwaysActedOn
