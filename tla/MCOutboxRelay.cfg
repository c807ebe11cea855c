SPECIFICATION FairSpec
CONSTANTS
  Events = {1, 2, 3}
  Entities = {k1}
  Relays = {r1, r2}
  BatchSize = 2
  MaxFails = 1
  None = None
CHECK_DEADLOCK FALSE
INVARIANTS
  RepeatsNeedFailure
  CausesComeFirst
PROPERTIES
  ImplementsDelivery
  CommittedIsPublished
