SPECIFICATION Spec
CONSTANTS
  Items = {i1, i2}
  Requests = {r1, r2}
  Sweepers = {s1}
  Payloads = {plain, yellow}
  Yellow = {yellow}
  DeciderEmits = TRUE
  SweepEmits = TRUE
  None = None
SYMMETRY Symmetry
CHECK_DEADLOCK FALSE
INVARIANTS
  OneDecider
  SecondEffectFollowsRollback
  EffectIsAuthorized
  YellowOnlyAsStaged
  RestageSpends
  EventsMatchRows
PROPERTIES
  ImplementsQueue
