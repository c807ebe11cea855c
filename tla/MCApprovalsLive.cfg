SPECIFICATION FairSpec
CONSTANTS
  Items = {i1, i2}
  Requests = {r1, r2}
  Sweepers = {s1}
  Payloads = {yellow}
  Yellow = {yellow}
  DeciderEmits = FALSE
  SweepEmits = FALSE
  None = None
CHECK_DEADLOCK FALSE
PROPERTIES
  OverdueIsDecided
