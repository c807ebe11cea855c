SPECIFICATION Spec
CONSTANTS
  Items = {i1}
  Requests = {r1, r2}
  Sweepers = {s1}
  Payloads = {plain}
  Yellow = {}
  DeciderEmits = TRUE
  SweepEmits = TRUE
  None = None
SYMMETRY Symmetry
CHECK_DEADLOCK FALSE
INVARIANTS
  NeverRefires
