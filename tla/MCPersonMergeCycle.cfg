SPECIFICATION Spec
CONSTANTS
  People = {a, b}
  Addresses = {x, y}
  Requests = {r1, r2}
  NoOne = NoOne
SYMMETRY Symmetry
CHECK_DEADLOCK FALSE
INVARIANTS
  ChainsEnd
