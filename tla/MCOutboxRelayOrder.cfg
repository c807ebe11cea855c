SPECIFICATION Spec
CONSTANTS
  Events = {1, 2}
  Entities = {k1}
  Relays = {r1}
  BatchSize = 2
  MaxFails = 0
  None = None
SYMMETRY Symmetry
CHECK_DEADLOCK FALSE
INVARIANTS
  EntityInCommitOrder
