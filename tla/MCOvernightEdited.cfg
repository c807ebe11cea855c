SPECIFICATION Spec
CONSTANTS
  Deals = {d1}
  Items = {i1, i2}
  Passes = {p1}
  Humans = {h1}
  Effects = {x, y}
  MaxEdits = 1
  MaxFails = 0
  None = None
SYMMETRY Symmetry
CHECK_DEADLOCK FALSE
INVARIANTS
  EditedVersionRuns
