SPECIFICATION Spec
CONSTANTS
  Deals = {d1, d2}
  Items = {i1, i2}
  Passes = {p1}
  Humans = {h1}
  Effects = {x}
  MaxEdits = 1
  MaxFails = 0
  None = None
SYMMETRY Symmetry
CHECK_DEADLOCK FALSE
INVARIANTS
  PassWritesAreAudited
