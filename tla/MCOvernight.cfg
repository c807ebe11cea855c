SPECIFICATION Spec
CONSTANTS
  Deals = {d1}
  Items = {i1, i2}
  Passes = {p1, p2}
  Humans = {h1, h2}
  Effects = {x}
  MaxEdits = 2
  MaxFails = 1
  None = None
CHECK_DEADLOCK FALSE
INVARIANTS
  RepeatNeedsFailure
  OnlyDecidedRuns
PROPERTIES
  PassKeepsNewerEdits
