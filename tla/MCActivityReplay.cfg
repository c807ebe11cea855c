SPECIFICATION ActSpec
CONSTANTS
  Acts = {a1, a2, a3}
  SourceKeys = {k1}
  Targets = {t1}
  Captures = {c1, c2, c3}
  MaxEdits = 3
  NoAct = NoAct
SYMMETRY Symmetry
CHECK_DEADLOCK FALSE
INVARIANTS
  ReplayAnswersExisting
