SPECIFICATION Spec
CONSTANTS
  Place = {x, y}
  Cell = {c1, c2, c3}
  Thread = {t1, t2}
  Width = 2
  MaxFrozen = 1
SYMMETRY Symmetry
INVARIANTS UpdatesAddUp
CHECK_DEADLOCK FALSE
