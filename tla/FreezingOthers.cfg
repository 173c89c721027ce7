SPECIFICATION Spec
CONSTANTS
  a = a
  s = s
  d = d
  e = e
  Obj = {s, d, e}
  Kind <- Others
  Elem = {1, 2}
  Null = null
  Freezer = {}
  NoObj = none
  MaxLen = 2
  MaxFrozen = 1
  MaxNest = 1
INVARIANT FrozenIsStable
