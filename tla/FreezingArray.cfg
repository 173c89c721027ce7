SPECIFICATION Spec
CONSTANTS
  a = a
  s = s
  d = d
  e = e
  Obj = {a}
  Kind <- OneArray
  Elem = {1, 2}
  Null = null
  Freezer = {f}
  NoObj = none
  MaxLen = 2
  MaxFrozen = 2
  MaxNest = 2
INVARIANTS TypeOK FreezeBalance LoopHoldsFreeze FrozenIsStable
