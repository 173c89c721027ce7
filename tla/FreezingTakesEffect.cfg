SPECIFICATION Spec
CONSTANTS
  a = a
  s = s
  d = d
  e = e
  Obj = {a}
  Kind <- OneArray
  Elem = {1}
  Null = null
  Freezer = {f}
  NoObj = none
  MaxLen = 1
  MaxFrozen = 1
  MaxNest = 1
PROPERTY FreezeTakesEffect
