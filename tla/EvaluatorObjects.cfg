SPECIFICATION Spec
CONSTANTS
  Obj = {obj1}
  NoObj = none
  Construct = {"scope", "loop", "call", "method", "construct", "let", "return"}
  MaxDepth = 3
  MaxReturns = 1
  MaxHeld = 1
INVARIANTS ScopeCleansUp
PROPERTY DestructedStays
