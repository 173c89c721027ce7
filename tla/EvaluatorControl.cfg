SPECIFICATION Spec
CONSTANTS
  Obj = {}
  NoObj = none
  Construct = {"scope", "if", "loop", "call", "try", "except", "let", "return", "operand", "element"}
  MaxDepth = 5
  MaxReturns = 2
  MaxHeld = 1
INVARIANTS TypeOK DoomIsFinal
