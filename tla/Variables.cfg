SPECIFICATION Spec
CONSTANTS
  k = k
  y = y
  a = a
  p = p
  Name = {k, y, a, p}
  Inner = {a, p}
  Parameter = {p}
  Constant = {k}
  Declared <- Declarations
  Cell = {1, 2, 3}
  MaxLength = 1
INVARIANTS ScalarsAreOwned FitsDeclaration StoresStayInside
PROPERTIES AnyIsPinned
CHECK_DEADLOCK FALSE
