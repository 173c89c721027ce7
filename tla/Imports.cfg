SPECIFICATION Spec
CONSTANTS
  Name = {"a", "b", "c", "os"}
  Builtin = {"os"}
  BuiltinModule <- MCBuiltinModule
  Provided <- MCProvided
  Path <- MCPath
  Statement <- MCStatement
  Programs <- MCPrograms
  Missing = Missing
  MaxModule = 10
  MaxDepth = 4
INVARIANTS NoHalfModules CodeRunsOnce
PROPERTIES BindingsStay
CHECK_DEADLOCK FALSE
