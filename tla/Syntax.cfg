SPECIFICATION Spec
CONSTANT Inputs <- MCInputs
INVARIANTS AcceptedIsWhole  NothingIsLost OperatorsBindByPrecedence DocsGoToTheNextFunction TrimmingKeepsBehaviour
CHECK_DEADLOCK FALSE
