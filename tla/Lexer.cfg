SPECIFICATION Spec
CONSTANT Inputs <- MCInputs
INVARIANTS LongestMatch StringsKeepTheirQuotes
PROPERTIES LinesFollowTheText ReachesTheEnd
CHECK_DEADLOCK FALSE
