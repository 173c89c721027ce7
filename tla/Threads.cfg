SPECIFICATION FairSpec
CONSTANTS
  Thread = {t1, t2}
  Native = {n1, n2}
  Main = main
  None = none
INVARIANTS TypeOK JoinedHasValue RunningIsAlive
PROPERTIES ValueWrittenOnce PromiseKept JoinReturns
