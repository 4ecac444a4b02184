SPECIFICATION FairSpec
CONSTANTS
  Workers = {w1, w2, w3}
  MaxMachines = 2
  MaxThreads = 3
  None = None
INVARIANT TypeOK
INVARIANT ResultIsComplete
INVARIANT FailureHasACause
INVARIANT NobodysWorkIsLost
PROPERTY AllEnd
CHECK_DEADLOCK FALSE
