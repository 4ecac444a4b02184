SPECIFICATION FairSpec
CONSTANTS
  N = 3
  FileLen = 2
  PipeCap = 1
  Size <- SizeSmall
INVARIANT TypeOK
INVARIANT OutputIsPrefix
INVARIANT SuccessIsComplete
INVARIANT FailureHasACause
INVARIANT WaitNeverBlocks
PROPERTY AlwaysEnds
CHECK_DEADLOCK FALSE
