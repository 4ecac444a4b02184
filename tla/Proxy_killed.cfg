SPECIFICATION Spec
CONSTANTS
  N = 2
  FileLen = 1
  PipeCap = 1
  Size <- SizeSmall
INVARIANT KilledIsReported
CHECK_DEADLOCK FALSE
