SPECIFICATION FairSpec
CONSTANTS
  Num = 4
INVARIANT TypeOK
INVARIANT TurnsInOrder
PROPERTY AllEnd
CHECK_DEADLOCK FALSE
