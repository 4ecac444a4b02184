SPECIFICATION FairSpec
CONSTANTS
  Width = 3
  MaxLen = 2
INVARIANT TypeOK
INVARIANT OutputIsFile
PROPERTY BothEnd
CHECK_DEADLOCK FALSE
