SPECIFICATION DeletingSpec
CONSTANTS
  MaxKey = 10
  Key <- MCKey
  Value = {1}
  Nodes <- MCNodes
  Data <- ManyItems
INVARIANT WellFormed
PROPERTY CallsReturn
CHECK_DEADLOCK FALSE
