SPECIFICATION Spec
CONSTANTS
  MaxKey = 5
  Key <- MCKey
  Value = {1, 2}
  Nodes <- MCNodes
  Data <- FewItems
INVARIANT TypeOK
INVARIANT NoNullAccess
INVARIANT WellFormed
PROPERTY IsDictionary
