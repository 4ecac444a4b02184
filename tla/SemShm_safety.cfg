SPECIFICATION Spec
SYMMETRY Symmetric
INVARIANTS TypeOK ShmExclusive OutputIsPrefix FinishedIsPrinted CleanSlate UndoIsExact
CONSTANTS
  w1 = w1  w2 = w2  r1 = r1  r2 = r2
  Writers <- TwoWriters
  Readers <- TwoReaders
  MaxLen = 2
  Leftover <- AnyLeftover
  NoChunk = NoChunk
  Torn = Torn
CHECK_DEADLOCK FALSE
