SPECIFICATION OrderlySpec
PROPERTIES SessionEnds FileArrives
CONSTANTS
  w1 = w1  w2 = w2  r1 = r1  r2 = r2
  Writers <- TwoWriters
  Readers <- TwoReaders
  MaxLen = 2
  Leftover <- NoLeftover
  NoChunk = NoChunk
  Torn = Torn
CHECK_DEADLOCK FALSE
