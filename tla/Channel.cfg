SPECIFICATION Spec
CONSTANTS
  Size = 4
  Byte <- MCByte
  Zero = 0
  MaxBytes = 7
INVARIANT TypeOK
INVARIANT RoomIsFree
INVARIANT DataIsUsed
PROPERTY IsFifo
CHECK_DEADLOCK FALSE
