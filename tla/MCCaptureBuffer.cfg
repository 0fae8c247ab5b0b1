CONSTANTS
  Capacity = 3
  Zero = 0
  MaxHead = 7
  Byte <- MCByte
  Chunks <- MCChunks
  Cursors <- MCCursors
  Limits <- MCLimits
SPECIFICATION Spec
INVARIANTS
  TypeOK
  RingHoldsTail
PROPERTY RefinesLog
