SPECIFICATION Spec
CONSTANTS
  Capacity = 2
  DefaultLimit = 2
  MaxReadLimit = 3
  MaxHead = 4
  MaxScans = 2
  None = None
  Limits <- MCLimits
  Cursors <- MCCursors
INVARIANTS
  TypeOK
  SuspensionsTold
  CaptureIsWhole
  OpenIsToldAsItWas
CHECK_DEADLOCK FALSE
