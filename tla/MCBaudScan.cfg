SPECIFICATION Spec
CONSTANTS
  MaxBaudRate = 6
  LineLength = 8
  NoRate = NoRate
  Asks <- MCAsks
  Chunks <- MCChunks
  Original = 1
  Dwell = 4
  Overshoot = 1
  Budget = 20
  Deadline = 22
  OffFloor = 1
  OffCeiling = 4
  Margin = 3
  Trips = 1
INVARIANTS
  TypeOK
  VerdictIsEarned
  ScanEndsInTime
CHECK_DEADLOCK FALSE
