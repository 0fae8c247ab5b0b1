CONSTANTS
  SetsOn = {}
  SetsOff = {}
  Cycles = {c1}
  Queries = {}
  Polarity = "nc"
SPECIFICATION Spec
INVARIANT CycleLeavesPower
