CONSTANTS
  SetsOn = {}
  SetsOff = {z1}
  Cycles = {}
  Queries = {q1}
  Polarity = "nc"
SPECIFICATION Spec
INVARIANT StatusIsTrue
