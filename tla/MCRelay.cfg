CONSTANTS
  SetsOn = {}
  SetsOff = {}
  Cycles = {c1, c2}
  Queries = {q1}
  Polarity = "nc"
SPECIFICATION FairSpec
INVARIANTS
  TypeOK
  StrandedOnlyByRelay
  LoneAnswerIsTrue
PROPERTY CallsComeBack
