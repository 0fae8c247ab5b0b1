CONSTANTS
  Sends = {}
  Scans = {d1}
  Cycles = {p1}
  Rates = {rb}
  Original = ra
  Refusable = {rb}
  Fickle = {}
  Odd = Odd
  None = None
  Nobody = Nobody
  Closer = Closer
  Drainer = Drainer
  Payload = 1
  MaxHead = 1
  MaxRevisits = 1
SPECIFICATION Spec
INVARIANTS
  TypeOK
  SolePortReader
  BaudIsLive
  EvidenceFramedAtCandidate
  CaptureAtReportedRate
  WinnerIsLive
  GapCoversSuspension
  NoStaleSuspension
  EndIsExplained
