CONSTANTS
  Sends = {s1, s2, s3}
  Scans = {}
  Cycles = {}
  Rates = {ra, rb}
  Original = ra
  Refusable = {rb}
  Fickle = {}
  Odd = Odd
  None = None
  Nobody = Nobody
  Closer = Closer
  Drainer = Drainer
  Payload = 2
  MaxHead = 1
  MaxRevisits = 0
SPECIFICATION Spec
SYMMETRY Interchangeable
INVARIANTS
  PortOpenWhileUsed
  SendRepliesAreTrue
  OneLateWrite
  CloseReportsPort
PROPERTIES
  DeathIsFinal
  ImplementsLease
