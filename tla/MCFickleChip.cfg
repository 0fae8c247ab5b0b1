CONSTANTS
  Sends = {}
  Scans = {d1}
  Cycles = {}
  Rates = {ra, rb}
  Original = ra
  Refusable = {rb}
  Fickle = {ra}
  Odd = Odd
  None = None
  Nobody = Nobody
  Closer = Closer
  Drainer = Drainer
  Payload = 1
  MaxHead = 1
  MaxRevisits = 0
SPECIFICATION Spec
INVARIANT BaudIsLive
