CONSTANTS
  Sends = {}
  Scans = {d1}
  Cycles = {}
  Rates = {rb}
  Original = ra
  Refusable = {rb}
  Fickle = {}
  Odd = Odd
  None = None
  Nobody = Nobody
  Closer = Closer
  Drainer = Drainer
  Payload = 1
  MaxHead = 1
  MaxRevisits = 0
SPECIFICATION FairSpec
PROPERTIES
  CloseCompletes
  CaptureResumes
  UnplugIsNoticed
  CallsAreAnswered
