CONSTANTS
  Opens = {o1, o2}
  Closes = {k1, k2}
  Devices = {da, db}
  Nobody = Nobody
  Stranger = Stranger
SPECIFICATION FairSpec
INVARIANTS
  TypeOK
  SlotHoldsPort
  NoStrandedPort
  OneCloseEach
  LoneCloseIsExplained
PROPERTIES
  OpensAreAnswered
  PortsAreFreed
