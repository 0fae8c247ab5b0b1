CONSTANTS
  Opens = {o1, o2, o3}
  Closes = {k1, k2}
  Devices = {da, db}
  Nobody = Nobody
  Stranger = Stranger
SPECIFICATION Spec
SYMMETRY Interchangeable
PROPERTY OpenFailureExplained
