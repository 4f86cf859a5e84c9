SPECIFICATION Spec
CONSTANTS
  z1 = z1
  SgIds = {g1}
  VpceIds = {v1}
  ZoneIds = {z1}
  None = None
  Setups <- Foreign
  Troubles = {}
  MaxFaults = 0
  MaxEdits = 0
  MaxLosses = 0
INVARIANT ForeignZonesKept
SYMMETRY IdSymmetry
