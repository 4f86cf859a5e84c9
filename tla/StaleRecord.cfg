SPECIFICATION Spec
CONSTANTS
  z1 = z1
  SgIds = {g1}
  VpceIds = {v1, v2}
  ZoneIds = {z1}
  None = None
  Setups <- Domain
  Troubles = {"delete"}
  MaxFaults = 0
  MaxEdits = 1
  MaxLosses = 1
INVARIANT SkipOnlyIfUnchanged
SYMMETRY IdSymmetry
