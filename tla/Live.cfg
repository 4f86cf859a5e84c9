SPECIFICATION FairSpec
CONSTANTS
  z1 = z1
  SgIds = {g1}
  VpceIds = {v1}
  ZoneIds = {z1, z2}
  None = None
  Setups <- Live
  Troubles = {"zone", "svc", "infra", "hcp", "service", "creds", "dns"}
  MaxFaults = 1
  MaxEdits = 0
  MaxLosses = 1
PROPERTY EventuallyServed
PROPERTY CleanupCompletes
