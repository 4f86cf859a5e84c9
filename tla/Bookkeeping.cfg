SPECIFICATION Spec
CONSTANTS
  z1 = z1
  SgIds = {g1, g2}
  VpceIds = {v1, v2}
  ZoneIds = {z1, z2}
  None = None
  Setups <- Most
  Troubles = {"reject", "fail", "delete", "sg", "zone", "svc", "infra", "service", "hcp", "creds", "dns"}
  MaxFaults = 1
  MaxEdits = 1
  MaxLosses = 1
INVARIANT TypeOK
INVARIANT FinalizerCoversResources
INVARIANT InfoBeforeFinalizer
INVARIANT OneOfEach
INVARIANT RecordedIsReleased
INVARIANT RecordTracked
INVARIANT EndpointGoneBeforeSg
PROPERTY NeverForget
PROPERTY CreateUnderFinalizer
PROPERTY ImplementsOwnedResource
SYMMETRY IdSymmetry
