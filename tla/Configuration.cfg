SPECIFICATION FairSpec
CONSTANTS
  v1 = v1
  v2 = v2
  a1 = a1
  a2 = a2
  b1 = b1
  d1 = d1
  k1 = k1
  k2 = k2
  p = p
  Subnets = {a1, a2, b1, d1}
  Zones = {"a", "b"}
  Vpcs = {v1, v2}
  NetOf <- Net
  ServiceZones = {"a", "b"}
  TaggedVpcs = {v1}
  CidrOf <- VpcCidrs
  Cidrs = {k1, k2}
  Ports = {p}
  NodeGroups = {n1}
  OwnGroup = g
  OtherGroups = {dflt}
  None = None
  MaxUse = 1
  Wants <- Usual
  MaxFaults = 1
  MaxDrifts = 2
INVARIANT TypeOK
INVARIANT ReadyMeansConfigured
INVARIANT AuthorizeOnlyMissing
INVARIANT AdditionFits
INVARIANT RemovalFits
PROPERTY Converges
