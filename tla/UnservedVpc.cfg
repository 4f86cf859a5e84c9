SPECIFICATION Spec
CONSTANTS
  r1 = r1
  r2 = r2
  v1 = v1
  v2 = v2
  v3 = v3
  h1 = h1
  h2 = h2
  Resources = {r1, r2}
  Vpcs = {v1, v2, v3}
  VpcOf <- Homes
  AssocOf <- NoAssociations
  Hosts = {h1, h2}
  Namings <- ApartOrOne
  None = None
  MaxZones = 4
  MaxFaults = 0
  MaxTroubles = 0
INVARIANT OwnVpcServed
CHECK_DEADLOCK FALSE
