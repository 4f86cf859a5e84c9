SPECIFICATION FairSpec
CONSTANTS
  r1 = r1
  r2 = r2
  v1 = v1
  v2 = v2
  v3 = v3
  h1 = h1
  h2 = h2
  Resources = {r1, r2}
  Vpcs = {v1, v2, v3}
  VpcOf <- Homes
  AssocOf <- Associations
  Hosts = {h1, h2}
  Namings <- ApartOrOne
  None = None
  MaxZones = 3
  MaxFaults = 1
  MaxTroubles = 1
INVARIANT TypeOK
INVARIANT OneZonePerDomain
INVARIANT RecordKept
INVARIANT AssociateOnce
PROPERTY CleanupEnds
PROPERTY EventuallyResolves
CHECK_DEADLOCK FALSE
