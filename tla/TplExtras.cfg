SPECIFICATION FairSpec
CONSTANTS
  Namespaces = {n1}
  None = None
  MaxSpecs = 1
  MaxTroubles = 1
PROPERTY OnePerHcp
