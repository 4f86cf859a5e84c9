SPECIFICATION FairSpec
CONSTANTS
  s1 = s1
  x = x
  y = y
  c1 = c1
  c2 = c2
  Resources = {r1}
  Connections = {c1, c2}
  Services = {s1, s2}
  Accounts = {x, y}
  AccountSpaces = {m}
  ServiceOf <- BothOfS1
  OwnerOf <- OneEach
  None = None
  MaxEdits = 1
  MaxFaults = 1
INVARIANT TypeOK
PROPERTY AcceptOnlyEntitled
PROPERTY RejectionStands
PROPERTY NoneWaitsForEver
CHECK_DEADLOCK FALSE
