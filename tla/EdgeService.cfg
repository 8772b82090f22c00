SPECIFICATION Spec
CONSTANTS
  Requests <- MCRequests
  Clients <- MCClients
  ClientOf <- MCClientOf
  PerClient = 2
  Global = 2
  ClaimLimit = 1
  MaxClaims = 2
  Grants <- MCGrants
  Registrations <- MCRegistrations
  Logical <- MCLogical
  AskedBy <- MCAskedBy
  MaxTokens = 3
  Keys <- MCKeys
  Values = {"v1", "v2"}
  MaxProposals = 2
  QueueLimit = 2
  MaxCredentials = 2
  Loads <- MCLoads
INVARIANTS
  CountedOnce
  DecommissionFinal
  Paired
CHECK_DEADLOCK FALSE
PROPERTIES
  RevokedUnserved
  FamilyEnds
  EdgeDrains
  PairsInTime
