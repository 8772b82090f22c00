SPECIFICATION Spec
CONSTANTS
  None = None
  MaxWrites = 2
  MaxCrashes = 1
  MaxFailures = 2
INVARIANTS
  ServedIntact
  RollbackReady
PROPERTIES
  ImplementsAtomicUpdate
  Settles
