SPECIFICATION FairSpec
CONSTANTS
  a1 = a1
  a2 = a2
  i1 = i1
  app = app
  NoOne = NoOne
  Admins = {a1, a2}
  Installers = {i1}
  Lifespan = app
  MaxGeneration = 3
  Failures = TRUE
  Cli = TRUE
INVARIANTS WorkersAccounted StoreOutlivesWorkers Quiesced
PROPERTIES StopsInTime
CHECK_DEADLOCK FALSE
