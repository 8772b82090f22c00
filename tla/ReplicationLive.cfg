SPECIFICATION FairSpec
CONSTANTS
  r1 = r1
  r2 = r2
  NoRecord = NoRecord
  Records = {r1}
  Tainted = {}
  BatchLimit = 2
  MaxVersion = 3
  MaxEvents = 4
  MaxLate = 1
  MaxRollbacks = 1
PROPERTY CatchesUp
CHECK_DEADLOCK FALSE
