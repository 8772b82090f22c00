SPECIFICATION Spec
CONSTANTS
  r1 = r1
  r2 = r2
  NoRecord = NoRecord
  Records = {r1, r2}
  Tainted = {r1, r2}
  BatchLimit = 2
  MaxVersion = 2
  MaxEvents = 4
  MaxLate = 1
  MaxRollbacks = 1
SYMMETRY MCSymmetry
INVARIANT EdgeMirrors
CHECK_DEADLOCK FALSE
