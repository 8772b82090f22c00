SPECIFICATION Spec
CONSTANTS
  o1 = o1
  o2 = o2
  o3 = o3
  c1 = c1
  NoOp = NoOp
  Ops = {o1, o2}
  Contents = {c1}
  Services = {"auto", "known"}
  Chunks = 1
  MaxCrashes = 1
  MaxCancels = 1
  MaxRetries = 1
SYMMETRY MCSymmetry
INVARIANTS Attended PublishedReadable
PROPERTIES TerminalStands
CHECK_DEADLOCK FALSE
