SPECIFICATION Spec
CONSTANTS
  p1 = p1
  p2 = p2
  i1 = i1
  None = None
  Runners = {p1, p2}
  Items = {i1}
  Pages <- MCPages
  MaxRuns = 3
SYMMETRY MCSymmetry
INVARIANTS RecordsFollow
PROPERTIES CursorBehindApplied PendingStands
CHECK_DEADLOCK FALSE
