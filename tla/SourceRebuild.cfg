SPECIFICATION Spec
CONSTANTS
  a1 = a1
  a2 = a2
  b = b
  w1 = w1
  w2 = w2
  Edited = Edited
  NoSession = NoSession
  Items = {a1, a2, b}
  Slot <- MCSlot
  At <- MCAt
  Now = 3
  Workers = {w1, w2}
  Parsed <- MCParsed
  Covered = {2, 3}
  FirstParser = 2
  MaxRebuilds = 1
  MaxEdits = 2
  MaxMishaps = 2
PROPERTIES RebuildExact UserStands Recovers
CHECK_DEADLOCK FALSE
