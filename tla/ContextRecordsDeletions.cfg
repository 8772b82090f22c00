SPECIFICATION Spec
CONSTANTS
  r1 = r1
  r2 = r2
  s1 = s1
  c1 = c1
  c2 = c2
  NoRecord = NoRecord
  NoSource = NoSource
  NoContent = NoContent
  Records = {r1}
  Sources = {s1}
  Contents = {c1, c2}
  Channels = {"archive_import","registered_source","client"}
  MaxVersion = 5
SYMMETRY MCSymmetry
PROPERTIES DeletionStands SourceUndoExact
CHECK_DEADLOCK FALSE
