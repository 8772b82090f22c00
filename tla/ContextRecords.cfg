SPECIFICATION Spec
CONSTANTS
  r1 = r1
  r2 = r2
  s1 = s1
  c1 = c1
  c2 = c2
  NoRecord = NoRecord
  NoSource = NoSource
  NoContent = NoContent
  Records = {r1, r2}
  Sources = {s1}
  Contents = {c1}
  Channels = {"client", "archive_import", "registered_source"}
  MaxVersion = 3
SYMMETRY MCSymmetry
INVARIANTS VaultAccounted SupersessionSound RelayCurrent PurgeFinal UserBarrier
CHECK_DEADLOCK FALSE
