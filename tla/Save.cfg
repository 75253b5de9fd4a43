SPECIFICATION Spec
CONSTANTS
  e1 = e1
  e2 = e2
  Editors = {e1, e2}
  Names = {f, g}
  Direct = {g}
  There = g
  NoName = NoName
  Nobody = Nobody
  LockFiles = TRUE
  Fsync = TRUE
  MayFail = TRUE
  MayLosePower = TRUE
  Flags <- MCFlags
  MaxText = 1
  MaxTime = 2
VIEW Reachable
INVARIANTS SavesAreSound
PROPERTIES KeepsUnseen SavesAtOnce
CHECK_DEADLOCK FALSE
