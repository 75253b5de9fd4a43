CONSTANTS
  p1 = p1
  p2 = p2
  p3 = p3
  f1 = f1
  f2 = f2
  b1 = b1
  b2 = b2
  Procs <- TwoProcs
  Files = {f1, f2}
  Bufs = {b1, b2}
  NoFile = NoFile
  Nobody = Nobody
  Blind <- NoPairs
  MayCrash = TRUE
  MayFail = TRUE
  MayStall = FALSE
  MayRace = FALSE
  Twice = FALSE
SPECIFICATION Spec
CHECK_DEADLOCK FALSE
INVARIANTS Exclusive HeldIsRecorded OneHolder
PROPERTIES ImplementsRegistry
SYMMETRY TwoSymmetry
