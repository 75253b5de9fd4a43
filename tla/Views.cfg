CONSTANTS
  w1 = w1
  w2 = w2
  w3 = w3
  v1 = v1
  v2 = v2
  v3 = v3
  v4 = v4
  f = f
  g = g
  e1 = e1
  e2 = e2
  a = a
  NL = NL
  Windows <- ThreeWindows
  Views <- FourViews
  Files = {f, g}
  Empties = {e1}
  Sizes = {0}
  MaxLen = 2
  MaxTabs = 2
  Nothing = Nothing
  Commands <- AllCommands
  Compound = FALSE
  Bytes <- MCBytes
  Payloads <- MCPayloads
  InitTexts <- MCInitTexts
  EditSize = 2
  AllocMultiple = 2
  LoadSize = 4
  MaxText = 5
SPECIFICATION MCSpec
CHECK_DEADLOCK FALSE
INVARIANTS SwitchingIsSound CursorsAreRight
PROPERTIES SwitchingLosesNothing 
SYMMETRY Symmetry3
