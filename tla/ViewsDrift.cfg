CONSTANTS
  w1 = w1
  w2 = w2
  w3 = w3
  v1 = v1
  v2 = v2
  v3 = v3
  v4 = v4
  f = f
  g = g
  e1 = e1
  e2 = e2
  a = a
  NL = NL
  Bytes <- MCBytes
  Payloads <- MCPayloads
  InitTexts <- MCInitTexts
  EditSize = 2
  AllocMultiple = 2
  LoadSize = 4
  MaxText = 5
  Windows <- TwoWindows
  Views <- ThreeViews
  Files = {f}
  Empties = {}
  Sizes = {3}
  MaxLen = 3
  MaxTabs = 1
  Nothing = Nothing
  Commands <- Editing
  Compound = FALSE
SPECIFICATION SwitchingSpec
CHECK_DEADLOCK FALSE
INVARIANTS CursorsFollow
SYMMETRY Symmetry3
