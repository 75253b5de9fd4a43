CONSTANTS
  plain = plain
  open = open
  code = code
  comment = comment
  C = C
  w1 = w1
  w2 = w2
  Kinds <- TwoKinds
  States <- TwoStates
  Syntaxes = {C}
  NoSyntax = NoSyntax
  Start <- MCStart
  Dest <- MCDest
  Windows <- TwoWindows
  Height = 2
  MaxLines = 2
  MaxBatch = 1
  Nothing = Nothing
SPECIFICATION Spec
INVARIANT HighlightIsRight
