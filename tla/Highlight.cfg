CONSTANTS
  plain = plain
  open = open
  code = code
  comment = comment
  C = C
  w1 = w1
  w2 = w2
  Kinds <- TwoKinds
  States <- TwoStates
  Syntaxes = {C}
  NoSyntax = NoSyntax
  Start <- MCStart
  Dest <- MCDest
  Windows <- OneWindow
  Height = 2
  MaxLines = 3
  MaxBatch = 2
  Nothing = Nothing
SPECIFICATION MCSpec
INVARIANTS CacheIsSound LoneWindowIsRight
PROPERTY FillAdvances
