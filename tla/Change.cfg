SPECIFICATION MCSpec
CONSTANTS
  a = a
  NL = NL
  Bytes <- MCBytes
  Payloads <- MCPayloads
  InitTexts <- MCInitTexts
  MaxLen = 2
  MaxChanges = 3
INVARIANTS
  TypeOK
  TextEndsWithNewline
  HistoryIsExact
  UnmodifiedIsSaved
  ChainsAreWhole
PROPERTIES
  HistoryIsFrozen
  LoopsTerminate
