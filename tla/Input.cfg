SPECIFICATION MCSpec
CONSTANTS
  k1 = k1
  k2 = k2
  k3 = k3
  Cap <- MCCap
  MaxIn = 2
  MaxOut = 2
  MayFail = TRUE
  MaxNum = 300
  MaxParams = 3
  MaxSubs = 3
  InbufSize = 8
  PasteMin = 2
  MaxEvents = 4
  Hasty = FALSE
  Terms <- MCTerms
  ColorTypes = {"none"}
  Levels = {0, 2, 3, 6}
  Asked3 = {"TC", "TITLE"}
  MaxLeaves = 2
  KilledAt = {"first", "main", "yield", "child", "quiet", "quietchild", "suspend", "suspending", "cooked", "stopped", "continued", "entering", "quitting", "quit"}
  Late = FALSE
  HashKeys <- MCHashKeys
  Hashes <- MCHashes
  HashValues = {"v", "w"}
  MinCap = 4
  GrowLimit = 4
  Uses = {"history", "styles", "defaults", "set"}
  Texts <- MCTexts
  MaxEntries = 2
  Chars = {"a", " "}
  Words <- MCWords
  Clip <- MCClip
  MaxLine = 2
  Careless = FALSE
  Letters <- MCLetters
  MaxText = 3
  ArgTexts <- MCArgTexts
  MaxArgs = 4
  Home <- MCHome
  VarValue <- MCVar
  Programs <- MCPrograms
  Keys <- MCKeys
  Modes <- MCModes
  FirstBinds <- MCBinds
  MaxDepth = 1
  MaxIncludes = 1
  MaxMacro = 2
  Enders = {"k2", "k3"}
  Odd = {}
  MaxStack = 9
INVARIANTS
  SpawnIsRight
  KeysAreSent
  TerminalIsInStep
  
  
  CommandsReadBack
  
PROPERTIES
  Returns
  
CHECK_DEADLOCK FALSE
