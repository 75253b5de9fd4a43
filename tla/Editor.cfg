SPECIFICATION MCSpec
CONSTANTS
  MaxWins = 3
  MaxStale = 2
  MinWidth = 2
  MinHeight = 1
  Amounts <- MCAmounts
  Screens <- MCScreens
  FileNames = {"a"}
  Unnamed = {"u"}
  Lines = 2
  MaxMarks = 2
  MaxMessages = 2
  Dirs <- MCDirs
  Buffers <- MCBuffers
  Contents <- MCContents
  Names = {"n"}
  MaxTime = 2
  OpenNames <- MCOpenNames
  FileTexts <- MCFileTexts
  TextOf <- MCTextOf
  Params <- MCParams
  EcOf <- MCEcOf
  Builtin <- MCBuiltin
  Assignments <- MCAssignments
  Toggles <- MCToggles
  FileOptions <- MCFileOptions
  FileTypes <- MCFileTypes
  MaxBuffers = 2
  MaxFileOptions = 1
  MaxFileTypes = 1
  MaxSettings = 2
  Paths <- MCPaths
  EcDirs <- MCEcDirs
  Pieces <- MCPieces
  Parts <- MCParts
  MaxPieces = 4
  MaxParts = 3
  SyntaxNames = {"x"}
  SubSyntaxNames = {".s", ".t"}
  Included <- MCIncluded
  Chunks <- MCChunks
  Delims = {"d"}
  MaxChunks = 8
  MaxLoads = 2
  Texts <- MCTexts
  FileLines <- MCFileLines
  MaxEntries = 3
  NL = NL
  Bytes <- MCBytes
  EditTexts <- MCEditTexts
  OptionSets <- MCOptionSets
  Typed <- MCTyped
  Inserts <- MCInserts
  WrapWidths = {4}
  Clips <- MCClips
  KeptColumns = {3}
  MaxText = 16
  MaxSteps = 2
  Followed = {"cut"}
  Careful = TRUE
INVARIANTS
  WindowsTile
  LookupIsRight
  
  SyntaxesAreUsable
PROPERTIES
  JumpsReturn
  OptionsAreRight
  HistoriesAreRecent
  
CHECK_DEADLOCK FALSE
