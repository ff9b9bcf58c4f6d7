SPECIFICATION EnginesSpec
CONSTANTS
  Names = {"a", "always_true"}
  MaxConstraints = 2
  MaxRequires = 1
  Ids = {"i", "j"}
  Multiplicity = 2
  MaxRecords = 4
  LookAhead = 2
  Lines <- MCLines
  MaxLines = 3
  Experts = {0, 1, 2}
  Weights = {0, 1, 2, 3}
  Registries <- MCRegistries
  MaxActive = 3
  NVars = 2
  MaxOps = 2
  MaxNodes = 3
  MaxChildren = 2
  NULL = NULL
  Inputs <- MCInputs
  Dangerous = {"bad"}
  NExperts = 32
  MaxTokens = 6
  MaxExecuted = 4
  Dim = 1
  Readings = {0, 1, 2, 3}
  NaN = NaN
  MaxPassed = 2
  Modulus = 16
  Omegas = {0, 1}
  Amounts <- MCAmounts
  MaxPushes = 2
  Agents <- MCAgents
  MaxHops = 6
  MaxLedgers = 3
  EventModulus = 2
  PartModulus = 2
  Events <- MCEvents
  Parts <- MCParts
  Times = {1, 2}
  MaxChain = 2
  Keys = {"k", "l"}
  Values = {1, 2}
  MaxTicks = 2
  MaxBatch = 2
  Dim2 = 2
  Scalars <- MCScalars
  Entries <- MCEntries
  MaxIter = 3
  MaxTurns = 3
  Unitaries <- MCUnitaries
  Texts <- MCTexts
  Compiles <- MCCompiles
  MaxTokens1024 = 3
  Typed <- MCTyped
  Keywords <- MCKeywords
  Int64Numbers <- MCInt64Numbers
  MaxTyped = 4
  Theorems <- MCTheorems
  MaxRenders = 2
  MaxSteps = {0, 1, 2, 3, 4}
  NoResult = NoResult
  Messages <- MCMessages
  OutSizes = {24, 47, 80}
  HeadSize = 4
  BodySize = 5
  MaskBits = 2
  Positions = {0, 1, 2}
  Nonces = {11, 12}
  SharedKeys = {"k", "l"}
  SharedValues = {1, 2}
  GenesisSeed = GenesisSeed
  MaxUses = 4
INVARIANTS
  ParsedIsTheText
  MarksGoToTheOldest
  ProgramRejectsNegatives
  GatesCompose
  FilterIsSound
  CFilterIsStricter
  TableIsMeaning
  GraphIsTheTree
  ReceiptOwnsTheOutput
  EveryRouteAnswersOnce
  DriftIsBounded
  BooksBalance
  IsomorphismHolds
  LastRecordSealsTheChain
  AlgebraHolds
  TokensTileTheText
  LinesReadAlone
  WasmAgreesWithTheCrates
  ReceiptsSealPictures
  LoopsEnd
  LifetimeAgrees
  FieldsKeepApart
PROPERTIES
  DispatchesAreCounted
CHECK_DEADLOCK FALSE
