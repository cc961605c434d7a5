CONSTANTS
  Runs <- MCRuns
  BitRows <- MCBitRows
  Leftovers <- MCLeftovers
  MaxBits = 26
  MaxBitmapCalls = 3
  HalfBase = 128
  GroupDigits = 2
  GroupPower = 100
  WordCounts = {0, 1, 2}
  Ints <- MCInts
  Texts <- MCTexts
  Blocks <- MCBlocks
  MaxDecimalCalls = 3
  Keys <- MCKeys
  Values <- MCValues
  Imported <- MCImported
  MaxBuilds = 3
  OffsetArrays <- MCOffsets
  Numeral <- MCNumeral
  IntMax <- MCIntMax
  StackDepth = 2
  MaxCalls = 2
  SetterCalls <- MCSetterCalls
  LongZones <- MCLongZones
  ForeignNodes <- MCForeignNodes
  FlagSets <- MCFlagSets
  ExtensionNames = {"", "geo"}
  OldViews <- MCOldViews
  N = 3
  MallocFails = TRUE
  MaxCopies = 1
  NVector = 2
  NStructs = 2
  MaxExports = 2
SPECIFICATION HelpersSpec
CHECK_DEADLOCK FALSE
INVARIANTS
  BitsAgree DigitsAreTheValue MetadataReadsBack ChunkIsFound
  SetterIsViewed AcceptedIsUsable ViewIsFresh
  TypeOK ArraysConserved PrivateReachable VectorsConserved LiveCallsReadLive
PROPERTY IsStream
