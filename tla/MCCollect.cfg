SPECIFICATION FairSpec
CONSTANTS
  K = 2
  Kinds = {"number", "string", "unsupported"}
  Chunks <- ChunksAndGaps
  MaxChunks = 2
  IntMax = 3
  Guarded = TRUE
  MaxCalls = 2
INVARIANTS
  TypeOK
  ArraysConserved
  StreamConserved
  NothingLeaks
  LaterCallsFail
  MatrixIsConcatenation
PROPERTIES
  CallReturns
  KeepsPromise
CHECK_DEADLOCK FALSE
