SPECIFICATION Spec
CONSTANTS
  K = 1
  Kinds = {"number"}
  Chunks <- SomeEmptyChunks
  MaxChunks = 2
  IntMax = 9
  Guarded = TRUE
  MaxCalls = 1
INVARIANT
  EveryRowCollected
CHECK_DEADLOCK FALSE
