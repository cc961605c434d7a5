SPECIFICATION PSpec
CONSTANTS
  K = 1
  Kinds = {"number", "unsupported"}
  Chunks <- Slots
  MaxChunks = 3
  IntMax = 2
  Guarded = TRUE
  MaxCalls = 2
INVARIANTS
  OnePlace
  NothingIsLeftBehind
PROPERTIES
  ProducerSteps
CHECK_DEADLOCK FALSE
