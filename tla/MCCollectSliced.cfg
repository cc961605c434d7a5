SPECIFICATION Spec
CONSTANTS
  K = 1
  Kinds = {"number", "string"}
  Chunks <- SlicedChunks
  MaxChunks = 1
  IntMax = 9
  Guarded = TRUE
  MaxCalls = 1
INVARIANT
  CellsAreLogical
CHECK_DEADLOCK FALSE
