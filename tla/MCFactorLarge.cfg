SPECIFICATION Spec
CONSTANTS
  Texts <- FourTexts
  MaxLen = 3
  MaxChunks = 1
  Formats = {"U"}
INVARIANT
  CodesAreRanks
CHECK_DEADLOCK FALSE
