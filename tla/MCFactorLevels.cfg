SPECIFICATION Spec
CONSTANTS
  Texts <- ThreeTexts
  MaxLen = 2
  MaxChunks = 2
  Formats = {"u"}
INVARIANTS
  LevelsAgree
  CodesAreRanks
CHECK_DEADLOCK FALSE
