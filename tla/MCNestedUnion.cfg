SPECIFICATION Spec
CONSTANTS
  Builds <- NestedUnion
  Ints = {2, 9}
  IntMin <- Low
  IntMax = 5
  Texts <- SmallTexts
  OffsetMax = 4
  Reserved = {3}
  ListSize = 2
  Int64Max = 1023
  Int16Max = 2
INVARIANT
  OtherIdsAreRefused
CHECK_DEADLOCK FALSE
