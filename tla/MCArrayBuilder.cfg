SPECIFICATION Spec
CONSTANTS
  Builds <- SmallBuilds
  Ints = {2, 9}
  IntMin <- Low
  IntMax = 5
  Texts <- SmallTexts
  OffsetMax = 4
  Reserved = {3}
  ListSize = 2
  Int64Max = 1023
  Int16Max = 2
INVARIANTS
  WritesInside
  AlwaysAcceptable
  NullsAreCounted
  ReservedIsEnough
PROPERTIES
  CallsAppendWhatTheySay
  ElementsStay
CHECK_DEADLOCK FALSE
