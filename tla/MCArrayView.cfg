SPECIFICATION Spec
CONSTANTS
  Cases <- SmallCases
  OldSizes = {0, 100}
  ListSize = 2
  Int64Max = 127
  Int16Max = 2
  Lengths = {0, 1, 9, 127}
INVARIANTS
  ChecksReadInside
  FullIsSafe
  AcceptsWellFormed
  ReuseIsFresh
  LengthSizesFit
CHECK_DEADLOCK FALSE
