SPECIFICATION Spec
CONSTANTS
  Cases <- SmallCases
  OldSizes = {0}
  ListSize = 2
  Int64Max = 127
  Int16Max = 2
  Lengths = {0}
INVARIANT
  UnionOffsetsExist
CHECK_DEADLOCK FALSE
