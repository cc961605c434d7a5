SPECIFICATION Spec
CONSTANTS
  Types = {"flat", "list", "map", "run_end_encoded"}
  Shapes <- TwoShapes
  Unions <- SomeUnions
INVARIANTS
  NothingFreedTwice
  NothingLost
  TreesAreWhole
CHECK_DEADLOCK FALSE
