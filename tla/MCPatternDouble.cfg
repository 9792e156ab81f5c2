SPECIFICATION Spec
CONSTANTS
  MaxPattern = 0
  MaxLine = 4
  Patterns <- DoublePatterns
  Lines <- MCLines
INVARIANT PrefilterIsSound
CHECK_DEADLOCK FALSE
