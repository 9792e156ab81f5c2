SPECIFICATION Spec
CONSTANTS
  Shapes <- LinesWide
  MaxLines = 3
INVARIANT NeverPanics
CHECK_DEADLOCK FALSE
