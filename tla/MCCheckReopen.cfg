SPECIFICATION Spec
CONSTANTS
  Shapes <- LinesReopen
  MaxLines = 3
INVARIANT BlockStateIsParity
CHECK_DEADLOCK FALSE
