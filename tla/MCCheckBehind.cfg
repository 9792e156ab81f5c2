SPECIFICATION Spec
CONSTANTS
  Shapes <- LinesBehind
  MaxLines = 3
INVARIANT ColumnsAreOriginal
CHECK_DEADLOCK FALSE
