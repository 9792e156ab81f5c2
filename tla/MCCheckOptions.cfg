SPECIFICATION Spec
CONSTANTS
  Shapes <- LinesOptions
  MaxLines = 3
INVARIANT OptionEntriesAreSilent
CHECK_DEADLOCK FALSE
