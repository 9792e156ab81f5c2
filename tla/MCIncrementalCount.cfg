SPECIFICATION Spec
CONSTANTS
  f = f
  g = g
  Headers = {f, g}
  Others = {"plain", "stmt"}
  MaxLines = 3
  MaxEdits = 1
INVARIANT SameNumberOfItems
CHECK_DEADLOCK FALSE
