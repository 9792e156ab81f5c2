SPECIFICATION Spec
CONSTANTS
  f = f
  g = g
  Headers = {f, g}
  Others = {"stmt"}
  MaxLines = 3
  MaxEdits = 1
INVARIANT ItemsAreInPlace
CHECK_DEADLOCK FALSE
