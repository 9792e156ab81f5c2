SPECIFICATION Spec
CONSTANTS
  f = f
  g = g
  Headers = {f, g}
  Others = {"stmt", "err"}
  MaxLines = 3
  MaxEdits = 1
INVARIANT ErrorsAreKept
CHECK_DEADLOCK FALSE
