SPECIFICATION MCSpec
CONSTANTS
  m1 = m1
  m2 = m2
  Empty = Empty
  Messages = {m1, m2}
  Size <- MCSize
  HeaderLen = 2
  MaxIn = 3
  MaxOut = 2
  MaxChunk = 3
  SinkRoom = 1
  MaxBoth = 4
  Conns = {c1, c2, c3, c4}
INVARIANT ReadIsFraming
INVARIANT WriteIsFraming
INVARIANT ShutdownIsHeeded
PROPERTY EverythingArrives
PROPERTY NobodyHangs
CHECK_DEADLOCK FALSE
