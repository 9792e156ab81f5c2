CONSTANTS
  Calls = {c1}
  Waiters = {w1}
  NoCall = NoCall
SPECIFICATION FairSpec
PROPERTY ThreadEndsAtShutdown
CHECK_DEADLOCK FALSE
