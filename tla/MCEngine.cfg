CONSTANTS
  Calls = {c1, c2, c3}
  Waiters = {w1}
  NoCall = NoCall
SPECIFICATION FairSpec
INVARIANTS TypeOK ChannelFollowsState SingleBuilder NoOrphanReply ResultsAreTrue
PROPERTIES BrokenIsFinal ImplementsService EveryCallReturns EveryWaiterWakes
CHECK_DEADLOCK FALSE
