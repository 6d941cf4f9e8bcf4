CONSTANTS
  NumWorkers = 1
  ForkMayFail = TRUE
  MaxDeaths = 3
  MaxSigterm = 2
  Child = {reader, w1, w2}
  Nobody = nobody
  BaseDelay = 1
  MaxDelay = 2
  RunningFine = 3
SPECIFICATION MCSpec
INVARIANTS OnePerSlot ChildrenTold
PROPERTIES ExitsLast SlotsRefilled PoolStops ResetOnlyIfOvertaken
CHECK_DEADLOCK FALSE
