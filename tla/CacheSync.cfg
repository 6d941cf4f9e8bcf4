CONSTANTS
  Worker = {w1, w2}
  Reader = r
  Nobody = nobody
  MaxPush = 3
  MaxCrash = 2
SPECIFICATION FairSpec
INVARIANTS ReadsWholeEntry HeldOnlyInside NoLostWakeup
PROPERTIES LostOnlyByWaiter WaitReturns
