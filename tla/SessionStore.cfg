CONSTANTS
  Worker = {w1, w2}
  NoWorker = NoWorker
  session_ttl_sec_ = 2
  max_sessions_ = 2
  MaxLogin = 4
  MaxTime = 3
SPECIFICATION StoreSpec
INVARIANTS RefusedOnlyIfCrowdedOut OnlyOldestEvicted
