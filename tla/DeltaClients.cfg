CONSTANTS
  M = 6
  W = 16
  Address = {a1, a2}
  Value = {v}
  MaxTime = 0
  Poller = {c1, c2}
SPECIFICATION DeltaSpec
INVARIANTS DeltaComplete DeltaSound
