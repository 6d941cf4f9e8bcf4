CONSTANTS
  M = 100
  W = 256
  Address = {1, 2}
  Value <- PushedValues
  MaxTime = 1
  Client = {c1}
  Subscribed = {1, 2}
  Modes = {"poll", "bus", "cache", "aged"}
  MaxFault = 2
  MaxPush = 3
SPECIFICATION FairSpec
INVARIANTS MissedOnlyIfRaced NoDuplicates
PROPERTIES NeverBackwards EventuallyCurrent
