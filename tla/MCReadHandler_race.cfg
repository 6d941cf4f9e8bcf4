CONSTANTS
  M = 100
  W = 256
  Address = {1, 2}
  Value <- PushedValues
  MaxTime = 0
  Client = {c1}
  Subscribed = {1, 2}
  Modes = {"poll"}
  MaxFault = 0
  MaxPush = 2
SPECIFICATION Spec
INVARIANT NothingMissed
