CONSTANTS
  Worker = {w1, w2, w3}
  Nobody = Nobody
  MaxKills = 3
  MaxBacklog = 1
SPECIFICATION Spec
INVARIANTS NeverShed RestoreBounded
CHECK_DEADLOCK FALSE
SYMMETRY Workers
