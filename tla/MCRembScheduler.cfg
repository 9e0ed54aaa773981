SPECIFICATION Spec
CONSTANTS
  Interval = 4
  Jitter = 1
  DecreaseNum = 3
  DecreaseDen = 100
  Estimates <- MCEstimates
  MaxTime = 21
CHECK_DEADLOCK FALSE
INVARIANTS
  OverstatementBounded
  SendGapBounded
