SPECIFICATION Spec
CONSTANTS
  k1 = k1
  k2 = k2
  SSRCs <- MCSSRCs
  StreamTimeout = 4
  CleanupPeriod = 2
  MaxLag = 1
SYMMETRY Symmetry
INVARIANT
  InactiveRemovedInTime
PROPERTY OnlyPausedRemoved
