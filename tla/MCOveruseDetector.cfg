SPECIFICATION Spec
CONSTANTS
  InitialThreshold = 12
  MinThreshold = 6
  MaxThreshold = 50
  Ku = 5
  Kd = 2
  KDen = 100
  OveruseTimeThresh = 2
  Estimates <- MCEstimates
  Gaps <- MCGaps
  MaxTime = 28
  MaxRun = 4
CHECK_DEADLOCK FALSE
INVARIANTS
  SustainedOveruse
  UnderusingStaleBounded
  DepartureIsReported
PROPERTIES
  OveruseNotMissed
  ThresholdTracksOverShortGaps
