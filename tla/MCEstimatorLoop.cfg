SPECIFICATION LoopSpec
CONSTANTS
  BurstThreshold = 1
  InitialThreshold = 12
  MinThreshold = 6
  MaxThreshold = 50
  Ku = 0
  Kd = 0
  KDen = 100
  OveruseTimeThresh = 1
  WindowSize = 2
  MinElapsed = 1
  Second = 3
  ConfigMin = 100
  ConfigMax = 2000
  ConfigInitial = 600
  DefaultMin = 100
  DefaultMax = 2000
  DefaultInitial = 600
  ConfigBeta = 85
  DefaultBeta = 85
  BetaDen = 100
  Eta <- MCEta
  EtaDen = 1
  IncomingRates <- MCIncomingRates
  Times <- MCTimes
  Interval = 2
  DecreaseNum = 3
  DecreaseDen = 100
  FilterOutputs <- MCFilterOutputs
  SSRCs <- MCSSRCs
  Sizes <- MCSizes
  MaxLag = 1
  MaxTime = 7
  Jitter = 1
  MaxSamples = 2
INVARIANTS
  EstimateIsControllers
  ControllerFollowsDetector
  RembHonest
  OverstatementCleared
  KeepsAnnouncing
PROPERTY IdleKeepsEstimate
