SPECIFICATION DelaySpec
CONSTANTS
  BurstThreshold = 2
  AbsSendTimeMax = 12
  UnitNum = 3
  UnitDen = 2
  ArrivalGaps <- MCArrivalGaps
  SendGaps <- MCSendGaps
  MaxTime = 18
  FilterTypes <- MCTrendlineOnly
  TicksPerUs = 2
  UsPerMs = 1
  UnitsPerUs = 32
  ProcessNoise = 16
  InitialError = 64
  ChiNum = 1
  ChiDen = 4
  One = 64
  WindowSize = 3
  CoefNum = 1
  CoefDen = 2
  Gain = 4
  CountCap = 3
  InitialThreshold = 40
  MinThreshold = 20
  MaxThreshold = 200
  Ku = 2
  Kd = 1
  KDen = 100
  OveruseTimeThresh = 5
  Packets <- MCNearPackets
  MaxPackets = 6
INVARIANT IncreasingDelayNotNegative
