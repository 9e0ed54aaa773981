SPECIFICATION Spec
CONSTANTS
  ConfigMin = 20
  ConfigMax = 60
  ConfigInitial <- MCUnsetInitial
  DefaultMin = 10
  DefaultMax = 100
  DefaultInitial = 40
  ConfigBeta = 85
  DefaultBeta = 85
  BetaDen = 100
  Eta <- MCEta
  EtaDen = 10000
  Second = 2
  IncomingRates <- MCIncomingRates
  Times <- MCTimes
INVARIANTS
  EstimatePositive
  EstimateInBand
PROPERTIES
  NoGrowthAfterOveruse
  GrowthPerUpdateBounded
