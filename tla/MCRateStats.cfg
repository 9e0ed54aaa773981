SPECIFICATION Spec
CONSTANTS
  WindowSize = 3
  MinElapsed = 1
  TicksPerSecond = 5
  Sizes <- MCSizes
  Skew = 2
  MaxTime = 6
  MaxSamples = 3
INVARIANTS
  TotalMatches
  StalenessBounded
PROPERTY ImplementsWindow
