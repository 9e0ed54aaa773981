SPECIFICATION FairSpec
CONSTANTS
  RembLoops <- MCRembLoops
  CleanupLoop = "cleanup"
  Estimates <- MCEstimates
INVARIANTS
  NoLoopAfterClose
  LastValueAccountedFor
PROPERTIES
  CloseReturns
  RemoteCatchesUp
