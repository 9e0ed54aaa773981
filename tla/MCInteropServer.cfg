SPECIFICATION FairServerSpec
CONSTANTS
  Requests <- MCRequests
  MaxListeners = 2
INVARIANT ServedIsNamed
PROPERTIES
  RunningIsServed
  MutexIsReleased
  LeaksOnlyFromFailedOffers
