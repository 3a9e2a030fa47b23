SPECIFICATION FairSpec
CONSTANTS
  Worker = {w1, w2, w3}
  MaxConcurrent = 2
  MaxQueueDepth = 2
  FailureThreshold = 2
INVARIANTS
  TypeOK
  CountersAreExact
  OpenBreakerHasCause
  FailsClosed
PROPERTIES
  EveryScanReturns
