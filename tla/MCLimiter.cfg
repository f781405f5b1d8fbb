SPECIFICATION FairLimiterSpec
CONSTANTS
  Calls = {c1, c2, c3, c4, c5}
  Concurrency = 2
  MaxWaiting = 2
INVARIANTS
  CountsAreExact
PROPERTIES
  ImplementsSemaphore
  EveryCallReturns
