SPECIFICATION FairSpec
CONSTANTS
  w1 = w1
  w2 = w2
  o1 = o1
  o2 = o2
  Workers <- MCWorkers
  Offerers <- MCOfferers
  QueueSize = 2
  MaxOffers = 2
INVARIANTS
  EveryItemOnce
  GettersWoken
  DrainedIsProcessed
PROPERTIES
  CloseReturns
CHECK_DEADLOCK FALSE
