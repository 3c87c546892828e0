CONSTANTS
  prod1 = prod1
  prod2 = prod2
  cons1 = cons1
  cons2 = cons2
  mutex = mutex
  next = next
  PRODUCER = PRODUCER
  CONSUMER = CONSUMER
  MAX = 5
  MaxInit = 1
  Producers <- MCProducers
  Consumers <- MCConsumers
  Procs <- MCProcs
  Conds <- MCConds
  Sems <- MCSems
SPECIFICATION PCSpec
INVARIANT BufferBounds
PROPERTY EveryThreadWorks
