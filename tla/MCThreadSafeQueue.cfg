SPECIFICATION FairSpec
CONSTANTS
  Producers = {p1, p2}
  Consumers = {c1, c2}
  Items = {i1}
  MaxSize = 1
  NoItem = NoItem
INVARIANTS TypeOK NoLostWakeup NoWaiterAfterShutdown
PROPERTIES TimedPopReturns ImplementsBoundedQueue
