\* Global queues of every kind, with lists of one and two items.
CONSTANTS
  p1 = p1
  p2 = p2
  w1 = w1
  w2 = w2
  m1 = m1
  Nil = Nil
  Mediator = Mediator
  Producers <- MCProducers
  Workers <- MCWorkers
  Monitors <- MCMonitors
  MaxPush = 1
  Batches = {1, 2}
  Queues <- MCQueues
  Excess = 1
  MaxTicks = 1
SPECIFICATION MCSpec
INVARIANTS
  PopsInOrder
  ThreadsAreAccounted
  StrandedOnlyBySlips
PROPERTY
  ItemsRun
\* A queue without work is at rest.
CHECK_DEADLOCK FALSE
