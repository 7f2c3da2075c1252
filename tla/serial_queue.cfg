\* Five calls, two places in the queue.
CONSTANTS
  Call = {c1, c2, c3, c4, c5}
  MaxQueued = 2
SPECIFICATION FairSpec
INVARIANTS MutualExclusion CountersExact
PROPERTIES ImplementsFifoServer EveryCallServed
CHECK_DEADLOCK FALSE
