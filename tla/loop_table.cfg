\* One bead, two concurrent deliveries, a fault, the clock running on.
CONSTANTS
  f1 = f1
  b1 = b1
  b2 = b2
  Function = {f1}
  Bead = {b1}
  Handler = {d1, d2}
  None = None
  Run = {r1}
  EventType = {"health_stall"}
  FnOf <- MCFnOf
  Attempt <- MCAttempt
  Rank <- MCRank
  MaxAmendmentDepth = 1
  MaxDeliveries <- MCDeliveries
  MaxEvents = 1
  MaxFaults = 1
  FreshnessWindow = 0
  StaleAfter = 0
  Threshold = 2
  QueryLimit = 2
  MaxNow = 2
SPECIFICATION Spec
PROPERTY FollowsTable
