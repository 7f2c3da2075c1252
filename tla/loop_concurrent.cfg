\* Two beads of one Function and two concurrent deliveries, no fault.
CONSTANTS
  f1 = f1
  b1 = b1
  b2 = b2
  Function = {f1}
  Bead = {b1, b2}
  Handler = {d1, d2}
  None = None
  Run = {r1}
  EventType = {"health_stall"}
  FnOf <- MCFnOf
  Attempt <- MCAttempt
  Rank <- MCRank
  MaxAmendmentDepth = 1
  MaxDeliveries <- MCDeliveries
  MaxEvents = 0
  MaxFaults = 0
  FreshnessWindow = 0
  StaleAfter = 0
  Threshold = 2
  QueryLimit = 2
  MaxNow = 1
SPECIFICATION Spec
SYMMETRY Sym
INVARIANTS NothingForgotten
PROPERTY ImplementsBeadLifecycle
