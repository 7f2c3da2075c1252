\* Two beads of one Function and two runs of the monitor at once, no fault.
CONSTANTS
  f1 = f1
  b1 = b1
  b2 = b2
  Function = {f1}
  Bead = {b1, b2}
  Handler = {d1}
  None = None
  Run = {r1, r2}
  EventType = {"health_stall"}
  FnOf <- MCFnOf
  Attempt <- MCAttempt
  Rank <- MCRank
  MaxAmendmentDepth = 1
  MaxDeliveries <- MCOneDelivery
  MaxEvents = 0
  MaxFaults = 0
  FreshnessWindow = 0
  StaleAfter = 0
  Threshold = 2
  QueryLimit = 2
  MaxNow = 1
SPECIFICATION Spec
SYMMETRY RunSym
INVARIANT StateGrounded
