\* One molecule, dispatched at the limit that driver and receiver share.
CONSTANTS
  b1 = b1
  b2 = b2
  Bead = {b1}
  None = None
  FirstAttempt = {2}
  MaxDepth = 2
  AmendmentDepth = 2
  MaxIterations <- MCMaxIterations1
  MaxFailing <- MCMaxFailing1
  MaxFaults = 0
SPECIFICATION Spec
INVARIANT ExhaustedIsEscalated
CHECK_DEADLOCK FALSE
