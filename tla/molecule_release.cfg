\* Two molecules, one of them entered three times at most, and a fault.
CONSTANTS
  b1 = b1
  b2 = b2
  Bead = {b1, b2}
  None = None
  FirstAttempt = {1}
  MaxDepth = 2
  AmendmentDepth = 2
  MaxIterations <- MCMaxIterations
  MaxFailing <- MCMaxFailing
  MaxFaults = 1
SPECIFICATION FairSpec
INVARIANTS TypeOK ClosedIsRecorded OneFailureIsReconciled EndIsKnown
PROPERTIES  EveryMoleculeEnds
CHECK_DEADLOCK FALSE
