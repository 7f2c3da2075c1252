\* Three invocations of one key, two tries per call, two faults.
CONSTANTS
  Invocation = {i1, i2, i3}
  BeadId = {b1, b2}
  None = None
  MaxTries = 2
  MaxFaults = 2
SPECIFICATION Spec
SYMMETRY Sym
INVARIANTS  AtMostOneSlung SlungIsNoted RowHasForm
CHECK_DEADLOCK FALSE
