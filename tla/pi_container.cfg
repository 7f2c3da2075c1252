CONSTANTS
  Call = {c1, c2, c3}
  Other = {o1}
  Build = {b1, unknown}
  Unknown = unknown
  None = None
  MaxQueued = 1
  MaxFaults = 1
SPECIFICATION FairSpec
INVARIANTS RecordIsOfAnExecution RecordedBuildIsRunning ForwardedToOwnBuild LinesInOrder
PROPERTIES LostRecordIsSaved EveryRequestEnds
CHECK_DEADLOCK FALSE
