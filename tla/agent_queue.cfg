\* Two processes, two requests, one of them enqueued before, a crash.
CONSTANTS
  r1 = r1
  r2 = r2
  Process = {p1, p2}
  Request = {r1, r2}
  Command = {"enqueue", "claim", "heartbeat", "single", "daemon"}
  Queued <- MCQueued
  None = None
  MaxCrashes = 1
SPECIFICATION FairSpec
INVARIANTS OneClaimPerLease OnePullRequest CompletedIsPublished
PROPERTIES ResultIsFinal ImplementsLeasedQueue EveryRequestAnswered
CHECK_DEADLOCK FALSE
