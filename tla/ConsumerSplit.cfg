SPECIFICATION Spec
CONSTANTS
  NoBatch = NoBatch
  Workloads <- FiveEvents
  Clients = {c1}
  Plain = {c1}
  Guaranteed = {}
  TimeToLive = 0
  Outcomes = {"ack", "retryEvents", "split"}
  TargetBatchSize = 5
INVARIANTS OutstandingReachesZero
CHECK_DEADLOCK FALSE
