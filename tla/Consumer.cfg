SPECIFICATION LiveSpec
CONSTANTS
  NoBatch = NoBatch
  Workloads <- FewEvents
  Clients = {c1}
  Plain = {}
  Guaranteed = {2}
  TimeToLive = 2
  Outcomes = {"ack", "drop", "retry", "retryEvents", "split", "cancelled"}
  TargetBatchSize = 2
INVARIANTS DoneIsFinal NothingLost FinishedIsDone
PROPERTIES EveryBatchDone
CHECK_DEADLOCK FALSE
