SPECIFICATION DiskSpec
CONSTANTS
  k1 = k1
  k2 = k2
  v1 = v1
  nan = nan
  Key = {k1, k2}
  Value = {v1, nan}
  Unencodable = {nan}
  Absent = Absent
  Garbage = Garbage
  NoOp = NoOp
  None = None
  CheckpointSize = 2
  IDSpace = 16
  FirstIDs = {14}
  Faults <- StoreFaults
  MaxOps = 3
  MaxFaults = 2
INVARIANTS StoreIsSound StoredSurvives NothingLost DeliveredInOrder
CHECK_DEADLOCK FALSE
