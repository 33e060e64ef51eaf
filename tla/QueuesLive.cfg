SPECIFICATION QueuesLiveSpec
CONSTANTS
  WriteAheadLimit = 2
  ReadAheadLimit = 1
  Sizes <- AllSizes
  ProducerCount = 1
  MaxEvents = 3
  MaxSessions = 3
  Faults <- LiveFaults
  None = None
  a1 = a1
  NoProducer = NoProducer
  NoEvent = NoEvent
  NoBatch = NoBatch
PROPERTIES DiskShutdownEnds DiskEventsGetThrough AcceptedIsAcked MemoryWaitsEnd
CHECK_DEADLOCK FALSE
