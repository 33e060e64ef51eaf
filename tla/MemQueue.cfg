SPECIFICATION Spec
CONSTANTS
  AckProducers = {a1}
  ForgetfulProducers = {f1}
  NoProducer = NoProducer
  NoEvent = NoEvent
  NoBatch = NoBatch
  Events = 2
  MaxGetRequestSetting = 2
  FlushTimeoutSetting = 1
  PushChanSize = 1
  GetCounts = {0, 1}
  MaxPublish = 2
INVARIANTS
  UnreadEventsIntact CopiedInOrder HeldIsNotReleased AckedIsReleased ReleasedIsAcked ProducerOrder
PROPERTIES ImplementsQueue
CHECK_DEADLOCK FALSE
