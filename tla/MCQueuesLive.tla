---------------------------- MODULE MCQueuesLive ----------------------------
(***************************************************************************)
(* The instance TLC checks of the disk queue and of the memory queue, for  *)
(* their liveness properties.  A behaviour is one of the queue that `part` *)
(* names; the variables of the other one, m1 to m28 in the case of the    *)
(* memory queue, do not change and nothing is asked of them.               *)
(***************************************************************************)
EXTENDS DiskQueue

CONSTANTS a1, NoProducer, NoEvent, NoBatch

VARIABLES part,
  m1, m2, m3, m4, m5, m6, m7, m8, m9, m10, m11, m12, m13, m14, m15, m16, m17, m18, m19, m20,
  m21, m22, m23, m24, m25, m26, m27, m28

memQueueState ==
  <<m1, m2, m3, m4, m5, m6, m7, m8, m9, m10, m11, m12, m13, m14, m15, m16, m17, m18, m19,
    m20, m21, m22, m23, m24, m25, m26, m27, m28>>
liveVars == <<vars, part, memQueueState>>

-----------------------------------------------------------------------------
(* Values of the constants                                                 *)

AllSizes ==
  {[maxSegment |-> 2, maxBuffer |-> 4], [maxSegment |-> 2, maxBuffer |-> 0]}
LiveFaults == {"write"}

-----------------------------------------------------------------------------
MQ == INSTANCE MemQueue WITH
  AckProducers <- {a1}, ForgetfulProducers <- {}, Events <- 2, MaxGetRequestSetting <- 2,
  FlushTimeoutSetting <- 1, PushChanSize <- 1, GetCounts <- {0, 1}, MaxPublish <- 3,
  buf <- m1, bufPos <- m2, eventCount <- m3, consumedCount <- m4, consumedBatches <- m5,
  pendingGet <- m6, closing <- m7, ctxDone <- m8, pushChan <- m9, pc <- m10,
  producedCount <- m11, eventsOpen <- m12, producerClosed <- m13, resp <- m14,
  reader <- m15, response <- m16, held <- m17, doneChan <- m18, pendingBatches <- m19,
  ackPC <- m20, ackedBatches <- m21, ackedCount <- m22, callbacks <- m23, lastACK <- m24,
  log <- m25, released <- m26, copied <- m27, acked <- m28

LiveInit ==
  part \in {"disk", "memory"} /\ Init /\ MQ!Init

LiveNext ==
  /\ UNCHANGED part
  /\ \/ part = "disk" /\ Next /\ UNCHANGED memQueueState
     \/ part = "memory" /\ MQ!Next /\ UNCHANGED vars

\* The fairness of DiskQueue and of MemQueue, each in its behaviours.
Step(action) == part = "memory" /\ action /\ UNCHANGED <<part, vars>>

MemFairness ==
  /\ WF_liveVars(Step(MQ!HandleInsert)) /\ WF_liveVars(Step(MQ!GetTimeout)) /\ WF_liveVars(Step(MQ!HandleDelete))
  /\ WF_liveVars(Step(MQ!AckReceive)) /\ WF_liveVars(Step(MQ!CollectAcked)) /\ WF_liveVars(Step(MQ!ProcessACK))
  /\ WF_liveVars(Step(MQ!CallbacksDone)) /\ WF_liveVars(Step(MQ!RunCallback(a1)))
  /\ WF_liveVars(Step(MQ!Reader))
  /\ WF_liveVars(Step(\E b \in m17 : MQ!BatchDone(b)))
  /\ WF_liveVars(Step(MQ!PublishSend(a1) \/ MQ!PublishRejected(a1)))
  /\ WF_liveVars(Step(MQ!PublishAnswered(a1) \/ MQ!PublishAborted(a1)))

QueuesLiveSpec ==
  /\ LiveInit /\ [][LiveNext]_liveVars
  /\ WF_liveVars(part = "disk" /\ Progress /\ UNCHANGED <<part, memQueueState>>)
  /\ MemFairness

-----------------------------------------------------------------------------
\* What the queues promise, in their behaviours; the parts are stated in DiskQueue and
\* MemQueue.

\* Close of the disk queue returns, and all its loops end.
DiskShutdownEnds == part = "disk" => ShutdownEnds

\* An event written to the disk is consumed, and one that was accepted is written, unless
\* the queue has a size limit.
DiskEventsGetThrough == part = "disk" => WrittenIsConsumed /\ UnlimitedIsWritten

\* Every event the memory queue accepted is acknowledged to its producer.
AcceptedIsAcked == part = "memory" => MQ!AcceptedIsAcked

\* Nobody waits for the memory queue for ever: Publish and Get return, and a queue that was
\* closed with events in it finishes.
MemoryWaitsEnd ==
  part = "memory" => MQ!PublishReturns /\ MQ!GetReturns /\ MQ!DrainedQueueFinishes
=============================================================================
