--------------------------- MODULE EventConsumer ---------------------------
(***************************************************************************)
(* From the queue to the outputs, publisher/pipeline: eventConsumer with   *)
(* its queueReader, the batches (ttlBatch) with their retries, splits and  *)
(* time to live, the workers that pass batches to output clients, and the  *)
(* part of outputController that exchanges the outputs.                    *)
(*                                                                         *)
(* The queue is external and hands out batches of fresh events.  An output *)
(* client is external too: it may finish a batch it holds with any call of *)
(* publisher.Batch, during Publish or after it.                            *)
(***************************************************************************)
EXTENDS Integers, Sequences, FiniteSets

CONSTANTS
  Workloads,     \* bounds: how many output groups are set, one after the other,
                 \* which of them have no clients, and how many events the queue
                 \* hands out
  Clients,       \* the clients of one output group
  Plain,         \* those that are no NetworkClient
  Guaranteed,    \* the events published with GuaranteedSend
  TimeToLive,    \* outputs.Group.Retry + 1
  Outcomes,      \* the calls of publisher.Batch the output clients use
  TargetBatchSize,     \* outputs.Group.TargetBatchSize
  NoBatch        \* nil

ASSUME EventConsumerAssumption ==
  /\ Workloads \subseteq [generations : Nat, empty : SUBSET Nat, events : Nat]
  /\ Plain \subseteq Clients
  /\ TimeToLive \in Int
  /\ Outcomes \subseteq {"ack", "drop", "retry", "retryEvents", "split", "cancelled"}
  /\ TargetBatchSize \in Nat \ {0}

Event == UNION {1..l.events : l \in Workloads}

\* A worker is known by its generation and its client.
Worker == (UNION {1..l.generations : l \in Workloads}) \X Clients

VARIABLES
  load,          \* the workload of this behaviour
  \* eventConsumer
  target,        \* whether consumerTarget has a queue and a channel
  queueBatch, pendingRead, retryBatches,
  consumer,      \* "loop" or "stopped"
  done,          \* the done channel is closed
  \* queueReader
  reader,        \* "idle", "get", "send" or "stopped"
  readerReq,     \* a request is in the channel
  readerBatch,
  \* workers
  workerPC, connected,
  cancelled,     \* the workers whose context is cancelled
  inFlight,      \* batches held by output clients
  calls,         \* calls of retryer.retry that have not returned
  \* outputController
  controller,    \* Set: "running", "paused" or "replaced"
  generation,
  closing,       \* WaitClose: "no", "queue", "consumer" or "workers"
  \* the queue: events before nextEvent were handed out, in the batches given
  nextEvent, queueBatches,
  outstanding,   \* batchSplitData.outstandingEvents, by original batch
  \* history
  doneCount,     \* calls of the done function of each queue batch
  finished,      \* events acknowledged, dropped or expired
  expired,       \* events given up because their time to live was over
  miscounted     \* queue batches of which a fragment that had lost events was split again

consumerVars == <<target, queueBatch, pendingRead, retryBatches, consumer, done>>
readerVars == <<reader, readerReq, readerBatch>>
workerVars == <<workerPC, connected, cancelled>>
controlVars == <<controller, generation, closing>>
queueVars == <<load, nextEvent, queueBatches>>
doneVars == <<outstanding, doneCount, finished>>
vars == <<consumerVars, readerVars, workerVars, inFlight, calls, controlVars,
          queueVars, doneVars, expired, miscounted>>

\* A ttlBatch.  The original batch is named by its first event.  owes are the
\* events that the done callback of a fragment stands for.
TTLBatch == [of : Event, events : SUBSET Event, owes : SUBSET Event, ttl : Int,
             split : BOOLEAN]

\* nil is neither a batch nor a worker.
ASSUME NilAssumption == NoBatch \notin TTLBatch /\ NoBatch \notin Worker

\* A call of retry: the batch, decreaseTTL, what SplitRetry retries next, and
\* the worker that waits for the call, if it is a worker.
Call == [batch : TTLBatch, decreaseTTL : BOOLEAN,
         next : TTLBatch \cup {NoBatch}, by : Worker \cup {NoBatch}]

Init ==
  /\ load \in Workloads
  /\ target = FALSE /\ queueBatch = NoBatch /\ pendingRead = FALSE
  /\ retryBatches = <<>> /\ consumer = "loop" /\ done = FALSE
  /\ reader = "idle" /\ readerReq = FALSE /\ readerBatch = NoBatch
  /\ workerPC = [w \in Worker |-> "none"]
  /\ connected = {} /\ cancelled = {}
  /\ inFlight = {} /\ calls = {}
  /\ controller = "running" /\ generation = 0 /\ closing = "no"
  /\ nextEvent = 1 /\ queueBatches = [e \in Event |-> {}]
  /\ outstanding = [e \in Event |-> 0]
  /\ doneCount = [e \in Event |-> 0]
  /\ finished = {} /\ expired = {} /\ miscounted = {}

-----------------------------------------------------------------------------
(* ttlBatch                                                                *)

\* Mutant: every fragment reports the original batch done.
CallDoneEach(b) ==
  /\ doneCount' = [doneCount EXCEPT ![b.of] = @ + 1]
  /\ UNCHANGED outstanding

\* The done function: original.Done, or the callback of a fragment.
CallDone(b) ==
  LET remaining == outstanding[b.of] - Cardinality(b.owes)
  IN IF ~b.split
     THEN /\ doneCount' = [doneCount EXCEPT ![b.of] = @ + 1]
          /\ UNCHANGED outstanding
     ELSE /\ outstanding' = [outstanding EXCEPT ![b.of] = remaining]
          /\ doneCount' = IF remaining = 0
                          THEN [doneCount EXCEPT ![b.of] = @ + 1] ELSE doneCount

\* ACK and Drop.
FinishBatch(b) ==
  /\ CallDone(b)
  /\ finished' = finished \cup b.events

\* reduceTTL.  A batch left without events is not alive.
ReduceTTL(b) ==
  IF b.ttl <= 0 THEN b
  ELSE IF b.ttl > 1 THEN [b EXCEPT !.ttl = @ - 1]
  ELSE [b EXCEPT !.events = @ \cap Guaranteed, !.ttl = -1]

\* A fragment made by SplitRetry.
Fragment(b, events) ==
  [of |-> b.of, events |-> events, owes |-> events, ttl |-> b.ttl, split |-> TRUE]

RetryCall(b, decreaseTTL, next, by) ==
  [batch |-> b, decreaseTTL |-> decreaseTTL, next |-> next, by |-> by]

-----------------------------------------------------------------------------
(* eventConsumer.run                                                       *)

\* The top of the loop: ask queueReader for the next batch.
TopOfLoop(reading) ==
  IF queueBatch' = NoBatch /\ ~reading /\ target'
  THEN pendingRead' = TRUE /\ readerReq' = TRUE
  ELSE pendingRead' = reading /\ UNCHANGED readerReq

\* The active batch: the oldest retry, or else the batch from the queue.
Active == IF retryBatches # <<>> THEN Head(retryBatches) ELSE queueBatch

\* Worker w takes the active batch from the work channel.  A netClientWorker
\* that is not connected gives the batch back first.
ConsumerSend(w) ==
  /\ consumer = "loop" /\ target /\ Active # NoBatch
  /\ workerPC[w] = "select"
  /\ IF retryBatches # <<>>
     THEN retryBatches' = Tail(retryBatches) /\ UNCHANGED queueBatch
     ELSE queueBatch' = NoBatch /\ UNCHANGED retryBatches
  /\ IF w \in connected \/ w[2] \in Plain
     THEN /\ workerPC' = [workerPC EXCEPT ![w] = "publish"]
          /\ inFlight' = inFlight \cup {Active}
          /\ UNCHANGED calls
     ELSE /\ workerPC' = [workerPC EXCEPT ![w] = "cancel"]
          /\ calls' = calls \cup {RetryCall(Active, FALSE, NoBatch, w)}
          /\ UNCHANGED inFlight
  /\ UNCHANGED target
  /\ TopOfLoop(pendingRead)
  /\ UNCHANGED <<consumer, done, reader, readerBatch, connected, cancelled,
                 controlVars, queueVars, doneVars, expired, miscounted>>

ConsumerRead ==
  /\ consumer = "loop" /\ reader = "send"
  /\ queueBatch' = readerBatch
  /\ readerBatch' = NoBatch
  /\ reader' = "idle"
  /\ UNCHANGED target
  /\ TopOfLoop(FALSE)
  /\ UNCHANGED <<retryBatches, consumer, done, workerVars, inFlight, calls,
                 controlVars, queueVars, doneVars, expired, miscounted>>

\* What follows in the caller when a call of retry returns: SplitRetry goes on
\* with the second half, and a worker goes on to connect.
CallReturns(c) ==
  /\ calls' = (calls \ {c}) \cup
                (IF c.next = NoBatch THEN {}
                 ELSE {RetryCall(c.next, FALSE, NoBatch, c.by)})
  /\ workerPC' = IF c.by \in Worker
                 THEN [workerPC EXCEPT ![c.by] = "connect"] ELSE workerPC

\* Mutant: a batch with no event left is forgotten instead of dropped.
ConsumerRetryForgets(c) ==
  LET b == IF c.decreaseTTL THEN ReduceTTL(c.batch) ELSE c.batch
  IN /\ consumer = "loop"
     /\ CallReturns(c)
     /\ retryBatches' = IF b.events = {} THEN retryBatches ELSE Append(retryBatches, b)
     /\ finished' = finished \cup (c.batch.events \ b.events)
     /\ expired' = expired \cup (c.batch.events \ b.events)
     /\ UNCHANGED <<target, queueBatch>>
     /\ TopOfLoop(pendingRead)
     /\ UNCHANGED <<consumer, done, reader, readerBatch, connected, cancelled,
                    inFlight, controlVars, queueVars, outstanding, doneCount, miscounted>>

\* A batch given up by a retry with no event left, or kept for another try.
ConsumerRetry(c) ==
  LET b == IF c.decreaseTTL THEN ReduceTTL(c.batch) ELSE c.batch
  IN /\ consumer = "loop"
     /\ CallReturns(c)
     /\ IF b.events = {}
        THEN /\ CallDone(b) /\ UNCHANGED retryBatches
        ELSE /\ retryBatches' = Append(retryBatches, b)
             /\ UNCHANGED <<outstanding, doneCount>>
     /\ finished' = finished \cup (c.batch.events \ b.events)
     /\ expired' = expired \cup (c.batch.events \ b.events)
     /\ UNCHANGED <<target, queueBatch>>
     /\ TopOfLoop(pendingRead)
     /\ UNCHANGED <<consumer, done, reader, readerBatch, connected, cancelled,
                    inFlight, controlVars, queueVars, miscounted>>

\* retry on a consumer that is shutting down.
RetryAfterDone(c) ==
  /\ done
  /\ CallReturns(c)
  /\ FinishBatch(c.batch)
  /\ UNCHANGED <<consumerVars, readerVars, connected, cancelled, inFlight,
                 controlVars, queueVars, expired, miscounted>>

ConsumerStop ==
  /\ consumer = "loop" /\ done
  /\ consumer' = "stopped"
  /\ UNCHANGED <<target, queueBatch, pendingRead, retryBatches, done, readerVars,
                 workerVars, inFlight, calls, controlVars, queueVars, doneVars,
                 expired, miscounted>>

-----------------------------------------------------------------------------
(* queueReader.run                                                         *)

ReaderRequest ==
  /\ reader = "idle" /\ readerReq
  /\ reader' = "get" /\ readerReq' = FALSE
  /\ UNCHANGED <<consumerVars, readerBatch, workerVars, inFlight, calls,
                 controlVars, queueVars, doneVars, expired, miscounted>>

\* Get returns n fresh events, and newBatch wraps them.
ReaderGet(n) ==
  /\ reader = "get"
  /\ nextEvent + n - 1 <= load.events
  /\ LET events == nextEvent..(nextEvent + n - 1)
     IN /\ readerBatch' = [of |-> nextEvent, events |-> events, owes |-> events,
                           ttl |-> TimeToLive, split |-> FALSE]
        /\ queueBatches' = [queueBatches EXCEPT ![nextEvent] = events]
  /\ nextEvent' = nextEvent + n
  /\ reader' = "send"
  /\ UNCHANGED <<consumerVars, readerReq, workerVars, inFlight, calls,
                 controlVars, load, doneVars, expired, miscounted>>

\* Get on a queue that was closed returns no batch.
ReaderGetNothing ==
  /\ reader = "get" /\ closing # "no"
  /\ reader' = "send"
  /\ UNCHANGED <<consumerVars, readerReq, readerBatch, workerVars, inFlight, calls,
                 controlVars, queueVars, doneVars, expired, miscounted>>

\* The request channel was closed; a batch in hand is discarded.
ReaderStop ==
  /\ reader \in {"idle", "send"} /\ ~readerReq
  /\ consumer = "stopped"
  /\ reader' = "stopped" /\ readerBatch' = NoBatch
  /\ UNCHANGED <<consumerVars, readerReq, workerVars, inFlight, calls,
                 controlVars, queueVars, doneVars, expired, miscounted>>

-----------------------------------------------------------------------------
(* Workers and the output clients they call                                *)

WorkerConnect(w, ok) ==
  /\ workerPC[w] = "connect"
  /\ workerPC' = [workerPC EXCEPT ![w] = "select"]
  /\ connected' = IF ok THEN connected \cup {w} ELSE connected
  /\ UNCHANGED <<consumerVars, readerVars, cancelled, inFlight, calls, controlVars,
                 queueVars, doneVars, expired, miscounted>>

\* After an error a netClientWorker connects again, and a clientWorker returns.
PublishReturns(w, ok) ==
  /\ workerPC[w] = "publish"
  /\ workerPC' = [workerPC EXCEPT ![w] = IF ok \/ w[2] \notin Plain
                                         THEN "select" ELSE "exited"]
  /\ connected' = IF ok THEN connected ELSE connected \ {w}
  /\ UNCHANGED <<consumerVars, readerVars, cancelled, inFlight, calls, controlVars,
                 queueVars, doneVars, expired, miscounted>>

WorkerExit(w) ==
  /\ workerPC[w] = "select" /\ w \in cancelled
  /\ workerPC' = [workerPC EXCEPT ![w] = "exited"]
  /\ UNCHANGED <<consumerVars, readerVars, connected, cancelled, inFlight, calls,
                 controlVars, queueVars, doneVars, expired, miscounted>>

\* ACK or Drop.
OutputFinish(b) ==
  /\ Outcomes \cap {"ack", "drop"} # {}
  /\ b \in inFlight
  /\ inFlight' = inFlight \ {b}
  /\ FinishBatch(b)
  /\ UNCHANGED <<consumerVars, readerVars, workerVars, calls, controlVars,
                 queueVars, expired, miscounted>>

\* Retry, Cancelled, and RetryEvents with the events that are not acknowledged.
OutputRetry(b, decreaseTTL, events) ==
  /\ b \in inFlight
  /\ (IF events # b.events THEN "retryEvents"
      ELSE IF decreaseTTL THEN "retry" ELSE "cancelled") \in Outcomes
  /\ inFlight' = inFlight \ {b}
  /\ calls' = calls \cup {RetryCall([b EXCEPT !.events = events], decreaseTTL,
                                    NoBatch, NoBatch)}
  /\ finished' = finished \cup (b.events \ events)
  /\ UNCHANGED <<consumerVars, readerVars, workerVars, controlVars, queueVars,
                 outstanding, doneCount, expired, miscounted>>

\* SplitRetry of a batch with at least two events.
OutputSplit(b, half) ==
  /\ "split" \in Outcomes
  /\ b \in inFlight
  /\ Cardinality(b.events) >= 2
  /\ Cardinality(half) = Cardinality(b.events) \div 2
  /\ inFlight' = inFlight \ {b}
  /\ outstanding' = IF b.split THEN outstanding
                    ELSE [outstanding EXCEPT ![b.of] = Cardinality(b.events)]
  /\ calls' = calls \cup {RetryCall(Fragment(b, half), FALSE,
                                    Fragment(b, b.events \ half), NoBatch)}
  /\ miscounted' = IF b.split /\ b.owes # b.events THEN miscounted \cup {b.of} ELSE miscounted
  /\ UNCHANGED <<consumerVars, readerVars, workerVars, controlVars, queueVars,
                 doneCount, finished, expired>>

-----------------------------------------------------------------------------
(* outputController: Set and WaitClose                                     *)

\* Mutant: a new target resets the batches the consumer holds.
SetPauseResets ==
  /\ controller = "running" /\ generation < load.generations
  /\ controller' = "paused"
  /\ consumer = "loop" \/ done
  /\ target' = IF consumer = "loop" THEN FALSE ELSE target
  /\ queueBatch' = NoBatch /\ retryBatches' = <<>>
  /\ UNCHANGED <<pendingRead, consumer, done, readerVars, workerVars, inFlight,
                 calls, generation, closing, queueVars, doneVars, expired, miscounted>>

\* setTarget with an empty target, which returns at once if the consumer is
\* shut down.
SetPause ==
  /\ controller = "running" /\ generation < load.generations
  /\ controller' = "paused"
  /\ consumer = "loop" \/ done
  /\ target' = IF consumer = "loop" THEN FALSE ELSE target
  /\ UNCHANGED <<queueBatch, pendingRead, retryBatches, consumer, done, readerVars,
                 workerVars, inFlight, calls, generation, closing, queueVars, doneVars,
                 expired, miscounted>>

\* Close the old workers and create the new ones.
SetWorkers ==
  /\ controller = "paused"
  /\ controller' = "replaced"
  /\ generation' = generation + 1
  /\ cancelled' = cancelled \cup {w \in Worker : w[1] = generation}
  /\ workerPC' = [w \in Worker |-> IF w[1] = generation + 1 /\ w[1] \notin load.empty
                                   THEN "select" ELSE workerPC[w]]
  /\ UNCHANGED <<consumerVars, readerVars, connected, inFlight, calls, closing,
                 queueVars, doneVars, expired, miscounted>>

\* Mutant: the consumer stays paused after a reload.
SetResumePaused ==
  /\ controller = "replaced"
  /\ controller' = "running"
  /\ target' = (target \/ generation = 1)
  /\ UNCHANGED <<queueBatch, retryBatches>>
  /\ TopOfLoop(pendingRead)
  /\ UNCHANGED <<consumer, done, reader, readerBatch, workerVars, inFlight, calls,
                 generation, closing, queueVars, doneVars, expired, miscounted>>

\* A group without clients gets no channel.
SetResume ==
  /\ controller = "replaced"
  /\ controller' = "running"
  /\ UNCHANGED <<queueBatch, retryBatches>>
  /\ IF consumer = "loop"
     THEN target' = (generation \notin load.empty) /\ TopOfLoop(pendingRead)
     ELSE done /\ UNCHANGED <<target, pendingRead, readerReq>>
  /\ UNCHANGED <<consumer, done, reader, readerBatch, workerVars, inFlight, calls,
                 generation, closing, queueVars, doneVars, expired, miscounted>>

\* WaitClose: close the queue and wait until it is drained or for the
\* time-out, stop the consumer, then close the workers.
CloseQueue ==
  /\ closing = "no"
  /\ closing' = "queue"
  /\ UNCHANGED <<consumerVars, readerVars, workerVars, inFlight, calls, controller,
                 generation, queueVars, doneVars, expired, miscounted>>

CloseConsumer ==
  /\ closing = "queue"
  /\ closing' = "consumer"
  /\ done' = TRUE
  /\ UNCHANGED <<target, queueBatch, pendingRead, retryBatches, consumer, readerVars,
                 workerVars, inFlight, calls, controller, generation, queueVars,
                 doneVars, expired, miscounted>>

CloseWorkers ==
  /\ closing = "consumer" /\ consumer = "stopped"
  /\ closing' = "workers"
  /\ cancelled' = cancelled \cup {w \in Worker : w[1] = generation}
  /\ UNCHANGED <<consumerVars, readerVars, workerPC, connected, inFlight, calls,
                 controller, generation, queueVars, doneVars, expired, miscounted>>

-----------------------------------------------------------------------------
Consumer ==
  \/ \E w \in Worker : ConsumerSend(w)
  \/ ConsumerRead \/ ConsumerStop
  \/ \E c \in calls : ConsumerRetry(c) \/ RetryAfterDone(c)

QueueReader ==
  \/ ReaderRequest \/ ReaderStop \/ ReaderGetNothing
  \/ \E n \in 1..TargetBatchSize : ReaderGet(n)

Workers ==
  \E w \in Worker :
    \/ \E ok \in BOOLEAN : WorkerConnect(w, ok) \/ PublishReturns(w, ok)
    \/ WorkerExit(w)

OutputClients ==
  \E b \in inFlight :
    \/ OutputFinish(b)
    \/ \E dec \in BOOLEAN : OutputRetry(b, dec, b.events)
    \/ \E events \in (SUBSET b.events) \ {{}, b.events} : OutputRetry(b, TRUE, events)
    \/ \E half \in SUBSET b.events : OutputSplit(b, half)

Controller ==
  \/ SetPause \/ SetWorkers \/ SetResume
  \/ CloseQueue \/ CloseConsumer \/ CloseWorkers

Next == Consumer \/ QueueReader \/ Workers \/ OutputClients \/ Controller

Spec == Init /\ [][Next]_vars

\* Calls that wait to hand a batch with event e to the consumer are served in
\* turn, a batch an output holds is eventually answered by something other than
\* Cancelled, and one that cannot run out of retries is eventually finished.
EventFairness(e) ==
  /\ WF_vars(\E c \in calls : e \in c.batch.events /\ (ConsumerRetry(c) \/ RetryAfterDone(c)))
  /\ SF_vars(\E b \in inFlight :
               /\ e \in b.events
               /\ \/ OutputFinish(b)
                  \/ \E events \in (SUBSET b.events) \ {{}} : OutputRetry(b, TRUE, events))
  /\ e \in Guaranteed => SF_vars(\E b \in inFlight : e \in b.events /\ OutputFinish(b))

\* A worker's calls of Connect and Publish return, and connecting does not
\* fail forever.
WorkerFairness(w) ==
  /\ WF_vars(\E ok \in BOOLEAN : WorkerConnect(w, ok) \/ PublishReturns(w, ok))
  /\ SF_vars(WorkerConnect(w, TRUE))

Fairness ==
  /\ WF_vars(\E w \in Worker : ConsumerSend(w))
  /\ WF_vars(ConsumerRead) /\ WF_vars(ConsumerStop)
  /\ WF_vars(QueueReader)
  /\ WF_vars(SetWorkers) /\ WF_vars(SetResume)
  /\ \A e \in Event : EventFairness(e)
  /\ \A w \in Worker : WorkerFairness(w)

LiveSpec == Spec /\ Fairness

-----------------------------------------------------------------------------
(* Properties                                                              *)

\* Every batch somewhere on its way, fragments included.
Live ==
  ({queueBatch, readerBatch} \cup {retryBatches[i] : i \in 1..Len(retryBatches)}
     \cup inFlight \cup {c.batch : c \in calls} \cup {c.next : c \in calls})
  \ {NoBatch}

\* Every variable has its type.
TypeOK ==
  /\ target \in BOOLEAN /\ pendingRead \in BOOLEAN /\ done \in BOOLEAN
  /\ queueBatch \in TTLBatch \cup {NoBatch}
  /\ retryBatches \in Seq(TTLBatch)
  /\ consumer \in {"loop", "stopped"}
  /\ reader \in {"idle", "get", "send", "stopped"}
  /\ readerReq \in BOOLEAN /\ readerBatch \in TTLBatch \cup {NoBatch}
  /\ workerPC \in [Worker -> {"none", "select", "cancel", "connect", "publish", "exited"}]
  /\ connected \subseteq Worker /\ cancelled \subseteq Worker
  /\ inFlight \subseteq TTLBatch /\ calls \subseteq Call
  /\ controller \in {"running", "paused", "replaced"}
  /\ closing \in {"no", "queue", "consumer", "workers"}
  /\ load \in Workloads
  /\ generation \in 0..load.generations
  /\ nextEvent \in 1..(load.events + 1)
  /\ queueBatches \in [Event -> SUBSET Event]
  /\ outstanding \in [Event -> Int]
  /\ doneCount \in [Event -> Nat]
  /\ finished \subseteq Event /\ expired \subseteq Event /\ miscounted \subseteq Event

\* A batch of the queue is done at most once, and only when none of its
\* events is left in any batch or fragment: whatever retries, splits and
\* expiries it went through, the queue never frees events still on their way.
DoneIsFinal ==
  \A q \in Event :
    /\ doneCount[q] <= 1
    /\ doneCount[q] = 1 => queueBatches[q] \subseteq finished /\ \A b \in Live : b.of # q

\* Until the consumer is shut down, an event taken from the queue is finished
\* or is in exactly one batch: none is lost between the reader, the retries
\* and the workers, and none is in two batches that may both be sent.
NothingLost ==
  /\ ~done => \A e \in 1..(nextEvent - 1) :
                e \in finished \/ \E b \in Live : e \in b.events
  /\ \A b \in Live :
       /\ b.events \cap finished = {}
       /\ \A c \in Live : b # c => b.events \cap c.events = {}

\* An event published with GuaranteedSend never runs out of retries.
GuaranteedKept == expired \cap Guaranteed = {}

\* A batch of the queue none of whose events is left anywhere is done, so that
\* the queue can free them.  The exception is a batch of which a fragment was
\* split again after it had lost events: see OutstandingReachesZero.
FinishedIsDone ==
  \A q \in Event :
    (queueBatches[q] # {} /\ ~done /\ \A b \in Live : b.of # q) => doneCount[q] = 1 \/ q \in miscounted

\* batchSplitData: "The number of events awaiting acknowledgment from the
\* original batch. When this reaches zero, originalDone should be invoked."
\* With no event left anywhere, none awaits acknowledgement.
OutstandingReachesZero ==
  \A q \in Event :
    (queueBatches[q] # {} /\ ~done /\ \A b \in Live : b.of # q) => doneCount[q] = 1

\* Two events and one output group; or one event and a reload, in which one of the two
\* groups may be without clients.
FewEvents ==
  {[generations |-> 1, empty |-> {}, events |-> 2]} \cup
  {[generations |-> 2, empty |-> groups, events |-> 1] : groups \in {{}, {1}, {2}}}

\* For the property above, a workload in which a fragment can lose an event and
\* be split again.
FiveEvents == {[generations |-> 1, empty |-> {}, events |-> 5]}

\* publisher.Batch: "In normal operation every batch will eventually receive
\* an ACK() or a Drop()."  A batch read from the queue is eventually done, through
\* retries, reconnects and reloads, unless the consumer is shut down; while there are
\* no output clients it waits for some.
EveryBatchDone ==
  \A q \in Event :
    queueBatches[q] # {}
      ~> (doneCount[q] = 1 \/ done \/ generation \in load.empty \/ q \in miscounted)

=============================================================================
