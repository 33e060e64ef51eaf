------------------------------ MODULE MemQueue ------------------------------
(***************************************************************************)
(* The memory queue, publisher/queue/memqueue: a ring buffer owned by the  *)
(* runLoop goroutine, the ackLoop goroutine that turns finished batches    *)
(* into producer callbacks and deletions, the producers that push through  *)
(* a buffered channel, and the one reader (pipeline/queue_reader.go) that  *)
(* calls Get, copies a batch out and later has it marked Done.             *)
(*                                                                         *)
(* A step is one case of a select, or one rendezvous on an unbuffered      *)
(* channel.  The variables log, released, copied and acked are history:    *)
(* they record what happened and no guard reads them.                      *)
(***************************************************************************)
EXTENDS Integers, Sequences

CONSTANTS
  AckProducers,        \* producers created with an ACK callback
  ForgetfulProducers,  \* producers created without one
  NoProducer, NoEvent, NoBatch,   \* nil
  Events,              \* Settings.Events, the size of the ring
  MaxGetRequestSetting,\* Settings.MaxGetRequest
  FlushTimeoutSetting, \* Settings.FlushTimeout, in any unit
  PushChanSize,        \* the capacity of pushChan
  GetCounts,           \* the sizes the reader asks for
  MaxPublish           \* bound: events one producer gets accepted

Producers == AckProducers \cup ForgetfulProducers

\* An event is identified by its producer and its position there.
Event == [from : Producers, n : 1..MaxPublish]

\* A batch is a range of the ring; first is its (ghost) position in log.
Batch == [start : Nat, count : Nat \ {0}, first : Nat]

ASSUME MemQueueAssumption ==
  /\ AckProducers \cap ForgetfulProducers = {}
  /\ NoProducer \notin Producers
  /\ NoEvent \notin Event
  /\ NoBatch \notin Batch
  /\ Events \in Nat \ {0}
  /\ MaxGetRequestSetting \in Int
  /\ FlushTimeoutSetting \in Int
  /\ PushChanSize \in Nat \ {0}
  /\ GetCounts \subseteq Int
  /\ MaxPublish \in Nat

\* newQueue: a setting of 0 or 1 selects the synchronous behaviour.
MaxGetRequest ==
  IF MaxGetRequestSetting <= 1 THEN (Events + 1) \div 2
  ELSE IF MaxGetRequestSetting > Events THEN Events
  ELSE MaxGetRequestSetting

FlushTimeout == IF MaxGetRequestSetting <= 1 THEN 0 ELSE FlushTimeoutSetting

VARIABLES
  \* runLoop
  buf, bufPos, eventCount, consumedCount, consumedBatches, pendingGet,
  closing,          \* closing, and closingChan is closed
  ctxDone,          \* ctx was cancelled
  pushChan,
  \* producers
  pc, producedCount,
  eventsOpen,       \* the producers whose openState.events is not nil
  producerClosed,   \* the producers whose openState.done is closed
  resp,             \* the producers whose current request was answered
  \* the reader and the holders of batches
  reader, response, held,
  doneChan,         \* batches whose doneChan holds a message
  \* ackLoop
  pendingBatches, ackPC, ackedBatches, ackedCount, callbacks, lastACK,
  \* history
  log, released, copied, acked

runVars == <<buf, bufPos, eventCount, consumedCount, consumedBatches,
             pendingGet, closing, ctxDone>>
prodVars == <<pc, producedCount, eventsOpen, producerClosed, resp>>
readVars == <<reader, response, held, doneChan>>
ackVars == <<pendingBatches, ackPC, ackedBatches, ackedCount, callbacks, lastACK>>
histVars == <<log, released, copied, acked>>
vars == <<runVars, pushChan, prodVars, readVars, ackVars, histVars>>

Slot == 0..(Events - 1)
EmptyEntry == [event |-> NoEvent, producer |-> NoProducer, producerID |-> 0]
Entry == [event : Event \cup {NoEvent}, producer : AckProducers \cup {NoProducer},
          producerID : Nat]

Init ==
  /\ buf = [s \in Slot |-> EmptyEntry]
  /\ bufPos = 0 /\ eventCount = 0 /\ consumedCount = 0
  /\ consumedBatches = <<>> /\ pendingGet = 0
  /\ closing = FALSE /\ ctxDone = FALSE
  /\ pushChan = <<>>
  /\ pc = [p \in Producers |-> "idle"]
  /\ producedCount = [p \in Producers |-> 0]
  /\ eventsOpen = Producers /\ producerClosed = {} /\ resp = {}
  /\ reader = "idle" /\ response = NoBatch /\ held = {} /\ doneChan = {}
  /\ pendingBatches = <<>> /\ ackPC = "select" /\ ackedBatches = {}
  /\ ackedCount = 0
  /\ callbacks = [p \in AckProducers |-> 0]
  /\ lastACK = [p \in AckProducers |-> 0]
  /\ log = <<>> /\ released = 0 /\ copied = <<>>
  /\ acked = [p \in AckProducers |-> 0]

-----------------------------------------------------------------------------
(* Producers: openState.publish and tryPublish.                            *)

\* makePushRequest: the entry a push request carries.
PushRequest(p) ==
  [event |-> [from |-> p, n |-> producedCount[p] + 1],
   producer |-> IF p \in AckProducers THEN p ELSE NoProducer,
   producerID |-> IF p \in AckProducers THEN producedCount[p] + 1 ELSE 0]

\* The channel send, and the wait for the answer that follows it.
SendRequest(p) ==
  /\ p \in eventsOpen
  /\ Len(pushChan) < PushChanSize
  /\ pushChan' = Append(pushChan, PushRequest(p))
  /\ pc' = [pc EXCEPT ![p] = "waiting"]
  /\ resp' = resp \ {p}
  /\ UNCHANGED <<producedCount, eventsOpen, producerClosed>>

\* Return of a failed attempt on which openState.events is set to nil.
GiveUp(p) ==
  /\ pc' = [pc EXCEPT ![p] = "idle"]
  /\ eventsOpen' = eventsOpen \ {p}
  /\ UNCHANGED <<pushChan, producedCount, producerClosed, resp>>

PublishCall(p) ==
  /\ pc[p] = "idle"
  /\ producedCount[p] < MaxPublish
  /\ pc' = [pc EXCEPT ![p] = "publishing"]
  /\ UNCHANGED <<runVars, pushChan, producedCount, eventsOpen, producerClosed,
                 resp, readVars, ackVars, histVars>>

PublishSend(p) ==
  /\ pc[p] = "publishing"
  /\ SendRequest(p)
  /\ UNCHANGED <<runVars, readVars, ackVars, histVars>>

PublishRejected(p) ==
  /\ pc[p] = "publishing"
  /\ p \in producerClosed \/ closing
  /\ GiveUp(p)
  /\ UNCHANGED <<runVars, readVars, ackVars, histVars>>

\* tryPublish never waits for room; with no room it returns without effect.
TryPublishSend(p) ==
  /\ pc[p] = "idle"
  /\ producedCount[p] < MaxPublish
  /\ SendRequest(p)
  /\ UNCHANGED <<runVars, readVars, ackVars, histVars>>

TryPublishRejected(p) ==
  /\ pc[p] = "idle"
  /\ p \in producerClosed
  /\ GiveUp(p)
  /\ UNCHANGED <<runVars, readVars, ackVars, histVars>>

\* Mutant: a successful call does not count its event.
PublishAnsweredUncounted(p) ==
  /\ pc[p] = "waiting"
  /\ p \in resp
  /\ pc' = [pc EXCEPT ![p] = "idle"]
  /\ UNCHANGED <<runVars, pushChan, producedCount, eventsOpen, producerClosed,
                 resp, readVars, ackVars, histVars>>

\* The answer arrived: the call returns true.
PublishAnswered(p) ==
  /\ pc[p] = "waiting"
  /\ p \in resp
  /\ pc' = [pc EXCEPT ![p] = "idle"]
  /\ producedCount' = [producedCount EXCEPT ![p] = @ + 1]
  /\ UNCHANGED <<runVars, pushChan, eventsOpen, producerClosed, resp,
                 readVars, ackVars, histVars>>

\* The queue closes first, or select prefers it: the call returns false,
\* whether or not the event entered the queue.
PublishAborted(p) ==
  /\ pc[p] = "waiting"
  /\ closing
  /\ GiveUp(p)
  /\ UNCHANGED <<runVars, readVars, ackVars, histVars>>

ProducerClose(p) ==
  /\ p \notin producerClosed
  /\ producerClosed' = producerClosed \cup {p}
  /\ UNCHANGED <<runVars, pushChan, pc, producedCount, eventsOpen, resp,
                 readVars, ackVars, histVars>>

-----------------------------------------------------------------------------
(* runLoop                                                                 *)

GetRequestShouldBlock(n, count, isClosing) ==
  /\ FlushTimeout > 0
  /\ ~isClosing
  /\ count - consumedCount < n

BatchSize(n, available) == IF available < n THEN available ELSE n

\* Mutant: the batch starts at the oldest event of the ring.
StartIndexOldest == bufPos

StartIndex == bufPos + consumedCount

\* handleGetReply for a request of n entries while the queue holds count.
HandleGetReply(n, count) ==
  LET batch == [start |-> StartIndex,
                count |-> BatchSize(n, count - consumedCount),
                first |-> released + consumedCount]
  IN /\ response' = batch
     /\ consumedBatches' = Append(consumedBatches, batch)
     /\ consumedCount' = consumedCount + batch.count

MaybeUnblockGetRequest(count, isClosing) ==
  IF pendingGet # 0 /\ ~GetRequestShouldBlock(pendingGet, count, isClosing)
  THEN pendingGet' = 0 /\ HandleGetReply(pendingGet, count)
  ELSE UNCHANGED <<pendingGet, response, consumedBatches, consumedCount>>

HandleClose ==
  /\ ~ctxDone /\ ~closing
  /\ closing' = TRUE
  /\ MaybeUnblockGetRequest(eventCount, TRUE)
  /\ UNCHANGED <<buf, bufPos, eventCount, ctxDone, pushChan, prodVars, reader,
                 held, doneChan, ackVars, histVars>>

\* Mutant: the position of the oldest event is left out.
InsertIndexFromZero == eventCount % Events

\* insert and handleInsert
InsertIndex == (bufPos + eventCount) % Events

\* Mutant: pushChan is still read when the queue is closing.
HandleInsertClosing ==
  /\ ~ctxDone
  /\ eventCount < Events
  /\ pushChan # <<>>
  /\ pushChan' = Tail(pushChan)
  /\ buf' = [buf EXCEPT ![InsertIndex] = Head(pushChan)]
  /\ eventCount' = eventCount + 1
  /\ resp' = resp \cup {Head(pushChan).event.from}
  /\ log' = Append(log, Head(pushChan).event)
  /\ MaybeUnblockGetRequest(eventCount + 1, closing)
  /\ UNCHANGED <<bufPos, closing, ctxDone, pc, producedCount, eventsOpen,
                 producerClosed, reader, held, doneChan, ackVars,
                 released, copied, acked>>

HandleInsert ==
  /\ ~ctxDone
  /\ eventCount < Events /\ ~closing
  /\ pushChan # <<>>
  /\ pushChan' = Tail(pushChan)
  /\ buf' = [buf EXCEPT ![InsertIndex] = Head(pushChan)]
  /\ eventCount' = eventCount + 1
  /\ resp' = resp \cup {Head(pushChan).event.from}
  /\ log' = Append(log, Head(pushChan).event)
  /\ MaybeUnblockGetRequest(eventCount + 1, closing)
  /\ UNCHANGED <<bufPos, closing, ctxDone, pc, producedCount, eventsOpen,
                 producerClosed, reader, held, doneChan, ackVars,
                 released, copied, acked>>

\* handleGetRequest, with the reader's send on getChan.
GetEntryCount(n) == IF n <= 0 \/ n > MaxGetRequest THEN MaxGetRequest ELSE n

HandleGetRequest(n) ==
  /\ ~ctxDone
  /\ reader = "idle"
  /\ pendingGet = 0 /\ eventCount > consumedCount
  /\ reader' = "waiting"
  /\ IF GetRequestShouldBlock(GetEntryCount(n), eventCount, closing)
     THEN /\ pendingGet' = GetEntryCount(n)
          /\ UNCHANGED <<response, consumedBatches, consumedCount>>
     ELSE HandleGetReply(GetEntryCount(n), eventCount) /\ UNCHANGED pendingGet
  /\ UNCHANGED <<buf, bufPos, eventCount, closing, ctxDone, pushChan, prodVars,
                 held, doneChan, ackVars, histVars>>

\* Mutant: the expired timer still waits for enough events.
GetTimeoutBlocks ==
  /\ ~ctxDone
  /\ pendingGet # 0
  /\ ~GetRequestShouldBlock(pendingGet, eventCount, closing)
  /\ HandleGetReply(pendingGet, eventCount)
  /\ pendingGet' = 0
  /\ UNCHANGED <<buf, bufPos, eventCount, closing, ctxDone, pushChan, prodVars,
                 reader, held, doneChan, ackVars, histVars>>

\* The flush timer of the pending request expires.
GetTimeout ==
  /\ ~ctxDone
  /\ pendingGet # 0
  /\ HandleGetReply(pendingGet, eventCount)
  /\ pendingGet' = 0
  /\ UNCHANGED <<buf, bufPos, eventCount, closing, ctxDone, pushChan, prodVars,
                 reader, held, doneChan, ackVars, histVars>>

\* handleDelete, with ackLoop's send on deleteChan.
HandleDelete ==
  /\ ~ctxDone
  /\ ackPC = "delete"
  /\ bufPos' = (bufPos + ackedCount) % Events
  /\ eventCount' = eventCount - ackedCount
  /\ consumedCount' = consumedCount - ackedCount
  /\ ctxDone' = (closing /\ eventCount' = 0)
  /\ released' = released + ackedCount
  /\ ackPC' = "callbacks"
  /\ ackedCount' = 0
  /\ UNCHANGED <<buf, consumedBatches, pendingGet, closing, pushChan, prodVars,
                 readVars, pendingBatches, ackedBatches, callbacks, lastACK,
                 log, copied, acked>>

-----------------------------------------------------------------------------
(* The reader, and whoever finishes a batch                                *)

\* rawEntry: the slot of the i-th entry of a batch, i from 0.
RawIndex(b, i) == (b.start + i) % Events
BatchSlots(b) == {RawIndex(b, i) : i \in 0..(b.count - 1)}

\* Get returns; newBatch copies the entries and calls FreeEntries.
ReaderReceive ==
  /\ reader = "waiting"
  /\ response # NoBatch
  /\ copied' = copied \o [i \in 1..response.count |->
                             buf[RawIndex(response, i - 1)].event]
  /\ buf' = [s \in Slot |-> IF s \in BatchSlots(response)
                            THEN [buf[s] EXCEPT !.event = NoEvent] ELSE buf[s]]
  /\ held' = held \cup {response}
  /\ response' = NoBatch
  /\ reader' = "idle"
  /\ UNCHANGED <<bufPos, eventCount, consumedCount, consumedBatches, pendingGet,
                 closing, ctxDone, pushChan, prodVars, doneChan, ackVars,
                 log, released, acked>>

ReaderEOF ==
  /\ reader = "idle" /\ ctxDone
  /\ reader' = "eof"
  /\ UNCHANGED <<runVars, pushChan, prodVars, response, held, doneChan, ackVars,
                 histVars>>

BatchDone(b) ==
  /\ b \in held
  /\ held' = held \ {b}
  /\ doneChan' = doneChan \cup {b}
  /\ UNCHANGED <<runVars, pushChan, prodVars, reader, response, ackVars, histVars>>

-----------------------------------------------------------------------------
(* ackLoop                                                                 *)

\* The rendezvous on consumedChan: runLoop hands over its consumed batches.
AckReceive ==
  /\ ~ctxDone
  /\ ackPC = "select"
  /\ consumedBatches # <<>>
  /\ pendingBatches' = pendingBatches \o consumedBatches
  /\ consumedBatches' = <<>>
  /\ UNCHANGED <<buf, bufPos, eventCount, consumedCount, pendingGet, closing,
                 ctxDone, pushChan, prodVars, readVars, ackPC, ackedBatches,
                 ackedCount, callbacks, lastACK, histVars>>

\* Mutant: the oldest batch is taken whether or not it is done.
NextBatchPending == pendingBatches # <<>>

\* nextBatchChannel: the oldest pending batch has its Done message waiting.
NextBatchDone == pendingBatches # <<>> /\ Head(pendingBatches) \in doneChan

\* handleBatchSig and collectAcked: take the oldest batch if it is done, and
\* go on while the next one is done too.
CollectAcked ==
  /\ ackPC \in {"select", "collect"}
  /\ NextBatchDone
  /\ doneChan' = doneChan \ {Head(pendingBatches)}
  /\ ackedBatches' = ackedBatches \cup {Head(pendingBatches)}
  /\ ackedCount' = ackedCount + Head(pendingBatches).count
  /\ pendingBatches' = Tail(pendingBatches)
  /\ ackPC' = "collect"
  /\ UNCHANGED <<runVars, pushChan, prodVars, reader, response, held, callbacks,
                 lastACK, histVars>>

\* Mutant: the loop over the entries of a batch stops before entry 0.
AckedIDsButFirst(p) ==
  {buf[s].producerID :
     s \in {t \in UNION {BatchSlots(b) \ {RawIndex(b, 0)} : b \in ackedBatches} :
            buf[t].producer = p}}

\* The producer IDs of p in the batches being acknowledged.
AckedIDs(p) ==
  {buf[s].producerID : s \in {t \in UNION {BatchSlots(b) : b \in ackedBatches} :
                                buf[t].producer = p}}

\* The largest of the old lastACK and those IDs: visiting entries newest
\* first, every ID above lastACK moves lastACK to it.
NewLastACK(p) ==
  LET ids == AckedIDs(p) \cup {lastACK[p]}
  IN CHOOSE m \in ids : \A k \in ids : k <= m

\* processACK up to the send on deleteChan.  The counts of the callbacks of
\* one producer add up to the distance lastACK moves.
ProcessACK ==
  /\ ackPC = "collect"
  /\ ~NextBatchDone
  /\ lastACK' = [p \in AckProducers |-> NewLastACK(p)]
  /\ callbacks' = [p \in AckProducers |-> NewLastACK(p) - lastACK[p]]
  /\ buf' = [s \in Slot |-> IF s \in UNION {BatchSlots(b) : b \in ackedBatches}
                            THEN [buf[s] EXCEPT !.producer = NoProducer]
                            ELSE buf[s]]
  /\ ackedBatches' = {}
  /\ ackPC' = "delete"
  /\ UNCHANGED <<bufPos, eventCount, consumedCount, consumedBatches, pendingGet,
                 closing, ctxDone, pushChan, prodVars, readVars, pendingBatches,
                 ackedCount, histVars>>

\* Mutant: the callbacks do not wait for the deletion.
RunCallbackEarly(p) ==
  /\ ackPC \in {"delete", "callbacks"}
  /\ callbacks[p] > 0
  /\ acked' = [acked EXCEPT ![p] = @ + callbacks[p]]
  /\ callbacks' = [callbacks EXCEPT ![p] = 0]
  /\ UNCHANGED <<runVars, pushChan, prodVars, readVars, pendingBatches, ackPC,
                 ackedBatches, ackedCount, lastACK, log, released, copied>>

\* processACK after the deletion: run the producers' callbacks.
RunCallback(p) ==
  /\ ackPC = "callbacks"
  /\ callbacks[p] > 0
  /\ acked' = [acked EXCEPT ![p] = @ + callbacks[p]]
  /\ callbacks' = [callbacks EXCEPT ![p] = 0]
  /\ UNCHANGED <<runVars, pushChan, prodVars, readVars, pendingBatches, ackPC,
                 ackedBatches, ackedCount, lastACK, log, released, copied>>

CallbacksDone ==
  /\ ackPC = "callbacks"
  /\ \A p \in AckProducers : callbacks[p] = 0
  /\ ackPC' = "select"
  /\ UNCHANGED <<runVars, pushChan, prodVars, readVars, pendingBatches,
                 ackedBatches, ackedCount, callbacks, lastACK, histVars>>

-----------------------------------------------------------------------------
Publish(p) ==
  \/ PublishCall(p) \/ PublishSend(p) \/ PublishRejected(p)
  \/ TryPublishSend(p) \/ TryPublishRejected(p)
  \/ PublishAnswered(p) \/ PublishAborted(p) \/ ProducerClose(p)

RunLoop == HandleClose \/ HandleInsert \/ GetTimeout \/ HandleDelete

Reader ==
  \/ \E n \in GetCounts : HandleGetRequest(n)
  \/ ReaderReceive \/ ReaderEOF

AckLoop ==
  \/ AckReceive \/ CollectAcked \/ ProcessACK \/ CallbacksDone
  \/ \E p \in AckProducers : RunCallback(p)

Next ==
  \/ \E p \in Producers : Publish(p)
  \/ RunLoop
  \/ Reader
  \/ \E b \in held : BatchDone(b)
  \/ AckLoop

Spec == Init /\ [][Next]_vars

\* A Go select picks among its ready cases at random, so a case that stays
\* ready is taken; goroutines are scheduled fairly; the flush timer fires.
\* The reader keeps calling Get and every batch is eventually Done (the
\* outputs' part of the contract).  Nothing obliges a producer to publish or
\* anyone to call Close.
Fairness ==
  /\ WF_vars(HandleInsert) /\ WF_vars(GetTimeout) /\ WF_vars(HandleDelete)
  /\ WF_vars(AckReceive) /\ WF_vars(CollectAcked) /\ WF_vars(ProcessACK)
  /\ WF_vars(CallbacksDone)
  /\ \A p \in AckProducers : WF_vars(RunCallback(p))
  /\ WF_vars(Reader)
  /\ WF_vars(\E b \in held : BatchDone(b))
  /\ \A p \in Producers :
       /\ WF_vars(PublishSend(p) \/ PublishRejected(p))
       /\ WF_vars(PublishAnswered(p) \/ PublishAborted(p))

FairSpec == Spec /\ Fairness

-----------------------------------------------------------------------------
(* Properties                                                              *)

\* Every variable has its type, and the counters of runLoop are ordered the
\* way the comments on its fields say.
TypeOK ==
  /\ buf \in [Slot -> Entry]
  /\ bufPos \in Slot
  /\ eventCount \in 0..Events
  /\ consumedCount \in 0..eventCount
  /\ consumedBatches \in Seq(Batch)
  /\ pendingGet \in 0..Events
  /\ closing \in BOOLEAN /\ ctxDone \in BOOLEAN
  /\ pushChan \in Seq([event : Event, producer : AckProducers \cup {NoProducer},
                       producerID : Nat])
  /\ pc \in [Producers -> {"idle", "publishing", "waiting"}]
  /\ producedCount \in [Producers -> Nat]
  /\ eventsOpen \subseteq Producers
  /\ producerClosed \subseteq Producers
  /\ resp \subseteq Producers
  /\ reader \in {"idle", "waiting", "eof"}
  /\ response \in Batch \cup {NoBatch}
  /\ held \subseteq Batch /\ doneChan \subseteq Batch
  /\ pendingBatches \in Seq(Batch)
  /\ ackPC \in {"select", "collect", "delete", "callbacks"}
  /\ ackedBatches \subseteq Batch
  /\ ackedCount \in Nat
  /\ callbacks \in [AckProducers -> Nat]
  /\ lastACK \in [AckProducers -> Nat]
  /\ log \in Seq(Event) /\ released \in Nat
  /\ copied \in Seq(Event \cup {NoEvent})
  /\ acked \in [AckProducers -> Nat]

\* insert never overwrites an event the consumer has not read yet: the ring
\* slots after the consumed ones hold exactly the newest accepted events, in
\* order, whatever was deleted, freed and wrapped around in between.
UnreadEventsIntact ==
  \A i \in consumedCount..(eventCount - 1) :
    buf[(bufPos + i) % Events].event = log[released + i + 1]

\* What the consumer copied out of its batches (Entry, then FreeEntries) is
\* the accepted events in the order handleInsert accepted them: nothing is
\* skipped, repeated, reordered or already nil.
CopiedInOrder ==
  /\ Len(copied) <= Len(log)
  /\ \A i \in 1..Len(copied) : copied[i] = log[i]

\* Events of a batch that is on its way to the consumer or held by it are
\* never deleted from the ring by the acknowledgement of other batches.
HeldIsNotReleased ==
  \A b \in held \cup ({response} \ {NoBatch}) : b.first >= released

\* processACK notifies listeners only of events that "have been removed":
\* no event is acknowledged while it is still in the ring.
AckedIsReleased ==
  \A k \in 1..Len(log) :
    (log[k].from \in AckProducers /\ log[k].n <= acked[log[k].from])
      => k <= released

\* Whenever ackLoop is back in its select, every producer has been told of
\* every one of its events that left the queue: condensing callbacks by
\* producerID loses no acknowledgement.
ReleasedIsAcked ==
  ackPC = "select" =>
    \A k \in 1..released :
      log[k].from \in AckProducers => log[k].n <= acked[log[k].from]

\* The events of one producer enter the queue in the order of their producer
\* IDs and no ID enters twice, although a call that returned false on a
\* closing queue may have left its event in the queue without counting it.
ProducerOrder ==
  \A j, k \in 1..Len(log) :
    (j < k /\ log[j].from = log[k].from) => log[j].n < log[k].n

\* A Publish that returned true put its event in the queue, and the queue
\* holds at most one event whose Publish has not returned true.
PublishedIsAccepted ==
  \A p \in Producers :
    /\ \A n \in 1..producedCount[p] : \E k \in 1..Len(log) : log[k] = [from |-> p, n |-> n]
    /\ \A k \in 1..Len(log) : log[k].from = p => log[k].n <= producedCount[p] + 1

\* Producer: "If the event was successfully added, returns true with the event's
\* assigned ID, and false otherwise."  An event in the queue belongs to a call that
\* returned true or has not returned yet.
RefusedIsNotAccepted ==
  \A k \in 1..Len(log) :
    LET p == log[k].from IN log[k].n <= producedCount[p] \/ pc[p] = "waiting"

\* The memory queue implements the queue interface.
AbstractQueue == INSTANCE Queue WITH
  Capacity <- Events, accepted <- log, read <- released + consumedCount,
  finished <- ctxDone
ImplementsQueue == AbstractQueue!Spec

\* Every accepted event of a producer with a callback is acknowledged to it
\* in the end, also when the queue is closed in the meantime.
AcceptedIsAcked ==
  \A p \in AckProducers : \A n \in 1..MaxPublish :
    (\E k \in 1..Len(log) : log[k] = [from |-> p, n |-> n]) ~> (acked[p] >= n)

\* No call of Publish blocks for ever, neither on a full queue nor on a
\* closing one.
PublishReturns ==
  \A p \in Producers : (pc[p] # "idle") ~> (pc[p] = "idle")

\* A reader that waits for its Get to be answered gets an answer, although
\* too few events may ever arrive to fill the request.
GetReturns == (reader = "waiting") ~> (reader # "waiting")

\* A queue closed with events in it finishes once they are acknowledged.
DrainedQueueFinishes == (closing /\ eventCount > 0) ~> ctxDone

\* queue.go on Done: the channel "unblocks when the queue is closed and all
\* its events are persisted or acknowledged".
DoneUnblocks == closing ~> ctxDone

=============================================================================
