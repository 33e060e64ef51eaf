# libbeat in TLA+

A model of libbeat, the framework the Beats are built on: TLA+ modules of its
concurrent and stateful parts, TLC configurations that check them on small
instances, and TLAPS proofs of the main results for every size.

## The system and its parts

An *input* connects to the **pipeline** (`publisher/pipeline`) and gets a
**client**. A published event goes through the client's **processors**, is
counted by the client's **event listener** (`common/acker`) and is pushed into
the **queue** through a producer. There are two queues: the **memory queue**
(`publisher/queue/memqueue`) and the **disk queue** (`publisher/queue/diskqueue`).
The pipeline's **event consumer** has a **queue reader** fetch batches, wraps
each in a `ttlBatch` and offers it to the **output workers**, who hand it to an
**output client** (`outputs/...`). The output acknowledges the batch, drops it,
or gives it back for a retry, whole, in part, or split in two. A finished batch
tells the queue, the queue tells the producers, the listeners tell the input.
The **output controller** creates the queue, swaps outputs on reload and runs
the shutdown. Beside the pipeline, the **state store** (`statestore`, backend
`memlog`) keeps the inputs' positions on disk, **autodiscover** and **cfgfile**
start and stop runners as configurations come and go. The rest surrounds these:
readers that turn files into messages, templates and dashboards that are set up in
Elasticsearch and Kibana, monitoring, and the Beat process itself.

What is hard in each part, and what should hold:

| part | state | operations | what is hard |
|---|---|---|---|
| memory queue | ring buffer, three counters, pending get, batch lists, per-producer IDs | publish, try-publish, get, done, close, flush time-out | three goroutines touch the ring without locks; batches finish out of order; close races with publish, get and acknowledgement |
| event consumer, batches, workers | retry list, read-ahead batch, TTLs, split counters | send, retry, cancel, split, drop, retarget, close | a batch must be done exactly once whatever mixture of partial retries, splits and expiries it goes through; shutdown while a batch is in flight |
| client, listeners | gap list, open flag, close waiter | publish, acknowledge, close | acknowledgement thread against publisher thread; waiting for the last acknowledgement with a time-out |
| output controller | queue, pending producer requests, workers | set, reload, connect, close | requests before the queue exists; shutdown before an output was set |
| disk queue | segments, positions, pending frames, reader, writer and deleter loops | write, read, acknowledge, delete, persist, restart | loops answer one request at a time; a crash between any two steps; size limits |
| memlog store | table, log, checkpoint files | set, remove, checkpoint, reload | write errors half way; a crash between the files of a checkpoint |
| store registry | reference counts | get, close, release | release racing with re-open |
| outputs | windows, connections, per-event results | publish, reconnect, fail over | asynchronous answers after the connection is gone; partial failure inside a bulk request |
| autodiscover, cfgfile | configs by hash, running runners | start, stop, reload | stop of something still starting, the same config twice |
| readers, processors | buffers, caches, timers | next, run | mostly sequential; shared caches with expiry |

## Modules

| modules | model | kind |
|---|---|---|
| `Queue` | the contract of `publisher/queue/queue.go` | abstract specification |
| `MemQueue` | the memory queue with its producers, reader and acknowledgement loop | detailed specification |
| `EventConsumer` | event consumer, queue reader, batches, workers, exchange of outputs | detailed specification |
| `Client`, `SyncClient` | client, close waiter, event listeners; the client that waits for its events | detailed specifications |
| `Controller` | output controller: creation of the queue, pending clients, reload, shutdown | detailed specification |
| `DiskQueue`, `SegmentFiles` | the disk queue's loops with kill and restart; one segment file, from header to last frame | detailed specifications |
| `MemLog`, `StoreRegistry` | the memlog store with a failing disk; the registry of shared stores | detailed specifications |
| `Outputs` | failover, elasticsearch, logstash, kafka, redis, file, console, discard and otel outputs | detailed specification |
| `OutputSettings` | selectors, partitioners, back-off, presets, queue and TLS settings | algorithms |
| `IndexSetup`, `EsConnection` | the callbacks of a connection, lifecycle and templates; one connection and its request bodies | detailed specifications |
| `Inputs` | runner lists, reloading of files, autodiscover and its providers | detailed specification |
| `Event`, `EventPipeline` | events as trees of fields; the stages of a client's processing | data, detailed specification |
| `FieldActions`, `ProcessorRuns` | the stateless processors, and one run of each | algorithms |
| `ProcessorCaches`, `MetadataProcessors`, `Scripts` | processors that keep a state: caches, rate limits, cloud, process and pod metadata, javascript sessions | detailed specifications |
| `TextAlgorithms`, `TextRuns` | matchers, conditions, dissect, time formats, format strings, and one call of each | algorithms |
| `Readers`, `StreamBuffer` | lines, multiline messages, container logs, JSON lines; the stream buffer and the reader of bulk responses | detailed specifications |
| `FieldMappings`, `Modules` | templates and index patterns; filesets, ingest pipelines, dashboards | algorithms, detailed specifications |
| `Beat`, `DataPath` | the life of a Beat, metrics and monitoring; Beats that share a data path | detailed specifications |
| `MCQueuesLive`, `MCDisk`, `MCServices`, `MCInputs`, `MCText`, `MCProcessing`, `MCPlatform` | the instances TLC checks that hold several components | model checking |
| `DataLemmas` | modulo arithmetic, least numbers, sequences | lemmas |
| `MemQueueProofs`, `MemQueueTheorems` | the inductive invariant of `MemQueue`, one lemma per action, the theorems and the refinement | proofs |
| `EventConsumerProofs`, `EventConsumerTheorems` | the accounts of the batches and the inductive invariant of `EventConsumer`; its steps and the theorems | proofs |
| `ClientProofs`, `ClientSteps`, `ClientTheorems` | the inductive invariant of `Client`, part by part; its part on the list of gaps, action by action; the theorems | proofs |

An MC module that holds several components has a variable `part`, chosen in the
initial state: a behaviour is one of that component, and the variables of the
others do not change. The components of one such module share no state in the code
either, so nothing is lost by checking them side by side. `Outputs` works in the
same way, with the output that is configured. The components' own modules state
what each promises, one definition per promise; a property of such a run is the
conjunction of the promises that belong together, and its comment says of what.
`MemQueue`, `EventConsumer`, `Client` and `Outputs` are checked as they stand.

### MemQueue

One step is one case of a Go `select`, or one rendezvous on an unbuffered
channel. `buf`, `bufPos`, `eventCount`, `consumedCount`, `consumedBatches`,
`pendingGet`, `closing` are the fields of `runLoop`; `pushChan` is the buffered
push channel; `pc`, `producedCount`, `eventsOpen`, `producerClosed`, `resp` are
the producers (`openState`, `ackProducer`); `reader`, `response`, `held`,
`doneChan` are the consumer side of `Get` and the batches it holds;
`pendingBatches`, `ackPC`, `ackedBatches`, `ackedCount`, `callbacks`, `lastACK`
are `ackLoop` and the per-producer `produceState`. `ackPC` splits
`handleBatchSig` where other goroutines can get in: after the collection of
finished batches, before the send on `deleteChan`, and before each callback.
`log`, `released`, `copied`, `acked` are history: they record the accepted
events, how many left the ring, what the consumer copied, and what each producer
was told. No guard reads them.

Abstractions: an event is its producer and its number there; event sizes (only
summed up for metrics) and the encoder hook are left out; entry IDs, which
nothing in the queue reads, are the position in `log`; the batch pool is left
out, a batch being a value; the callbacks of one producer that one `processACK`
collects are one callback with the sum of their counts.

### EventConsumer

`target`, `queueBatch`, `pendingRead`, `retryBatches` are the locals of
`eventConsumer.run`; an action is one case of its select together with the top of
the next turn, where the next read is requested (`TopOfLoop`). `reader` is where
`queueReader.run` stands. `calls` are the calls of `eventConsumer.retry` that
have not returned: an output or a worker blocks there until the consumer takes
the batch or is shut down, and `SplitRetry` makes two such calls in turn.
`workerPC`, `connected`, `cancelled` are the workers, known by their generation,
so that workers of a replaced output and of the new one coexist as they do in the
code, reading the same channel. `inFlight` are batches held by output clients.
`controller` and `closing` are where `Set` and `WaitClose` stand; the two run
independently of each other.

A batch is the set of its events: their order inside a batch matters to no
property. `owes` is the set of events the done callback of a fragment was created
for; only its size is subtracted, as in `doneCallback`. Batches are values; the
events of two batches are disjoint, so no two are equal. An output client is any
program that answers each batch it holds with one call of `publisher.Batch`, the
calls it uses given by `Outcomes`. `queueBatches`, `doneCount`, `finished`,
`expired` are history.

### Client

`pub` is where `client.publish` stands: processors and close waiter, the data
list of `eventDataACKer`, the gap list of `trackingACKer`, the queue. `ack` is
where `ACKEvents` stands, on the goroutine of the queue's acknowledgement loop.
`closer` and `waiterRoutine` are `client.Close` and the routine `signalClose`
starts. Each visit to the gap list is one step: a visitor holds the lock of the
list while it takes the lock of a gap, a gap that was unlinked belongs to the
acknowledgement loop alone, and the last gap stays locked while it is changed.
Where a callback runs under both locks, a filtered event with nothing before it,
the model keeps the acknowledgement loop out (`AckList`). Data is taken under a
lock and the input's callback runs after it, so these are two steps. An event is
its number; the queue is a sequence that accepts, rejects and acknowledges.

### MemLog

`home`, `dataFiles`, `log` are the directory of the store; the rest of the state
is `store` and `diskstore` in memory, which ends with the process. The store's lock
admits one operation at a time, so `pc` is where it stands: `Set` and `Remove`
change the table, then append to the log or write a checkpoint, and a checkpoint
goes through its temporary file, the rename, the truncation of the log and the
removal of old data files. Each of these is a step that can fail, and a kill or an
outage can come between any two. `bufFailed` and `bufStale` are what a
`bufio.Writer` keeps after an error: the error, and bytes it did not write.
Recovery reads the newest data file, then the log entry by entry.

Abstractions: a log entry has size 1; a torn or unreadable part of the log is one
`Garbage` entry; 64-bit transaction ids are numbers modulo `IDSpace`; permissions,
the meta file's content and the active marker, which nothing reads, are left out.
An outage loses a suffix of the log that was not synced and nothing else.
`versions`, `version`, `acked`, `synced`, `syncedLog`, `damaged` are history: the
tables there were, and which of them was reported as stored.

### DiskQueue and SegmentFiles

In `DiskQueue` serving one message of the core loop is one step, since the loop
never blocks; the writer, reader and deleter loops serve one request each, frame by
frame or file by file. `segments`, `pendingFrames`, `blockedProducers` and the
positions are the fields of `diskQueue` and `diskQueueSegments`; a kill can come
between any two steps, leave a frame half written, and leave the position file
between two of its writes. A frame and a file header have size 1 there; a request
with a larger frame than a segment holds is refused. The writer tells producers what
it wrote before it answers the core loop (`reported`); when it gives up the creation
of a segment during shutdown it dereferences the file it does not have.
`SegmentFiles` is the layer below: one file in units of four bytes, with headers,
lengths, checksums, compression and encryption, the writer that retries, the scan
after a restart and the seek to a saved position.

### Controller, StoreRegistry, IndexSetup

`Controller` follows `Set`, `WaitClose`, `queueProducer` and `createQueueIfNeeded`
between the points where another goroutine can get in. `StoreRegistry` has one step
for what runs under `Registry.mu` and one for each atomic operation on `refCount`;
`Registry.Close` waits in one step and closes the backend in another.
`IndexSetup` has one step for every request to the cluster; a request may fail, and
a failed PUT may have been carried out.

### Outputs

Each output is an action per call and per answer of its client library, under the
contract of `publisher.Batch`; what they share (failover, batches, faults) is
stated once. A batch is a set of events; an event's answer is one of those the
output tells apart. The libraries (lumberjack, sarama, redigo) are external:
they answer, fail, or lose the connection.

### Inputs

The runner list, the reloader with its glob watcher, and the autodiscover worker
with one of its providers (kubernetes, leader election, docker, jolokia) in front
of it. A configuration is known by its hash; runners take as long as they like to
start and stop. The watchers' contents are external.

### Processing, text, readers

An event is a function from the paths of its leaves to values, with the maps that
processors share kept apart where aliasing matters (`EventPipeline`). A stateless
processor is an operator on a configuration and an event; `ProcessorRuns` applies
each to several thousand pairs, and those that leave nothing to do a second time to
their own result. Processors with a state are state machines with
concurrent events. The text algorithms are recursive operators, compared with
reference definitions. The readers are state machines whose input arrives in every
possible partition.

### Platform

`Beat` is `launch`, the stop requests and the re-exec, the metrics log and the
monitoring reporter. `DataPath` has files with numbers, so that a file which was
removed while it is open is not the file of the same name made later. `Modules`,
`FieldMappings`, `EsConnection` and `OutputSettings` take the form of their code:
loops over definitions, pipelines and references, with every request able to fail.

## Runs

| run | components | checks |
|---|---|---|
| `memqueue` | `MemQueue` | six invariants of the memory queue, and that it implements `Queue` |
| `consumer` | `EventConsumer` | three invariants, `DoneIsFinal`, `NothingLost`, `FinishedIsDone`, and that every batch is done at last (`EveryBatchDone`) |
| `consumer_split` (violated) | `EventConsumer` | `outstandingEvents` reaches zero: it does not, see below |
| `queues_live` | `DiskQueue`, `MemQueue` | liveness of both queues, the disk queue's with failing writes |
| `client` | `Client` | reports, close, the absence of panics; calls return |
| `disk` | `MemLog`, `DiskQueue` | what survives kills and faults |
| `outputs` | `Outputs` | every event is answered but on four paths, none is sent twice but on three, which the properties name (see below); gauges and windows are right; batches finish |
| `services` | `StoreRegistry`, `Controller`, `IndexSetup` | stores in use are open; clients get their queue; connections are set up |
| `inputs` | `Inputs` | runners and lists agree, stops leave nothing, changes arrive |
| `text` | `TextRuns`, `Readers`, `StreamBuffer` | algorithms agree with their references, lines and messages come out once |
| `processing` | `EventPipeline`, `ProcessorRuns`, `ProcessorCaches`, `MetadataProcessors`, `Scripts` | failed processors restore, caches are bounded and recent, sessions are exclusive |
| `platform` | `Beat`, `DataPath`, `Modules`, `FieldMappings`, `EsConnection`, `OutputSettings`, `SegmentFiles`, `SyncClient` | see the comments of `MCPlatform` |

Deadlock is not checked: all these systems stop legitimately once the bound on
their inputs is used up and they are drained or closed. Where everyone waiting on
everyone would be a fault, a liveness property says what must happen instead
(`WaitingEnds`, `CallsReturn`, `DiskShutdownEnds`, `MemoryWaitsEnd`, `EveryBatchDone`).

Bounds, and why they are enough:

* `memqueue`: a ring of two slots, one place in `pushChan`, a
  producer with a callback and one without, two events each. The ring wraps, fills
  up, and holds several unacknowledged batches that finish out of order; producers
  overtake each other; close interrupts all of it. The proofs remove these bounds.
* `consumer`: two events, or one event and a second output group that replaces the
  first, one of the two possibly without clients, all calls of `publisher.Batch`, a
  guaranteed event and a time to live of two. Every fairness condition is checked in every cycle, which is what limits the
  events; the proofs remove the bounds for the invariants.
* `consumer_split`: five events are the least for which a fragment can shrink and
  be split again; a client without Connect keeps the run short.
* `client`: four events, so that a list of two gaps is acknowledged in parts, with
  filtered and rejected events and a close. The proofs remove these bounds for the
  three invariants.
* `disk`: for the store three operations on two keys, one value of which does not
  encode, two faults, a log that is full with two entries, and transaction ids that
  wrap: a checkpoint comes before, between or after the logged operations, and a
  crash after a failed one. For the queue four events in three sessions with the
  kills in between, segments that two frames fill, and a size limit that two of them
  reach: a session ends with a segment of one frame or of two, and a position that is
  saved in part skips an event. `queues_live` has three events in three sessions, so
  that two segments end before the core loop takes the first report.
* `outputs`: three events in one or two batches, two faults, two hosts: a batch is
  answered in parts before and after a fault, and fails over.
* `services`: three users of two stores, so that one reopens what the last one
  closes; three clients and three calls of Set; two workers that connect.
* `inputs`: two objects, three changes, two terms of leadership, and one container
  that starts and stops four times in all: a change meets the start and the stop of
  what the one before it began, and a container that stopped starts again before and
  after its cleanup timeout, and stops again.
* `processing`: a clock of three with a time to live of one, so that an entry expires
  and its key is put again; the other inputs as below.
* `text`, `platform`: inputs enumerated in the modules next to the code they
  exercise, chosen by its branches.

Fairness:

* `MemQueue`, in `MCQueuesLive`: Go's select chooses among ready cases at random,
  so a case that stays ready is taken, and goroutines are scheduled; the flush
  timer fires; the reader calls Get again and again, as `queueReader.run` does; a
  batch handed to the outputs is eventually done, which is what `publisher.Batch`
  demands of them. Nobody is obliged to publish or to close.
* `EventConsumer`: Go serves blocked senders of a channel in turn, so each call of
  `retry` is taken; an output does not answer a batch with `Cancelled` for ever (a
  strong fairness, since the batch leaves the output with each such answer), and
  finishes one that cannot expire; Connect does not fail for ever; Connect and
  Publish return. Without the third a batch circles between worker and consumer for
  as long as the output is down, which is what the code intends.
* `Client`: each goroutine goes on with what it began, the queue acknowledges,
  timers fire.
* `DiskQueue`: some loop that can go on does (`Progress`). Producers, kills and
  faults are not in it.
* `Controller`, `IndexSetup`, `Outputs`: calls that began go on; the budget of
  faults ends.
* `Inputs`: the reloader and the worker go on; the reloader, which selects between
  its done channel and the next scan again and again, takes the done case at last
  (strong fairness, since each scan closes that choice for a while; Go's select
  chooses at random); the jolokia timer fires.

## Proofs

TLAPS checks the following for every value of the constants that the named
assumptions allow (`MemQueueAssumption`, `EventConsumerAssumption`,
`NilAssumption`, `ClientAssumption`), with no bound on events, producers, workers or steps.

### The memory queue

`MemQueueTheorems` proves the type invariant, the six invariants of run
`memqueue`, that `Publish` returning true means accepted
(`PublishedIsAcceptedHolds`), and `Spec => ImplementsQueue`. The inductive
invariant `IInv` is in `MemQueueProofs`. Its main parts, each needed because the
safety properties alone are not inductive:

* `WindowInv`: `bufPos` is `released % Events` and the counters are positions in
  `log`, so that modulo arithmetic on slots becomes plain arithmetic on positions;
* `BatchInv`: the outstanding batches form a chain of adjacent ranges from the
  first unreleased to the last consumed position, each with its start slot equal
  to its position modulo the ring size, and each either on its way to the reader,
  held, done, or collected;
* `RingInv`, `CollectedInv`, `NotifyInv`: what each slot of the window holds
  (event until it is copied, producer until it is acknowledged);
* `AckInv`, `PushInv`, `ProducerInv`: `lastACK` against the IDs in the log, the
  IDs in the push channel and `producedCount`.

`InductiveInvariant` combines one lemma per action. The refinement adds that a
reply reads at least one event and that a deletion releases at least one.

### The event consumer

`EventConsumerTheorems` proves the three invariants of run `consumer` and two more
that no run lists, the types and `GuaranteedKept`: a
queue batch is done at most once and not before the last of its fragments
(`DoneIsFinal`); until the shutdown every event taken from the queue is finished or
on its way, in one place (`NothingLost`); a queue batch with nothing on its way is
done (`FinishedIsDone`, with the exception that `consumer_split` shows);
and `reduceTTL` never gives up a guaranteed event (`GuaranteedKept`).

A batch on its way is in one of six places: in the reader's hand, in `queueBatch`,
in the retry list, with an output client, in a call of `retry`, or as the second
half of a `SplitRetry` whose first half is being handed over. The inductive
invariant `IInv` (`EventConsumerProofs`) says:

* `Once`: no batch is in two places, or twice in one (`PlacesApart`,
  `CallsDistinct`, `RetriesDistinct`). Without it a batch could be finished in one
  place and live on in another;
* `Accounted`: the accounts of the batches on their way. They are stated in
  `EventConsumerProofs` as a predicate `Accounts` on the set of live batches and
  the values of the counters, so that the lemmas about them speak of sets and
  numbers alone: the events of a live batch are events of its queue batch that are
  not finished (`Sound`), different fragments share none (`Separate`),
  `outstandingEvents` is the number of events the live fragments owe, or more where
  the second split of a shrunk fragment lost count (`Counted`), and a batch with no
  live fragment is done (`Closed`);
* `Handover`: the reader holds a batch only while `queueBatch` is free for it, which
  is why receiving it overwrites nothing;
* `Numbered`: fresh events have numbers no earlier batch has.

Each action moves a batch from one place to another, perhaps smaller, perhaps in
two halves, perhaps into `done`. `EventConsumerProofs` shows that each of these
moves keeps `Accounts` (`ShrinkKeeps` for partial retries and expiry,
`FinishWholeKeeps`, `FinishFragmentKeeps`, `SplitKeeps`, `FreshKeeps`,
`DiscardKeeps`, `ShutdownKeeps`), and what it does to the places
and the types; `EventConsumerTheorems` joins the two, one lemma per action.
`IInv` was model-checked on the workloads of run `consumer` before it was proved.

### The client

`ClientTheorems` proves the types and the three invariants of run `client`, for any
number of events: `trackingACKer` and `eventDataACKer` do not panic (`NoPanic`); the
input is told of an event once, and when it is finished (`ReportedIsFinished`); a
Close that was not hurried returns after the acknowledgements it waits for
(`CloseWaitsIfQuiet`).

What makes the first two hard is that nothing in a gap says which events it stands
for. The publisher appends an event to the data of `eventDataACKer`, to the list of
gaps and to the queue at different times; the acknowledgement loop takes a number of
events from the list while the publisher adds to it; and an event the queue rejects
stays in the list, so that the list runs behind the queue. The inductive invariant
`IInv` (`ClientProofs`) has seven parts:

* `WaiterInv`: the counter of the close waiter covers what is in the queue or on its
  way to it, so a zero means that everything accepted is acknowledged;
* `CountInv`, `QueueInv`, `DataInv`: every published event is counted by the wait
  group until it is told; the queue is in the order of publishing, and an event that
  is not in it is finished; no event is twice in the data, taken or told;
* `ToldInv`: what was taken, and what the loop has counted so far, is finished;
* `GapsInv`: a gap without sends is alone and empty;
* `ListInv`: there are two functions `S` and `T`, the totals of the sends and of the
  sends and drops up to each gap, by which the list is as long as the data, covers
  what is acknowledged, queued and being pushed (`CoverInv`), and finds for each
  place of a gap its datum (`OrderInv`): a send the loop is to account for is
  finished, the `m`-th send after those was published no later than the `m`-th event of
  the queue (perhaps earlier, since a rejected event stays in the list), and a drop was
  filtered out.

The totals would be a recursive sum. `ListInv` instead says that such functions
exist, and each action's lemma gives the functions of the next state from those of
the last one: extended by a gap (`ListPublished`), raised at the end
(`ListDropped`), shifted when the loop leaves the first gap (`ListAckGap`,
`ListAckLast`) or lowered when it stops within it (`ListAckPart`). `IInv` was
model-checked on the instance of run `client`, with the sums themselves for `S` and
`T`, before it was proved.

### What is only model-checked

* Liveness (the properties of `queues_live`, `EveryBatchDone`, and the temporal
  ones of `client`, `outputs`, `services` and `inputs`): fairness is out of reach
  of the provers used.
* What recursive definitions compute (most of `text`, parts of `processing` and
  `platform`): a proof would be an induction over data, for which the provers
  cannot instantiate the library's induction theorems.
* The other state machines. Their inductive invariants have not been worked out;
  the bounds above are what is known of them.

## What disagrees with the code's own documentation

`consumer_split` shows one case. A fragment of a split batch that loses events to a
partial retry and is split again subtracts too little (`ttl_batch.go:126-141`); the
queue batch is never done and its events never leave the queue, although
lines 59-60 say that the count reaches zero. `miscounted` marks these batches, and
`FinishedIsDone` excepts them.

Others were met on the way. They are definitions of the modules, or exceptions of
the properties, and no run is kept for each of them:

* `MemQueue!RefusedIsNotAccepted`: on a closing queue Publish may return false
  although its event entered the queue (`produce.go:144-150`; `queue.go:95-99`).
  `ProducerOrder` is what holds.
* `MemQueue!DoneUnblocks`: a memory queue that is empty when it is closed never
  unblocks `Done`, because only a deletion cancels the context
  (`runloop.go:128-132`, `217-220`; `queue.go:44-45`). `DrainedQueueFinishes`,
  a part of `MemoryWaitsEnd`, is what holds.
* An output without Connect whose Publish returns an error loses its worker until
  the next reload (`client_worker.go:101-103`), and the otel consumer's is one.
* `Client!EveryEventReported`: an event the queue rejects stays counted as sent, so
  later acknowledgements are taken for the events before them (`client.go:109`,
  `127-130`; `acker.go:75-76`). `ReportedUnlessRejected` is what holds.
* `Client!ACKReturns`: a signal nobody waits for can block the acknowledgement loop
  (`client.go:217-220`). A close can be ended by a zero that is out of date
  (`client.go:218`); `CloseWaitsIfQuiet` states what Close guarantees otherwise.
* `MemLog!OrdinaryRestarts`: a data file that does not decode is renamed but its
  transaction id is kept; what is logged after that is refused at the next start
  (`store.go:117-118`, `diskstore.go:575-577`; `doc.go:53-54`). `StoredSurvives`
  excepts it.
* `DiskQueue!AcceptedIsWritten`: frames accepted after a deletion wait for the next
  write request (`core_loop.go:86`, `94`). `DiskEventsGetThrough`
  states what holds.
* `DiskQueue!NothingDropped`: a kill between the writes of the position file leaves
  the new segment with the old byte index (`state_file.go:85-110`; `acks.go:58`).
  `NothingLost` excepts a damaged position.
* `DiskQueue!RestartAtFirstMissing`: frame 0 of a session does not move the saved
  position to its segment (`acks.go:160-165`; line 56), so acknowledged events are
  read again.
* `DiskQueue!WrittenIsReported`: a segment that cannot be created during shutdown
  ends the process instead of the request, and the producers of the frames written
  before are not told (`writer_loop.go:176-182`, `238`; lines 180, 240).
  `DiskShutdownEnds` and `NothingLost` hold all the same.
* `StoreRegistry!ClosedMeansUnused`: a store may be opened between the wait and the
  closing of the backend (`registry.go:51-54`; line 50). `ClosedRegistryIsUnused`, a
  part of `StoresAreShared`, says that no older one is in use.
* `Outputs!EveryEventAnswered`: a batch is acknowledged with events that were not
  processed (`outputs.go:34-36`) by logstash, when Publish meets a closed client
  (`logstash/async.go:212-216`, `273-276`); by kafka, when all errors of a batch are
  the breaker's (`kafka/client.go:371-374`, `396-411`); by redis, where an event that cannot
  be encoded hides the one behind it from the RPUSH and all behind it from its retry
  (`redis/client.go:337-338`, `266`); by the console, when Flush fails (`console.go:111`).
  `AnsweredUnlessGap`, a part of `OutputsAccount`, names these events (`gap`).
* `Outputs!OnlyUnsureRepeated`: events that were acknowledged are sent again when the
  logstash sync client's reconnect after `ttl` fails (`logstash/sync.go:124-128`),
  when an elasticsearch batch that was compacted in place is split after a 413
  (`elasticsearch/client.go:314`, `350`), and when Send fails in a redis pipeline
  (`redis/client.go:263-276`). `SentOnce`, a part of `OutputsAccount`, names them
  (`repeated`).
* `Inputs!OnlyTheHolder`: leader election callbacks that cross leave templates wanted
  by nobody's term, or stop those of the one that is on (`kubernetes.go:283`).
  `OnlyTheLeader` holds of all terms that did not cross.
* `Inputs!RunningAreFollowed`: the docker provider takes starts and stops in any order
  (`docker.go:148-155`) and does not abort a pending stop whose timer has fired
  (`249-254`). `ContainersAreFollowed` holds of the other containers.
* `TextRuns!DissectAlwaysEnds`: a field of fixed length lets the tokenizer read behind
  the end of the text (`dissect.go:129-136`, `163`), and an empty delimiter behind a
  greedy field is found for ever (`dissect.go:151-160`, `delimiter.go:62-64`).
  `DissectEnds` excepts exactly these tokenizers.
* `TextRuns!LiteralsAreCopied`: literals of three and four bytes are compiled as if
  they had two (`dtfmt/prog.go:156-159`; `dtfmt/doc.go:79`). `FormatsConcatenate`
  excepts them.
* `Readers!AllBytesReported`, `Readers!LinesAreAlwaysTheFile`: a line that is skipped
  and meets the end of the file leaves its bytes unreported and its rest to be
  returned as a line (`line.go:221-225`; lines 84-89), and a terminator split between
  two chunks of it takes the next line with it (`line.go:277`). `OffsetsAddUp` counts
  these bytes, and `LinesAreTheFile` holds but for split terminators.
* `Readers!ErrorsAlwaysComeOut`: an error that comes with the last bytes of a line is
  dropped when the line begins another message (`pattern.go:199-204`,
  `while.go:158-163`), and by the count reader. `LinesComeOutOnce` is about all lines,
  and the errors that come without one.
* `ProcessorCaches!FreshIsAlwaysKept`: an expired entry that Get took out of the map
  stays in the heap, and takes the next value of its key with it when it is evicted
  (`mem_store.go:160-162`, `203-204`; lines 150-152). `FreshIsKept` holds of all other
  keys, `CapacityKept` of all.
* `ProcessorCaches!WritesTakeNothing`: a file that was written half-way is renamed all
  the same, and a late tick writes a store that was emptied (`file_store.go:232-235`,
  `268-283`, `296-299`; line 279).
* `ProcessorCaches!DropIsSafe`: `get` and `dropFrom` take the locks of the set and of
  the store in opposite orders (`mem_store.go:48`, `142`; lines 133-134).
* `ProcessorCaches!RateAlwaysKept`: buckets are refilled and drawn from without a lock
  (`token_bucket.go:139-153`, `177`). `RateKept` bounds what that gives away.
* `Scripts!TimeoutIsAlwaysOwn`: the timer of one javascript run may interrupt the next
  one of its session (`session.go:232-237`). `TimeoutIsOwn` excepts it.
* `OutputSettings!ReconnectKeepsBackoff`: the redis backoff is reset by a reconnect
  after an internal error, because the test for that error never matches
  (`redis/backoff.go:106-107`, `client.go:290`; `backoff.go:40-45`). `WaitsGrow` counts
  from the last call that succeeded.
* `Beat!NotifiedIsLast`: the global processors are closed after the service manager
  was told of the end (`beat.go:649-653`; lines 655-659). `NotifiedIsReleased` is about
  what the next Beat needs.
* `SegmentFiles!EveryFrameIsCounted`: the scan of a segment that was not closed counts
  encrypted and compressed frames without decoding them (`segments.go:359`,
  `377-402`; lines 344-349). `ScanCountsWholeFrames` holds of plain files and of files
  that have a count.
* `SegmentFiles!ReadsBackAlways`: frames of version 1 segments are sought behind a
  header that is too long (`segments.go:217-223`; `on-disk-structures.md:8-10`), an
  encrypted write that is retried uses key stream twice, and a compressed segment is
  read up to its size on the disk after a restart (`segments.go:205`). `ReadsBack`
  excepts these and says that they give an error and never another event.
* `Modules!ForeignPipelinesKept`: a pipeline that was there before counts as loaded,
  and is deleted when a later one fails (`fileset/pipelines.go:96`, `104-105`); a
  request that fails counts as "not there" (`120-121`). `CustomPipelinesKept` is what
  holds.
* `DataPath!PathLockedOnce`: a lock taken on a file that was removed between open
  and lock excludes nobody (`lock_other.go:30-35`; `lock.go:62-64`).
  `PathIsExclusive`, a part of `FilesAreSafe`, excepts it.
* A state store that is opened again while its last user closes it may be closed
  under the new one (`statestore/store.go:170`); a client that connects after
  `WaitClose` waits for ever (`controller.go:282`); a set-up that failed half way is
  not repeated in full (`template/load.go:131`); autodiscover configurations that
  overtake each other leave runners behind (`autodiscover.go:158`). The properties
  name the history variable that marks these behaviours.

## Not modelled

* Generated code and data: `ecs`, the syslog scanner of `reader/syslog`, assets.
* Bindings and decoding for one platform: `sys`, `winevent`, seccomp policies,
  `decode_xml_wineventlog`, `translate_ldap_attribute`.
* Registration and glue: `api`, `feature`, `plugin`, `cmd` except the export of
  dashboards, command-line flags, instrumentation, cloud ids, mocks.
* Stateless helpers of `common` (schemas, type conversion, logging), and the
  encoding of events (`outputs/codec`, the serialization of the disk queue).
* Metrics, except where something depends on them (`SyncClient`, `Beat`).
* Libraries (sarama, lumberjack, redigo, goja, mapstr, the Go runtime): they are
  external, and appear as the answers their callers tell apart.
