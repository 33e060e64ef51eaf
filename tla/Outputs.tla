------------------------------ MODULE Outputs -------------------------------
(***************************************************************************)
(* The outputs of src/outputs: what they share, and the elasticsearch,     *)
(* logstash, kafka and redis outputs and the local ones, each with the     *)
(* batches of the publisher pipeline and the answers it may give. A        *)
(* behaviour is about the one output that is configured.                   *)
(***************************************************************************)
EXTENDS Integers, Sequences, SequencesExt, FiniteSets, FiniteSetsExt

-----------------------------------------------------------------------------
(***************************************************************************)
(* What every output of src/outputs shares: the batches of the publisher   *)
(* pipeline as Publish sees them (ttlBatch), the worker that connects the  *)
(* client and hands it batches (client_worker.go), the failover and        *)
(* backoff wrappers, and the observer's `active` gauge (metrics.go).       *)
(*                                                                         *)
(* An event is a number.  A waiting batch belongs to the event consumer    *)
(* (module EventConsumer), a batch that is "out" to a Publish that has     *)
(* not answered yet.  Retries are unlimited here (max_retries < 0); the    *)
(* time to live of a batch is modelled in EventConsumer.  Faults of the    *)
(* network and of the receivers come out of a budget, MaxFaults.           *)
(***************************************************************************)

CONSTANTS
    Outputs,     \* the outputs a behaviour may run
    Events,      \* the events the producers published
    Layouts,     \* how the events are split into batches: sequences of sequences
    Hosts,       \* number of hosts behind the failover client
    MaxBatches,  \* bound on the number of batches, splits included
    MaxFaults    \* bound on the number of failures of the environment

VARIABLES
    output,     \* the configured output; never changes
    bad,        \* events the codec cannot encode; never changes
    batch,      \* batch[b]: events is ttlBatch.events, state its owner
    copies,     \* copies[e]: how often the receiver has taken event e
    dropped,    \* events the output refuses: permanent errors and duplicates
    unsure,     \* events the receiver took in a request that failed: the output cannot know
    repeated,   \* events the output itself gives back once more although it sent them
    gap,        \* events of a batch that is acknowledged although they went nowhere
    active,     \* Stats.eventsActive
    skewed,     \* a path ran whose reports do not add up to the events it was given
    connected,  \* netClientWorker.run's flag; FALSE for ever once a clientWorker ended
    host,       \* failoverClient.active
    faults,     \* failures so far
    crashed     \* the process died in a panic

batchVars == <<output, bad, batch, copies, unsure, dropped, gap, repeated, active, skewed, connected, host, faults, crashed>>

BatchIds == 1 .. MaxBatches

Local == {"file", "console", "discard", "otelconsumer"}

\* outputs.Client is no NetworkClient: a clientWorker that never connects.
IsLocal == output \in Local

InitialBatch(layout, b) ==
    IF b <= Len(layout) THEN [events |-> layout[b], state |-> "waiting"]
                        ELSE [events |-> <<>>, state |-> "unused"]

BatchInit ==
    /\ output \in Outputs
    /\ bad \in SUBSET Events
    /\ \E layout \in Layouts : batch = [b \in BatchIds |-> InitialBatch(layout, b)]
    /\ copies = [e \in Events |-> 0] /\ dropped = {}
    /\ unsure = {} /\ repeated = {} /\ gap = {}
    /\ active = 0 /\ skewed = FALSE /\ faults = 0
    /\ connected = IsLocal /\ host = -1
    /\ crashed = FALSE

----------------------------------------------------------------------------
(* The answers of a Publish, as the value of batch afterwards.             *)

\* ACK and Drop: both call done; the difference is what the output reports.
Done(b) == [batch EXCEPT ![b] = [events |-> <<>>, state |-> "done"]]

\* RetryEvents: the given events replace the batch's and the consumer gets it back.
RetryEvents(b, events) == [batch EXCEPT ![b] = [events |-> events, state |-> "waiting"]]

\* Retry and Cancelled: the batch goes back as it is.
Retry(b) == RetryEvents(b, batch[b].events)

CanSplit(events) == Len(events) >= 2

\* SplitRetry: the halves of ttlBatch.events (not of the events sent) go back.
SplitRetry(b, events) ==
    LET half == Len(events) \div 2
        free == CHOOSE c \in BatchIds : batch[c].state = "unused"
    IN [batch EXCEPT ![b] = [events |-> SubSeq(events, 1, half), state |-> "waiting"],
                     ![free] = [events |-> SubSeq(events, half + 1, Len(events)), state |-> "waiting"]]

\* The elements of s at the positions in I, in order.
Pick(s, I) == LET at == SetToSortSeq(I, <) IN [k \in DOMAIN at |-> s[at[k]]]

\* The events a sequence holds more than once.
Doubles(s) == {e \in ToSet(s) : Cardinality({i \in DOMAIN s : s[i] = e}) > 1}

\* The receiver takes the events of a set; two copies stand for more.
Takes(S) == copies' = [e \in Events |-> IF e \in S THEN Min({2, copies[e] + 1}) ELSE copies[e]]

\* The output learns that it did,
Accepts(S) == Takes(S) /\ UNCHANGED unsure

\* or it does not for the events of T.
AcceptsUnseen(S, T) == Takes(S) /\ unsure' = unsure \cup (S \cap T)

\* The observer: NewBatch(n) raises the gauge, every other report lowers it.
Reports(new, others) == active' = active + new - others

----------------------------------------------------------------------------
(* The worker.                                                             *)

Fault == faults < MaxFaults /\ faults' = faults + 1
NoFault == UNCHANGED faults

\* A batch the worker may hand to Publish.
Ready(b) == ~crashed /\ connected /\ batch[b].state = "waiting"

\* failoverClient.Connect: the other host of two, a random other one of more.
\* NewFailoverClient leaves a single client unwrapped (host 0 here).
NextHosts ==
    CASE Hosts = 1 -> {0}
      [] Hosts = 2 /\ host >= 0 -> {1 - host}
      [] OTHER -> (0 .. Hosts - 1) \ {host}

\* backoffClient.Connect: the wait after a failure delays the worker and
\* changes nothing else.
Attempt ==
    \/ connected' = TRUE /\ NoFault
    \/ connected' = FALSE /\ Fault

\* Mutant of Connect: the worker keeps the batch it was given.
ConnectKeeps ==
    /\ ~crashed /\ ~connected /\ ~IsLocal
    /\ \E b \in BatchIds :
          /\ batch[b].state = "waiting"
          /\ batch' = [batch EXCEPT ![b].state = "out"]
    /\ host' \in NextHosts /\ Attempt
    /\ UNCHANGED <<output, bad, copies, unsure, dropped, gap, repeated, active, skewed, crashed>>

\* Without a connection the worker cancels the batch it was given, which
\* leaves it with the consumer, and connects; a failed attempt is repeated.
Connect ==
    /\ ~crashed /\ ~connected /\ ~IsLocal
    /\ \E b \in BatchIds : batch[b].state = "waiting"
    /\ host' \in NextHosts /\ Attempt
    /\ UNCHANGED <<output, bad, batch, copies, unsure, dropped, gap, repeated, active, skewed, crashed>>

----------------------------------------------------------------------------
(* Properties.                                                             *)

OutputTypeOK ==
    /\ output \in Outputs /\ bad \subseteq Events
    /\ \A b \in BatchIds : /\ batch[b].state \in {"unused", "waiting", "out", "done"}
                           /\ ToSet(batch[b].events) \subseteq Events
    /\ copies \in [Events -> 0 .. 2] 
    /\ \A S \in {dropped, unsure, repeated, gap} : S \subseteq Events
    /\ active \in Int /\ faults \in 0 .. MaxFaults
    /\ {skewed, connected, crashed} \subseteq BOOLEAN
    /\ host \in -1 .. Hosts - 1

Held == UNION {ToSet(batch[b].events) : b \in BatchIds}
Accepted == {e \in Events : copies[e] > 0}

\* What outputs.go promises of Client.Publish ("must synchronously or
\* asynchronously ACK the given batch, once all events have been processed"):
\* an event that is in no batch any more was taken by the receiver or reported
\* as dropped.  Four outputs do not keep it (see gap).
EveryEventAnswered == Events = Held \cup Accepted \cup dropped

\* What holds: the only other events are those of a logstash Publish that finds
\* its client closed, of a kafka batch whose errors are all the breaker's, after
\* the first event a redis RPUSH cannot encode, and of a console Flush that
\* fails.  Each of these paths names its events where the failure happens, not
\* where the batch is acknowledged, so no other answer may lose one.
AnsweredUnlessGap == Events = Held \cup Accepted \cup dropped \cup gap

\* The lumberjack encoder fails a whole window for one event that cannot be
\* encoded, and the window is retried: the batch never gets through.
Stuck == output \in {"logstash sync", "logstash async"} /\ bad # {}

\* An output repeats only what it cannot know ("Using Retry/Cancelled a client
\* can return a batch of unprocessed events", outputs.go): an event is taken
\* twice only if a request failed after the receiver took it.  Three paths do
\* not keep it (see repeated).
OnlyUnsureRepeated == \A e \in Events : (copies[e] > 1) => (e \in unsure)

\* What holds, over retries, splits, partial answers and the reuse of the
\* batch's slice: the only other events sent twice are those the logstash sync
\* client had acknowledged when its reconnect fails, and those that a batch holds
\* twice because events were left out of the array it shares with the events
\* sent: a too large elasticsearch batch, a redis pipeline whose Send fails.
SentOnce == \A e \in Events : (copies[e] > 1) => (e \in unsure \cup repeated)

Finished == \A b \in BatchIds : batch[b].state \in {"unused", "done"}

\* The gauge of metrics.go counts the events "that have been sent to the
\* output's Publish call but have not yet been ACKed": it is back at zero
\* whenever no Publish is outstanding, however batches were retried or split.
ActiveGaugeReturns ==
    (\A b \in BatchIds : batch[b].state # "out") => active = 0 \/ skewed \/ crashed

\* Every batch is finished in the end: an answer is never forgotten and a
\* retried batch gets through once the environment stops failing.  A panic,
\* the end of a clientWorker (client_worker.go: run returns when Publish
\* fails) and an event logstash cannot encode are the ways not to.
EveryBatchFinishes == <>(Finished \/ crashed \/ Stuck \/ (IsLocal /\ ~connected))

-----------------------------------------------------------------------------
(***************************************************************************)
(* The elasticsearch output: one Publish is one bulk request, built from   *)
(* the events that were encoded early (event_encoder.go), and answered     *)
(* item by item (client.go).  The request runs on the worker's goroutine,  *)
(* so a Publish is one action; its answers depend on the server.           *)
(***************************************************************************)

VARIABLES
    deadLetterIndex,  \* non_indexable_policy names a dead letter index; frozen
    deadLetter        \* events re-encoded for the dead letter index

esVars == <<deadLetterIndex, deadLetter>>

ESInit == deadLetterIndex \in BOOLEAN /\ deadLetter = {}

\* The statuses a bulk item may have: created, 409 (the server has an event with
\* this id, or with the dimensions of this one in a time series), 429, another
\* 4xx (a hard failure), 5xx.
ItemStatuses == {"created", "conflict", "tooMany", "hard", "server"}

\* encodeRawEvent leaves err in the event when the pipeline, the index or the
\* encoding fails.
encodeRawEvent(e) == e \notin bad

\* Those events are left out of the request.
bulkEncodePublishRequest(data) == SelectSeq(data, encodeRawEvent)

\* okEvents shares the array of the batch's events (data[:0]): after the
\* loop the batch starts with the encoded events and keeps its old tail.
Compacted(data) ==
    LET ok == bulkEncodePublishRequest(data)
    IN [i \in DOMAIN data |-> IF i <= Len(ok) THEN ok[i] ELSE data[i]]

\* The permanent outcomes of applyItemStatus.
Rejected(e, status) == status = "hard" /\ (e \in deadLetter \/ ~deadLetterIndex)

\* applyItemStatus returns true for the items that are to be retried.
applyItemStatus(e, status) ==
    \/ status \in {"tooMany", "server"}
    \/ status = "hard" /\ ~Rejected(e, status)

\* Every encoded event was refused, so the request is not sent.
PublishNothing(b) ==
    /\ bulkEncodePublishRequest(batch[b].events) = <<>>
    /\ batch' = Done(b)
    /\ dropped' = dropped \cup ToSet(batch[b].events)
    /\ Reports(Len(batch[b].events), Len(batch[b].events))
    /\ NoFault
    /\ UNCHANGED <<copies, unsure, repeated, connected, deadLetter>>

\* handleBulkResultError, status 413: the server took nothing.  SplitRetry
\* splits the compacted array; a single event is dropped.
RequestTooLarge(b) ==
    LET data == Compacted(batch[b].events)
        ok == bulkEncodePublishRequest(batch[b].events)
    IN /\ ok # <<>> /\ Fault
       /\ batch' = IF CanSplit(data) THEN SplitRetry(b, data) ELSE Done(b)
       /\ repeated' = repeated \cup Doubles(data)
       /\ dropped' = dropped \cup (ToSet(batch[b].events) \cap bad)
                             \cup (IF CanSplit(data) THEN {} ELSE ToSet(ok))
       /\ Reports(Len(data), (Len(data) - Len(ok)) + Len(ok))
       /\ UNCHANGED <<copies, unsure, connected, deadLetter>>

\* handleBulkResultError with another error (the worker reconnects), and
\* bulkCollectPublishFails for a status other than 200 or a response without
\* items: all events sent are retried, although the server may have indexed
\* any of them.
RequestFails(b) ==
    LET data == batch[b].events
        ok == bulkEncodePublishRequest(data)
    IN /\ ok # <<>> /\ Fault
       /\ \E S \in SUBSET ToSet(ok) : AcceptsUnseen(S, S)
       /\ connected' \in BOOLEAN
       /\ batch' = RetryEvents(b, ok)
       /\ dropped' = dropped \cup (ToSet(data) \cap bad)
       /\ Reports(Len(data), (Len(data) - Len(ok)) + Len(ok))
       /\ UNCHANGED <<repeated, deadLetter>>

\* bulkCollectPublishFails: the items are read in order; the response may be
\* invalid from item cut on, and then the remaining events are retried.
ItemsAnswered(b) ==
    LET data == batch[b].events
        ok == bulkEncodePublishRequest(data)
        n == Len(ok)
    IN /\ ok # <<>>
       /\ \E status \in [1 .. n -> ItemStatuses], cut \in 1 .. n + 1 :
             LET read == 1 .. cut - 1
                 again(i) == i >= cut \/ applyItemStatus(ok[i], status[i])
                 retry == {i \in 1 .. n : again(i)}
                 Of(st) == {ok[i] : i \in {j \in read : status[j] \in st}}
                 rejected == {ok[i] : i \in {j \in read : Rejected(ok[j], status[j])}}
             IN /\ IF cut = n + 1 /\ \A i \in 1 .. n : status[i] \in {"created", "conflict"}
                   THEN NoFault ELSE Fault
                /\ \A i \in cut .. n : status[i] \in {"created", "server"}
                /\ AcceptsUnseen({ok[i] : i \in {j \in 1 .. n : status[j] = "created"}},
                                 {ok[i] : i \in cut .. n})
                /\ dropped' = dropped \cup (ToSet(data) \cap bad) \cup rejected \cup Of({"conflict"})
                /\ deadLetter' = IF deadLetterIndex THEN deadLetter \cup Of({"hard"}) ELSE deadLetter
                /\ batch' = IF retry = {} THEN Done(b)
                            ELSE RetryEvents(b, Pick(ok, retry))
                /\ Reports(Len(data), (Len(data) - n) + Cardinality(retry)
                                      + Cardinality({i \in read : ~again(i)}))
       /\ UNCHANGED <<repeated, connected>>

ESPublish(b) ==
    /\ output = "elasticsearch" /\ Ready(b)
    /\ PublishNothing(b) \/ RequestTooLarge(b) \/ RequestFails(b) \/ ItemsAnswered(b)
    /\ UNCHANGED <<output, bad, gap, skewed, host, crashed, deadLetterIndex>>

ESNext == \E b \in BatchIds : ESPublish(b)

-----------------------------------------------------------------------------
(***************************************************************************)
(* The logstash output: the synchronous client (sync.go), the pipelining   *)
(* one (async.go) and the window both use for the slow start (window.go).  *)
(*                                                                         *)
(* The lumberjack client is external: SyncClient.Send returns the number   *)
(* of events acknowledged; AsyncClient.Send queues the window and calls    *)
(* back once per Send, in order, on one goroutine; after the first failure *)
(* of a connection it is closed: the callbacks of the windows in flight    *)
(* report zero events and an error, later Sends fail;                      *)
(* its Close returns after the callbacks.                                  *)
(***************************************************************************)

CONSTANTS
    StartWindow,  \* defaultStartMaxWindowSize
    MaxWindow     \* bulk_max_size

VARIABLES
    slowStart,  \* slow_start: win is not nil; frozen
    win,        \* the window: its size and the largest one that worked
    pub,        \* the batch whose Publish runs, 0 for none
    rest,       \* Publish's `events`: what it has still to send
    ref,        \* msgRef of every batch (async)
    sends,      \* windows given to the lumberjack client, not called back
    link        \* the async client: "up", "broken", or "closed" when it is nil

logstashVars == <<slowStart, win, pub, rest, ref, sends, link>>

NoRef == [count |-> 0, slice |-> <<>>, err |-> FALSE]
minWindowSize == 1

LogstashInit ==
    /\ slowStart \in BOOLEAN
    /\ win = [size |-> StartWindow, maxOk |-> 0]
    /\ pub = 0 /\ rest = <<>> /\ sends = <<>> /\ link = "up"
    /\ ref = [b \in BatchIds |-> NoRef]

----------------------------------------------------------------------------
(* window.go                                                               *)

AtMost(x, bound) == IF x > bound THEN bound ELSE x

\* math.Ceil(1.5 * x)
OneAndAHalf(x) == (3 * x + 1) \div 2

tryGrowWindow(w, batchSize) ==
    CASE w.size > batchSize -> w
      [] w.size <= batchSize /\ w.maxOk < w.size ->
           [size |-> AtMost(AtMost(OneAndAHalf(w.size), batchSize), MaxWindow), maxOk |-> w.size]
      [] OTHER -> [w EXCEPT !.size = AtMost(OneAndAHalf(w.size), w.maxOk)]

shrinkWindow(w) ==
    LET half == w.size \div 2
    IN [w EXCEPT !.size = IF half < minWindowSize THEN minWindowSize ELSE half]

\* publishWindowed sends at most a window, sendEvents without one everything.
WindowOf(events) == IF slowStart THEN SubSeq(events, 1, AtMost(win.size, Len(events))) ELSE events

\* The lumberjack client encodes the window with makeLogstashEventEncoder; an
\* event that cannot be encoded fails the Send of its whole window.
Encodable(window) == ToSet(window) \cap bad = {}

\* events[n:]
Drop(s, n) == SubSeq(s, n + 1, Len(s))

\* Publish of either client acknowledges an empty batch at once.
PublishEmpty(b) ==
    /\ output \in {"logstash sync", "logstash async"}
    /\ Ready(b) /\ pub = 0 /\ batch[b].events = <<>>
    /\ batch' = Done(b)
    /\ UNCHANGED <<output, bad, copies, unsure, dropped, gap, repeated, active, skewed, connected, host, faults, crashed, logstashVars>>

----------------------------------------------------------------------------
(* sync.go                                                                 *)

SyncPublish(b) ==
    /\ output = "logstash sync" /\ Ready(b) /\ pub = 0 /\ batch[b].events # <<>>
    /\ batch' = [batch EXCEPT ![b].state = "out"]
    /\ pub' = b /\ rest' = batch[b].events
    /\ Reports(Len(batch[b].events), 0)
    /\ UNCHANGED <<output, bad, copies, unsure, dropped, gap, repeated, skewed, connected, host, faults, crashed,
                   slowStart, win, ref, sends, link>>

\* The ticker of the ttl option fires before a window: the client reconnects
\* and starts with a small window again, or gives the whole batch back, the
\* windows acknowledged so far included, without a report of the events left.
SyncReconnect ==
    /\ output = "logstash sync" /\ pub # 0 /\ rest # <<>>
    /\ \/ /\ win' = IF slowStart THEN [win EXCEPT !.size = StartWindow] ELSE win
          /\ NoFault
          /\ UNCHANGED <<batch, repeated, pub, rest, connected, skewed>>
       \/ /\ Fault
          /\ batch' = Retry(pub)
          /\ repeated' = repeated \cup (ToSet(batch[pub].events) \ ToSet(rest))
          /\ pub' = 0 /\ rest' = <<>> /\ connected' = FALSE /\ skewed' = TRUE
          /\ UNCHANGED win
    /\ UNCHANGED <<output, bad, copies, unsure, dropped, gap, active, host, crashed, slowStart, ref, sends, link>>

\* One turn of the loop: the window is sent and acknowledged, or the
\* connection fails after n events of it were acknowledged; the receiver may
\* have taken more than it could acknowledge.
SyncSend ==
    LET window == WindowOf(rest)
    IN /\ output = "logstash sync" /\ pub # 0 /\ rest # <<>>
       /\ \/ /\ Encodable(window) /\ Accepts(ToSet(window)) /\ NoFault
             /\ rest' = Drop(rest, Len(window))
             /\ win' = IF slowStart THEN tryGrowWindow(win, Len(rest)) ELSE win
             /\ Reports(0, Len(window))
             /\ UNCHANGED <<batch, pub, connected>>
          \/ \E n \in 0 .. Len(window) : \E taken \in n .. Len(window) :
             /\ AcceptsUnseen(ToSet(SubSeq(window, 1, taken)), ToSet(Drop(window, n)))
             /\ IF Encodable(window) THEN Fault ELSE NoFault /\ taken = 0
             /\ batch' = RetryEvents(pub, Drop(rest, n))
             /\ win' = IF slowStart THEN shrinkWindow(win) ELSE win
             /\ Reports(0, Len(rest))
             /\ pub' = 0 /\ rest' = <<>> /\ connected' = FALSE
       /\ UNCHANGED <<output, bad, dropped, gap, repeated, skewed, host, crashed, slowStart, ref, sends, link>>

SyncReturn ==
    /\ output = "logstash sync" /\ pub # 0 /\ rest = <<>>
    /\ batch' = Done(pub) /\ pub' = 0
    /\ UNCHANGED <<output, bad, copies, unsure, dropped, gap, repeated, active, skewed, connected, host, faults, crashed,
                   slowStart, win, rest, ref, sends, link>>

----------------------------------------------------------------------------
(* async.go                                                                *)

\* dec of a reference r of batch b, which has lost one count: the last one
\* answers for the batch, with the events no window was acknowledged for.
dec(b, r) ==
    /\ ref' = [ref EXCEPT ![b] = IF r.count = 1 THEN NoRef ELSE [r EXCEPT !.count = @ - 1]]
    /\ batch' = IF r.count > 1 THEN batch
                ELSE IF r.err THEN RetryEvents(b, r.slice) ELSE Done(b)

\* What dec reports as retryable.
decReports(r) == IF r.count = 1 THEN Len(r.slice) ELSE 0

AsyncPublish(b) ==
    /\ output = "logstash async" /\ Ready(b) /\ pub = 0 /\ batch[b].events # <<>>
    /\ batch' = [batch EXCEPT ![b].state = "out"]
    /\ pub' = b /\ rest' = batch[b].events
    /\ ref' = [ref EXCEPT ![b] = [count |-> 1, slice |-> batch[b].events, err |-> FALSE]]
    /\ Reports(Len(batch[b].events), 0)
    /\ UNCHANGED <<output, bad, copies, unsure, dropped, gap, repeated, skewed, connected, host, faults, crashed,
                   slowStart, win, sends, link>>

\* sendEvents with a client: one more callback to wait for.  A failed Send
\* calls back with the error and makes Publish close the client.
AsyncSend ==
    LET window == WindowOf(rest)
    IN /\ output = "logstash async" /\ pub # 0 /\ rest # <<>> /\ link # "closed"
       /\ ref' = [ref EXCEPT ![pub].count = @ + 1]
       /\ \/ /\ Encodable(window) /\ link = "up" /\ NoFault
             /\ sends' = Append(sends, [b |-> pub, window |-> window])
             /\ rest' = Drop(rest, Len(window))
             /\ UNCHANGED <<link, connected>>
          \/ /\ IF Encodable(window) /\ link = "up" THEN Fault ELSE NoFault
             /\ sends' = Append(sends, [b |-> pub, window |-> <<>>])
             /\ rest' = <<>> /\ link' = "closed" /\ connected' = FALSE
       /\ UNCHANGED <<output, bad, batch, copies, unsure, dropped, gap, repeated, active, skewed, host, crashed, slowStart, win, pub>>

\* The loop ends, or sendEvents finds no client, which fails no msgRef: the
\* deferred dec acknowledges the batch when it is the last.
AsyncReturn ==
    /\ output = "logstash async" /\ pub # 0 /\ (rest = <<>> \/ link = "closed")
    /\ connected' = (connected /\ rest = <<>>)
    /\ dec(pub, ref[pub])
    /\ gap' = IF ref[pub].count = 1 /\ ~ref[pub].err THEN gap \cup ToSet(rest) ELSE gap
    /\ Reports(0, decReports(ref[pub]))
    /\ pub' = 0 /\ rest' = <<>>
    /\ UNCHANGED <<output, bad, copies, unsure, dropped, repeated, skewed, host, faults, crashed, slowStart, win, sends, link>>

\* msgRef.callback: done(n) for an acknowledged window; fail(n) when the
\* connection broke after n events (n = 0 for all later windows).
AsyncCallback ==
    LET b == Head(sends).b
        window == Head(sends).window
        r == ref[b]
    IN /\ output = "logstash async" /\ sends # <<>>
       /\ \/ /\ link = "up" /\ NoFault
             /\ Accepts(ToSet(window))
             /\ win' = IF slowStart THEN tryGrowWindow(win, Len(batch[b].events)) ELSE win
             /\ LET acked == [r EXCEPT !.slice = Drop(@, Len(window))]
                IN dec(b, acked) /\ Reports(0, Len(window) + decReports(acked))
             /\ UNCHANGED link
          \/ \E n \in 0 .. Len(window) : \E taken \in n .. Len(window) :
             /\ IF link = "up" THEN Fault ELSE n = 0 /\ NoFault
             /\ AcceptsUnseen(ToSet(SubSeq(window, 1, taken)), ToSet(Drop(window, n)))
             /\ win' = IF slowStart THEN shrinkWindow(win) ELSE win
             /\ LET failed == [r EXCEPT !.slice = Drop(@, n), !.err = TRUE]
                IN dec(b, failed) /\ Reports(0, n + decReports(failed))
             /\ link' = IF link = "up" THEN "broken" ELSE link
       /\ sends' = Tail(sends)
       /\ UNCHANGED <<output, bad, dropped, gap, repeated, skewed, connected, host, crashed, slowStart, pub, rest>>

\* Close of the worker (a reload or the shutdown), at any point of a Publish.
AsyncClose ==
    /\ output = "logstash async" /\ link # "closed" /\ connected /\ Fault
    /\ link' = "closed"
    /\ UNCHANGED <<output, bad, batch, copies, unsure, dropped, gap, repeated, active, skewed, connected, host, crashed,
                   slowStart, win, pub, rest, ref, sends>>

\* Connect makes a new client; Close of the old one has returned.
LogstashConnect ==
    /\ sends = <<>> /\ pub = 0
    /\ Connect
    /\ link' = IF connected' THEN "up" ELSE link
    /\ UNCHANGED <<slowStart, win, pub, rest, ref, sends>>

LogstashNext ==
    \/ \E b \in BatchIds : PublishEmpty(b) \/ SyncPublish(b) \/ AsyncPublish(b)
    \/ SyncReconnect \/ SyncSend \/ SyncReturn
    \/ AsyncSend \/ AsyncReturn \/ AsyncCallback \/ AsyncClose

----------------------------------------------------------------------------

\* The slow start never stops a client (window.go): the window holds at least
\* one event, so every turn of Publish's loop sends something, and it exceeds
\* bulk_max_size only before the first acknowledgement; the largest window
\* that worked is one that was really used.
WindowMoves ==
    /\ win.size >= minWindowSize
    /\ win.size <= (IF win.maxOk = 0 THEN StartWindow ELSE Max({StartWindow, MaxWindow}))
    /\ win.maxOk <= Max({StartWindow, MaxWindow})

-----------------------------------------------------------------------------
(***************************************************************************)
(* The kafka output: Publish puts one message per event into the input of  *)
(* the sarama producer, whose success and error channels are read by two   *)
(* goroutines; a msgRef counts the answers of a batch (kafka/client.go).   *)
(* The producer is external: it answers every message once.                *)
(***************************************************************************)

VARIABLES
    kref,         \* msgRef of every batch, the index of Publish's loop, and the
                  \* events a breaker error came for
    input,        \* messages given to the producer and not answered: <<batch, index>>
    breakerOpen,  \* errorWorker's flag
    asleep,       \* errorWorker waits out the circuit breaker
    closing       \* Close waits for the two workers

kafkaVars == <<kref, input, breakerOpen, asleep, closing>>

NoKRef == [count |-> 0, failed |-> <<>>, err |-> FALSE, next |-> 0, broke |-> {}]

KafkaInit ==
    /\ kref = [b \in BatchIds |-> NoKRef] /\ input = {}
    /\ breakerOpen = FALSE /\ asleep = FALSE /\ closing = FALSE

\* dec of the reference r: the last answer of a batch decides.  Without an
\* error that was recorded the batch is acknowledged, whatever `failed` holds.
kdec(b, r) ==
    /\ kref' = [kref EXCEPT ![b] = [r EXCEPT !.count = @ - 1]]
    /\ batch' = IF r.count > 1 THEN batch
                ELSE IF r.err THEN RetryEvents(b, r.failed) ELSE Done(b)
    /\ gap' = IF r.count = 1 /\ ~r.err THEN gap \cup r.broke ELSE gap

\* What kdec reports: all events of the batch as failed or acknowledged.  The
\* events Publish dropped are part of `total` and were reported already.
kdecReports(b, r) == IF r.count = 1 THEN Len(batch[b].events) ELSE 0

\* getEventMessage: a topic can be selected, the event and its key encoded.
getEventMessage(e) == e \notin bad

KafkaPublish(b) ==
    /\ output = "kafka" /\ Ready(b) /\ batch[b].events # <<>>
    /\ \A c \in BatchIds : kref[c].next = 0
    /\ batch' = [batch EXCEPT ![b].state = "out"]
    /\ kref' = [kref EXCEPT ![b] = [NoKRef EXCEPT !.count = Len(batch[b].events), !.next = 1]]
    /\ Reports(Len(batch[b].events), 0)
    /\ UNCHANGED <<output, bad, copies, unsure, dropped, gap, repeated, skewed, connected, host, faults, crashed,
                   input, breakerOpen, asleep, closing>>

\* One turn of the loop: the event goes to the producer.  Once Close has
\* drained the producer its input is a closed channel, and the send panics.
KafkaSend(b) ==
    /\ output = "kafka" /\ ~crashed /\ kref[b].next > 0
    /\ LET i == kref[b].next
           e == batch[b].events[i]
           r == [kref[b] EXCEPT !.next = IF i = Len(batch[b].events) THEN 0 ELSE i + 1]
       IN \/ /\ getEventMessage(e)
             /\ input' = input \cup {<<b, i>>}
             /\ kref' = [kref EXCEPT ![b] = r]
             /\ UNCHANGED <<batch, gap, dropped, active, skewed, crashed>>
          \/ /\ ~getEventMessage(e)
             /\ dropped' = dropped \cup {e}
             /\ kdec(b, r)
             /\ Reports(0, 1 + kdecReports(b, r))
             /\ skewed' = TRUE
             /\ UNCHANGED <<input, crashed>>
          \/ /\ getEventMessage(e) /\ closing /\ input = {}
             /\ crashed' = TRUE
             /\ UNCHANGED <<batch, gap, dropped, active, skewed, kref, input>>
    /\ UNCHANGED <<output, bad, copies, unsure, repeated, connected, host, faults, breakerOpen, asleep, closing>>

\* successWorker
KafkaSuccess ==
    /\ output = "kafka" /\ ~crashed
    /\ \E m \in input :
          /\ input' = input \ {m}
          /\ Accepts({batch[m[1]].events[m[2]]})
          /\ kdec(m[1], kref[m[1]])
          /\ Reports(0, kdecReports(m[1], kref[m[1]]))
    /\ UNCHANGED <<output, bad, dropped, repeated, skewed, connected, host, faults, crashed,
                   breakerOpen, asleep, closing>>

\* Mutant of failed: no error is recorded, as for the breaker's.
failedUnrecorded(r, e, err) == IF err = "invalid" THEN r ELSE [r EXCEPT !.failed = Append(@, e)]

\* What msgRef.fail makes of an error: an invalid or oversized message is
\* dropped, a breaker error keeps the event without recording an error, any
\* other error keeps both.
failed(r, e, err) ==
    CASE err = "invalid" -> r
      [] err = "breaker" -> [r EXCEPT !.failed = Append(@, e)]
      [] OTHER -> [r EXCEPT !.failed = Append(@, e), !.err = TRUE]

\* errorWorker: fail, and after every other breaker error ten seconds of sleep.
\* A producer that is closing refuses what it is sent (ErrShuttingDown, an error
\* like the broker's).  A broker may have taken the message it fails.
KafkaError ==
    /\ output = "kafka" /\ ~crashed /\ ~asleep
    /\ \E m \in input, err \in {"invalid", "breaker", "broker"} :
          LET e == batch[m[1]].events[m[2]]
              broke == IF err = "breaker" THEN {e} ELSE {}
              r == [failed(kref[m[1]], e, err) EXCEPT !.broke = @ \cup broke]
              drops == IF err = "invalid" THEN 1 ELSE 0
          IN /\ IF closing /\ err = "broker" THEN NoFault ELSE Fault
             /\ input' = input \ {m}
             /\ dropped' = IF err = "invalid" THEN dropped \cup {e} ELSE dropped
             /\ kdec(m[1], r)
             /\ Reports(0, drops + kdecReports(m[1], r))
             /\ skewed' = (skewed \/ err = "invalid")
             /\ breakerOpen' = IF err = "breaker" THEN ~breakerOpen ELSE breakerOpen
             /\ asleep' = (err = "breaker" /\ breakerOpen)
             /\ \E S \in SUBSET {e} : AcceptsUnseen(S, S) /\ (err # "broker" => S = {})
    /\ UNCHANGED <<output, bad, repeated, connected, host, crashed, closing>>

\* The timer, or Close through the done channel.
KafkaWake ==
    /\ output = "kafka" /\ ~crashed /\ asleep
    /\ asleep' = FALSE
    /\ UNCHANGED <<batchVars, kref, input, breakerOpen, closing>>

\* Close of the worker, at any point of a Publish.  A message that is sent
\* before the producer has shut down is answered like the others or refused.
KafkaClose ==
    /\ output = "kafka" /\ ~crashed /\ connected /\ Fault
    /\ closing' = TRUE /\ connected' = FALSE
    /\ UNCHANGED <<output, bad, batch, copies, unsure, dropped, gap, repeated, active, skewed, host, crashed,
                   kref, input, breakerOpen, asleep>>

\* wg.Wait returns: every message is answered and the workers have ended.
KafkaClosed ==
    /\ output = "kafka" /\ ~crashed /\ closing /\ ~asleep
    /\ input = {} /\ \A b \in BatchIds : kref[b].next = 0
    /\ closing' = FALSE /\ breakerOpen' = FALSE
    /\ UNCHANGED <<batchVars, kref, input, asleep>>

KafkaNext ==
    \/ \E b \in BatchIds : KafkaPublish(b) \/ KafkaSend(b)
    \/ KafkaSuccess \/ KafkaError \/ KafkaWake \/ KafkaClose \/ KafkaClosed

\* The counter of a msgRef is the number of events of the batch that are still
\* to be sent or answered (client.go, dec): a batch is answered by its last
\* message and by no earlier one, in whichever goroutine that arrives.
CountIsUnanswered ==
    \A b \in BatchIds :
        (batch[b].state = "out" /\ output = "kafka") =>
            kref[b].count = Cardinality({m \in input : m[1] = b})
                            + (IF kref[b].next = 0 THEN 0 ELSE Len(batch[b].events) - kref[b].next + 1)

-----------------------------------------------------------------------------
(***************************************************************************)
(* The redis output (redis/client.go): one RPUSH with all events, or one   *)
(* pipelined command per event, depending on the key, the data type and    *)
(* the server's version (makePublish).  A Publish runs on the worker's     *)
(* goroutine and is one action; the server's replies are inputs.           *)
(* serializeEvents slices its input by an index that starts at the number  *)
(* of arguments already present, and its callers index by position what it *)
(* returns; the model keeps those indices, out of range included.          *)
(***************************************************************************)

VARIABLES
    bulk,   \* makePublish chose publishEventsBulk; frozen
    badKey  \* events for which no key can be selected (pipeline only); frozen

redisVars == <<bulk, badKey>>

RedisInit ==
    /\ bulk \in BOOLEAN
    /\ badKey \in IF bulk THEN {{}} ELSE SUBSET Events

Drops(s, n) == SubSeq(s, n + 1, Len(s))

Good(s) == SelectSeq(s, LAMBDA e : e \notin bad)

\* The position of the first event that cannot be encoded, 0 for none.
FirstBad(data) ==
    LET P == {k \in DOMAIN data : data[k] \in bad} IN IF P = {} THEN 0 ELSE Min(P)

\* serializeEvents(to, i, data): ok is `succeeded`, sent the serialized events.
\* After a failure at position k the slices are data[:i] and data[i+1:], i
\* being start + k - 1; start is 1 for the bulk command.
serializeEvents(start, data) ==
    LET k == FirstBad(data)
        i == start + k - 1
    IN IF k = 0
       THEN [ok |-> data, sent |-> data, panics |-> FALSE]
       ELSE IF i + 1 > Len(data)
       THEN [ok |-> <<>>, sent |-> <<>>, panics |-> TRUE]
       ELSE [ok |-> SubSeq(data, 1, i),
             sent |-> SubSeq(data, 1, k - 1) \o Good(Drops(data, i + 1)),
             panics |-> FALSE]

\* The end of a Publish: without retry the batch is acknowledged, else `rest` is
\* retried, an empty one as well.
Answer(b, retry, left) == batch' = IF retry THEN RetryEvents(b, left) ELSE Done(b)

\* The events from..to, by their place after the first that cannot be encoded.
AfterFirstBad(data, from, to) ==
    LET k == FirstBad(data)
    IN IF k = 0 THEN {} ELSE {data[j] : j \in {i \in DOMAIN data : i - k \in from .. to}}

BulkPublish(b) ==
    LET data == batch[b].events
        s == serializeEvents(1, data)
        perm == Len(data) - Len(s.ok)
        all == ToSet(data)
    IN /\ bulk
       /\ \/ /\ s.panics /\ crashed' = TRUE /\ NoFault
             /\ UNCHANGED <<batch, copies, unsure, dropped, gap, repeated, active, skewed, connected>>
          \/ /\ ~s.panics /\ s.sent = <<>> /\ NoFault
             /\ Answer(b, FALSE, <<>>)
             /\ gap' = gap \cup (AfterFirstBad(data, 1, 1) \ bad)
             /\ dropped' = dropped \cup (all \cap bad)
             /\ Reports(Len(data), perm) /\ skewed' = (skewed \/ perm # Len(data))
             /\ UNCHANGED <<copies, unsure, repeated, connected, crashed>>
          \/ /\ ~s.panics /\ s.sent # <<>> /\ NoFault
             /\ Accepts(ToSet(s.sent))
             /\ Answer(b, FALSE, <<>>)
             /\ gap' = gap \cup (AfterFirstBad(data, 1, 1) \ bad)
             /\ dropped' = dropped \cup (all \cap bad)
             /\ Reports(Len(data), perm + Len(s.ok))
             /\ UNCHANGED <<repeated, connected, skewed, crashed>>
          \/ /\ ~s.panics /\ s.sent # <<>> /\ Fault
             /\ \E S \in {{}, ToSet(s.sent)} : AcceptsUnseen(S, S)
             /\ Answer(b, TRUE, s.ok)
             /\ gap' = gap \cup (AfterFirstBad(data, 1, Len(data)) \ bad)
             /\ dropped' = dropped \cup ((all \cap bad) \ ToSet(s.ok))
             /\ Reports(Len(data), perm + Len(s.ok))
             /\ connected' = FALSE
             /\ UNCHANGED <<repeated, skewed, crashed>>

\* publishEventsPipeline.  okEvents and data share the batch's array, so after
\* a key failure okEvents starts with the events sent so far.
PipelinePublish(b) ==
    LET data == batch[b].events
        s == serializeEvents(0, data)
        keyed == SelectSeq(s.ok, LAMBDA e : e \notin badKey)
        noKey == ToSet(s.ok) \cap badKey
        all == ToSet(data)
        perm == Len(data) - Len(s.ok)
        nodrop == Len(keyed) = Len(s.ok)
    IN /\ ~bulk
       /\ \/ /\ Len(s.sent) > Len(s.ok) /\ crashed' = TRUE /\ NoFault
             /\ UNCHANGED <<batch, copies, unsure, dropped, gap, repeated, active, skewed, connected>>
          \/ /\ Len(s.sent) <= Len(s.ok) /\ s.sent = <<>> /\ NoFault
             /\ Answer(b, FALSE, <<>>)
             /\ dropped' = dropped \cup all
             /\ Reports(Len(data), perm)
             /\ UNCHANGED <<copies, unsure, gap, repeated, skewed, connected, crashed>>
          \* Send fails for the j-th key: okEvents is returned.
          \/ /\ Len(s.sent) <= Len(s.ok) /\ Fault
             /\ \E j \in DOMAIN keyed :
                   LET array == [i \in DOMAIN s.ok |-> IF i <= j THEN keyed[i] ELSE s.ok[i]]
                   IN /\ Answer(b, TRUE, array)
                      /\ repeated' = repeated \cup Doubles(array)
                      /\ \E n \in 0 .. j - 1 : AcceptsUnseen(ToSet(SubSeq(keyed, 1, n)), ToSet(keyed))
                      /\ dropped' = dropped \cup (all \ ToSet(array))
                      /\ Reports(Len(data), perm + Len(array))
             /\ connected' = FALSE
             /\ UNCHANGED <<gap, skewed, crashed>>
          \* Flush fails, or the replies end at the j-th: data[j:] is retried.
          \* The loop reads one reply per serialized event, so the events that
          \* got no key make it wait for a reply that never comes.
          \/ /\ Len(s.sent) <= Len(s.ok) /\ s.sent # <<>>
             /\ \E j \in 1 .. Len(keyed) + 1, bads \in SUBSET (1 .. Len(keyed)) :
                   LET err == {i \in bads : i < j}
                       left == Pick(keyed, err \cup {i \in DOMAIN keyed : i >= j})
                   IN /\ IF j = Len(keyed) + 1 /\ err = {} THEN NoFault ELSE Fault
                      /\ bads = err
                      /\ Answer(b, TRUE, left)
                      /\ \E n \in j - 1 .. Len(keyed) :
                            AcceptsUnseen({keyed[i] : i \in {k \in 1 .. n : k \notin err}},
                                          {keyed[i] : i \in j .. Len(keyed)})
                      /\ dropped' = dropped \cup (all \ ToSet(keyed))
                      /\ Reports(Len(data), perm + (Len(s.ok) - Len(keyed))
                                            + (Len(s.ok) - Len(left)) + Len(left))
                      /\ skewed' = (skewed \/ ~nodrop)
                      /\ connected' = (j > Len(keyed) /\ nodrop /\ err = {})
             /\ UNCHANGED <<gap, repeated, crashed>>

RedisPublish(b) ==
    /\ output = "redis" /\ Ready(b)
    /\ BulkPublish(b) \/ PipelinePublish(b)
    /\ UNCHANGED <<output, bad, host, bulk, badKey>>

RedisNext == \E b \in BatchIds : RedisPublish(b)

-----------------------------------------------------------------------------
(***************************************************************************)
(* The outputs without a connection: file, console and discard, and the    *)
(* one that hands the events to an OpenTelemetry consumer in the same      *)
(* process.  Each Publish is synchronous and one action.                   *)
(***************************************************************************)

\* The events of S are encoded and not written, which is reported.
Written(b, S) ==
    LET encoded == ToSet(batch[b].events) \ bad
    IN /\ S \subseteq encoded /\ Accepts(encoded \ S)
       /\ dropped' = dropped \cup (ToSet(batch[b].events) \cap bad) \cup S

\* fileOutput.Publish: an event that cannot be encoded or written is dropped
\* and reported, the batch is acknowledged in any case.
FilePublish(b) ==
    /\ output = "file"
    /\ batch' = Done(b)
    /\ Reports(Len(batch[b].events), Len(batch[b].events))
    /\ \/ Written(b, {}) /\ NoFault
       \/ \E S \in SUBSET ToSet(batch[b].events) : Written(b, S) /\ Fault
    /\ UNCHANGED <<gap, skewed, connected>>

\* console.Publish writes into a buffer first, and the error of its Flush is
\* not looked at: those events are reported as published.
ConsolePublish(b) ==
    /\ output = "console"
    /\ batch' = Done(b)
    /\ Reports(Len(batch[b].events), Len(batch[b].events))
    /\ \/ Written(b, {}) /\ NoFault /\ UNCHANGED gap
       \/ \E S \in SUBSET ToSet(batch[b].events) : Written(b, S) /\ Fault /\ UNCHANGED gap
       \/ \E S \in SUBSET (ToSet(batch[b].events) \ bad) :
             /\ Accepts((ToSet(batch[b].events) \ bad) \ S) /\ gap' = gap \cup S
             /\ dropped' = dropped \cup (ToSet(batch[b].events) \cap bad)
             /\ Fault
    /\ UNCHANGED <<skewed, connected>>

DiscardPublish(b) ==
    /\ output = "discard"
    /\ batch' = Done(b)
    /\ Accepts(ToSet(batch[b].events))
    /\ Reports(Len(batch[b].events), Len(batch[b].events))
    /\ UNCHANGED <<dropped, gap, skewed, connected, faults>>

\* otelConsumer.logsPublish.  NewBatch is reported only for a batch that was
\* consumed, the errors of the other ones without it.  A batch that is too
\* large is split and no error; any other error is returned, which ends the
\* clientWorker.
OtelPublish(b) ==
    LET data == batch[b].events
    IN /\ output = "otelconsumer"
       /\ \/ /\ Accepts(ToSet(data)) /\ NoFault
             /\ batch' = Done(b)
             /\ Reports(Len(data), Len(data))
             /\ UNCHANGED <<dropped, skewed, connected>>
          \/ /\ Fault
             /\ batch' = IF CanSplit(data) THEN SplitRetry(b, data) ELSE Done(b)
             /\ dropped' = IF CanSplit(data) THEN dropped ELSE dropped \cup ToSet(data)
             /\ Reports(0, Len(data)) /\ skewed' = TRUE
             /\ UNCHANGED <<copies, unsure, connected>>
          \/ /\ Fault
             /\ \/ batch' = Done(b) /\ dropped' = dropped \cup ToSet(data)
                \/ batch' = Retry(b) /\ UNCHANGED dropped
             /\ Reports(0, Len(data)) /\ skewed' = TRUE
             /\ connected' = FALSE
             /\ UNCHANGED <<copies, unsure>>
       /\ UNCHANGED gap

LocalNext ==
    \E b \in BatchIds :
        /\ Ready(b)
        /\ FilePublish(b) \/ ConsolePublish(b) \/ DiscardPublish(b) \/ OtelPublish(b)
        /\ UNCHANGED <<output, bad, repeated, host, crashed>>

-----------------------------------------------------------------------------
(* The output that is configured.                                          *)

outputVars == <<batchVars, esVars, logstashVars, kafkaVars, redisVars>>

\* The state of an output that is not configured is not looked at.
OutputsInit ==
    /\ BatchInit /\ ESInit /\ LogstashInit /\ KafkaInit /\ RedisInit
    /\ (output # "elasticsearch") => ~deadLetterIndex
    /\ (output \notin {"logstash sync", "logstash async"}) => ~slowStart
    /\ (output # "redis") => bulk
    /\ (output \in {"discard", "otelconsumer"}) => (bad = {})

OutputsNext ==
    \/ ESNext /\ UNCHANGED <<logstashVars, kafkaVars, redisVars>>
    \/ (LogstashNext \/ (~closing /\ LogstashConnect)) /\ UNCHANGED <<esVars, kafkaVars, redisVars>>
    \/ KafkaNext /\ UNCHANGED <<esVars, logstashVars, redisVars>>
    \/ RedisNext /\ UNCHANGED <<esVars, logstashVars, kafkaVars>>
    \/ LocalNext /\ UNCHANGED <<esVars, logstashVars, kafkaVars, redisVars>>

OutputsSpec == OutputsInit /\ [][OutputsNext]_outputVars /\ WF_outputVars(OutputsNext)

\* How the producers' events arrive in the instance that is checked: in one batch or in two.
OneOrTwoBatches == {<< <<1, 2, 3>> >>, << <<1, 2>>, <<3>> >>}

-----------------------------------------------------------------------------
\* Publish answers for every event and sends none twice that it could know of, over
\* failures, retries and splits and but for the paths AnsweredUnlessGap and SentOnce name;
\* its counters add up: the gauge of active events, the slow start window, a msgRef's count
\* (outputs/elasticsearch, logstash, kafka, redis, fileout, console, discard, otelconsumer).
OutputsAccount ==
    /\ OutputTypeOK /\ AnsweredUnlessGap /\ SentOnce /\ ActiveGaugeReturns
    /\ WindowMoves /\ CountIsUnanswered
=============================================================================
