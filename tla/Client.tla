------------------------------- MODULE Client -------------------------------
(***************************************************************************)
(* A pipeline client (publisher/pipeline/client.go) with its listeners:    *)
(* the clientCloseWaiter, and an EventPrivateReporter on a trackingACKer   *)
(* (common/acker), either as they are or wrapped in ConnectionOnly, and    *)
(* the wait group of a SyncClient around it.  Three goroutines meet here:  *)
(* one publishes, one is the queue's acknowledgement loop, one closes.     *)
(*                                                                         *)
(* The queue is external: it accepts events in order, or not, and          *)
(* acknowledges accepted events in order, some at a time.  Under its locks *)
(* each visit of trackingACKer to its list is one step.                    *)
(***************************************************************************)
EXTENDS Integers, Sequences, FiniteSets

CONSTANT MaxEvents   \* bound: events published

ASSUME ClientAssumption == MaxEvents \in Nat

Event == 1..MaxEvents

VARIABLES
  \* the publishing goroutine
  pub, event, pubData,
  \* the acknowledgement loop: what is left to account for, and the totals
  ack, ackCount, ackTotal, ackEmpty, ackData,
  \* the closing goroutine
  closer, isOpen, acceptedAtClose, racing,
  \* clientCloseWaiter
  waiterEvents, closing, signalAll, waiterRoutine, timedOut,
  \* eventDataACKer and trackingACKer; attached is clientOnlyACKer.acker, and
  \* connectionOnly says whether there is a clientOnlyACKer at all
  data, gaps, attached, connectionOnly,
  \* SyncClient
  wg,
  \* the queue and the producer
  inQueue, producerClosed,
  \* history: what became of the events, and the order of reports
  acked, filtered, failed, reported

pubVars == <<pub, event, pubData>>
ackVars == <<ack, ackCount, ackTotal, ackEmpty, ackData>>
closeVars == <<closer, isOpen, acceptedAtClose, racing>>
waiterVars == <<waiterEvents, closing, signalAll, waiterRoutine, timedOut>>
clientOnlyVars == <<attached, connectionOnly>>
listVars == <<data, gaps, clientOnlyVars>>
queueVars == <<inQueue, producerClosed>>
endVars == <<acked, filtered, failed>>
vars == <<pubVars, ackVars, closeVars, waiterVars, listVars, wg, queueVars,
          endVars, reported>>

Gap == [send : Nat, dropped : Nat]

EmptyGap == [send |-> 0, dropped |-> 0]

Init ==
  /\ pub = "idle" /\ event = 0 /\ pubData = <<>>
  /\ ack = "idle" /\ ackCount = 0 /\ ackTotal = 0 /\ ackEmpty = FALSE /\ ackData = <<>>
  /\ closer = "idle" /\ isOpen = TRUE /\ acceptedAtClose = {}
  /\ racing = FALSE
  /\ waiterEvents = 0 /\ closing = FALSE /\ signalAll = FALSE
  /\ waiterRoutine = "none" /\ timedOut = FALSE
  /\ data = <<>> /\ gaps = <<EmptyGap>> /\ attached = TRUE
  /\ connectionOnly \in BOOLEAN
  /\ wg = 0
  /\ inQueue = <<>> /\ producerClosed = FALSE
  /\ acked = {} /\ filtered = {} /\ failed = {}
  /\ reported = <<>>

-----------------------------------------------------------------------------
(* client.publish                                                          *)

\* SyncClient.Publish counts the event; a client that is not open refuses it.
PublishBegin ==
  /\ pub = "idle" /\ event < MaxEvents
  /\ event' = event + 1
  /\ wg' = wg + 1
  /\ IF isOpen
     THEN pub' = "process" /\ UNCHANGED failed
     ELSE pub' = "idle" /\ failed' = failed \cup {event + 1}
  /\ UNCHANGED <<pubData, ackVars, closeVars, waiterVars, listVars, queueVars,
                 acked, filtered, reported>>

\* The processors keep the event or filter it out, and the close waiter, first
\* in the list of listeners, counts it if it was kept.
Process(keep) ==
  /\ pub = "process"
  /\ waiterEvents' = IF keep THEN waiterEvents + 1 ELSE waiterEvents
  /\ filtered' = IF keep THEN filtered ELSE filtered \cup {event}
  /\ pub' = "remember"
  /\ UNCHANGED <<event, pubData, ackVars, closeVars, closing, signalAll,
                 waiterRoutine, timedOut, listVars, wg, queueVars, acked, failed,
                 reported>>

\* What follows AddEvent in publish.
AfterAddEvent == IF event \in filtered THEN "idle" ELSE "push"

\* eventDataACKer.AddEvent, unless ConnectionOnly let go of it.
Remember ==
  /\ pub = "remember"
  /\ IF attached
     THEN data' = Append(data, event) /\ pub' = "track"
     ELSE pub' = AfterAddEvent /\ UNCHANGED data
  /\ UNCHANGED <<event, pubData, ackVars, closeVars, waiterVars, gaps, clientOnlyVars, wg,
                 queueVars, endVars, reported>>

LastGap == gaps[Len(gaps)]

\* addPublishedEvent.
AddPublished ==
  gaps' = IF LastGap.dropped > 0 THEN Append(gaps, [send |-> 1, dropped |-> 0])
          ELSE [gaps EXCEPT ![Len(gaps)].send = @ + 1]

\* Mutant: dropped events are not counted.
AddDroppedNot == gaps' = gaps

\* addDropEvent, when events sent before are not acknowledged yet.
AddDropped == gaps' = [gaps EXCEPT ![Len(gaps)].dropped = @ + 1]

\* Mutant: a dropped event is counted even if nothing was sent before it.
TrackCounts ==
  /\ pub = "track"
  /\ IF event \notin filtered
     THEN AddPublished /\ pub' = "push"
     ELSE AddDropped /\ pub' = "idle"
  /\ UNCHANGED <<event, pubData, ackVars, closeVars, waiterVars, data, clientOnlyVars, wg,
                 queueVars, endVars, reported>>

\* trackingACKer.AddEvent.  A dropped event with nothing before it is reported
\* at once, under the locks of the list.
Track ==
  /\ pub = "track"
  /\ IF event \notin filtered
     THEN AddPublished /\ pub' = "push"
     ELSE IF LastGap.send > 0
          THEN AddDropped /\ pub' = "idle"
          ELSE pub' = "take" /\ UNCHANGED gaps
  /\ UNCHANGED <<event, pubData, ackVars, closeVars, waiterVars, data, clientOnlyVars, wg,
                 queueVars, endVars, reported>>

\* eventDataACKer.onACK(0, 1) on the publishing goroutine: the data is taken
\* under the lock, the callback runs after it.
PublisherTake ==
  /\ pub = "take"
  /\ pubData' = SubSeq(data, 1, 1)
  /\ data' = Tail(data)
  /\ pub' = "report"
  /\ UNCHANGED <<event, ackVars, closeVars, waiterVars, gaps, clientOnlyVars, wg, queueVars,
                 endVars, reported>>

PublisherReport ==
  /\ pub = "report"
  /\ reported' = reported \o pubData
  /\ wg' = wg - Len(pubData)
  /\ pubData' = <<>>
  /\ pub' = "idle"
  /\ UNCHANGED <<event, ackVars, closeVars, waiterVars, listVars, queueVars, endVars>>

\* Publish or TryPublish of the producer accepts the event.  A send that races
\* with the closing of the producer may still succeed.
PushAccepted ==
  /\ pub = "push"
  /\ inQueue' = Append(inQueue, event)
  /\ pub' = "idle"
  /\ UNCHANGED <<event, pubData, ackVars, closeVars, waiterVars, listVars, wg,
                 producerClosed, endVars, reported>>

PushRejected ==
  /\ pub = "push"
  /\ failed' = failed \cup {event}
  /\ pub' = "idle"
  /\ UNCHANGED <<event, pubData, ackVars, closeVars, waiterVars, listVars, wg,
                 queueVars, acked, filtered, reported>>

-----------------------------------------------------------------------------
(* ACKEvents, called by the queue                                          *)

\* clientCloseWaiter.ACKEvents: subtract, and go on to the test of closing if
\* nothing is left.
AckEvents(n) ==
  /\ ack = "idle" /\ n <= Len(inQueue)
  /\ acked' = acked \cup {inQueue[i] : i \in 1..n}
  /\ inQueue' = SubSeq(inQueue, n + 1, Len(inQueue))
  /\ waiterEvents' = waiterEvents - n
  /\ ackCount' = n /\ ackTotal' = 0 /\ ackEmpty' = FALSE
  /\ ack' = IF waiterEvents' = 0 THEN "closing?" ELSE "acker"
  /\ UNCHANGED <<pubVars, ackData, closeVars, closing, signalAll, waiterRoutine,
                 timedOut, listVars, wg, producerClosed, filtered, failed, reported>>

AckTestClosing ==
  /\ ack = "closing?"
  /\ ack' = IF closing THEN "signal" ELSE "acker"
  /\ UNCHANGED <<pubVars, ackCount, ackTotal, ackEmpty, ackData, closeVars, waiterVars,
                 listVars, wg, queueVars, endVars, reported>>

\* The channel has room for one signal.
AckSignal ==
  /\ ack = "signal" /\ ~signalAll
  /\ signalAll' = TRUE
  /\ ack' = "acker"
  /\ UNCHANGED <<pubVars, ackCount, ackTotal, ackEmpty, ackData, closeVars,
                 waiterEvents, closing, waiterRoutine, timedOut, listVars, wg, queueVars,
                 endVars, reported>>

\* clientOnlyACKer.ACKEvents looks for its listener.
AckListener ==
  /\ ack = "acker"
  /\ ack' = IF attached THEN "list" ELSE "idle"
  /\ UNCHANGED <<pubVars, ackCount, ackTotal, ackEmpty, ackData, closeVars, waiterVars,
                 listVars, wg, queueVars, endVars, reported>>

\* Mutant: a partial acknowledgement takes the whole gap.
AckListWhole ==
  /\ ack = "list" /\ ackCount > 0 /\ ~ackEmpty
  /\ pub \notin {"take", "report"}
  /\ LET head == Head(gaps)
     IN IF ackCount < head.send
        THEN /\ gaps' = [gaps EXCEPT ![1].send = @ - ackCount]
             /\ ackTotal' = ackTotal + head.send
             /\ ackCount' = 0
             /\ UNCHANGED ackEmpty
        ELSE /\ gaps' = IF Len(gaps) > 1 THEN Tail(gaps) ELSE <<EmptyGap>>
             /\ ackEmpty' = (Len(gaps) = 1)
             /\ ackTotal' = ackTotal + head.send + head.dropped
             /\ ackCount' = ackCount - head.send
  /\ UNCHANGED <<pubVars, ack, ackData, closeVars, waiterVars, data, clientOnlyVars, wg,
                 queueVars, endVars, reported>>

\* One turn of the loop of trackingACKer.ACKEvents.  The locks are taken by a
\* publisher that reports a dropped event.
AckList ==
  /\ ack = "list" /\ ackCount > 0 /\ ~ackEmpty
  /\ pub \notin {"take", "report"}
  /\ LET head == Head(gaps)
     IN IF ackCount < head.send
        THEN /\ gaps' = [gaps EXCEPT ![1].send = @ - ackCount]
             /\ ackTotal' = ackTotal + ackCount
             /\ ackCount' = 0
             /\ UNCHANGED ackEmpty
        ELSE /\ gaps' = IF Len(gaps) > 1 THEN Tail(gaps) ELSE <<EmptyGap>>
             /\ ackEmpty' = (Len(gaps) = 1)
             /\ ackTotal' = ackTotal + head.send + head.dropped
             /\ ackCount' = ackCount - head.send
  /\ UNCHANGED <<pubVars, ack, ackData, closeVars, waiterVars, data, clientOnlyVars, wg,
                 queueVars, endVars, reported>>

\* eventDataACKer.onACK on the acknowledgement loop.
AckTake ==
  /\ ack = "list" /\ ackCount = 0
  /\ ackTotal <= Len(data)
  /\ ackData' = SubSeq(data, 1, ackTotal)
  /\ data' = SubSeq(data, ackTotal + 1, Len(data))
  /\ ack' = "report"
  /\ UNCHANGED <<pubVars, ackCount, ackTotal, ackEmpty, closeVars, waiterVars, gaps,
                 clientOnlyVars, wg, queueVars, endVars, reported>>

AckReport ==
  /\ ack = "report"
  /\ reported' = reported \o ackData
  /\ wg' = wg - Len(ackData)
  /\ ackData' = <<>>
  /\ ack' = "idle"
  /\ UNCHANGED <<pubVars, ackCount, ackTotal, ackEmpty, closeVars, waiterVars, listVars,
                 queueVars, endVars>>

-----------------------------------------------------------------------------
(* client.Close                                                            *)

Accepted == acked \cup {inQueue[i] : i \in 1..Len(inQueue)}

CloseBegin ==
  /\ closer = "idle"
  /\ isOpen' = FALSE
  /\ acceptedAtClose' = Accepted
  /\ closer' = "signal"
  /\ UNCHANGED <<pubVars, ackVars, racing, waiterVars, listVars, wg, queueVars, endVars, reported>>

\* signalClose.  racing records whether the acknowledgement loop is between its
\* subtraction and its signal.
SignalClose ==
  /\ closer = "signal"
  /\ closing' = TRUE
  /\ racing' = (ack \in {"closing?", "signal"})
  /\ closer' = "load"
  /\ UNCHANGED <<pubVars, ackVars, isOpen, acceptedAtClose, waiterEvents, signalAll,
                 waiterRoutine, timedOut, listVars, wg, queueVars, endVars, reported>>

\* Mutant: the events still in the queue are not looked at.
LoadEventsNot ==
  /\ closer = "load"
  /\ waiterRoutine' = "done"
  /\ closer' = "wait"
  /\ UNCHANGED <<pubVars, ackVars, isOpen, acceptedAtClose, racing, waiterEvents, closing,
                 signalAll, timedOut, listVars, wg, queueVars, endVars, reported>>

LoadEvents ==
  /\ closer = "load"
  /\ waiterRoutine' = IF waiterEvents = 0 THEN "done" ELSE "select"
  /\ closer' = "wait"
  /\ UNCHANGED <<pubVars, ackVars, isOpen, acceptedAtClose, racing, waiterEvents, closing,
                 signalAll, timedOut, listVars, wg, queueVars, endVars, reported>>

WaiterSignalled ==
  /\ waiterRoutine = "select" /\ signalAll
  /\ signalAll' = FALSE
  /\ waiterRoutine' = "done"
  /\ UNCHANGED <<pubVars, ackVars, closeVars, waiterEvents, closing, timedOut, listVars,
                 wg, queueVars, endVars, reported>>

\* Mutant: the time-out is only noticed with a signal.
WaiterTimeoutSignalled ==
  /\ waiterRoutine = "select" /\ signalAll
  /\ waiterRoutine' = "done"
  /\ timedOut' = TRUE
  /\ UNCHANGED <<pubVars, ackVars, closeVars, waiterEvents, closing, signalAll, listVars,
                 wg, queueVars, endVars, reported>>

WaiterTimeout ==
  /\ waiterRoutine = "select"
  /\ waiterRoutine' = "done"
  /\ timedOut' = TRUE
  /\ UNCHANGED <<pubVars, ackVars, closeVars, waiterEvents, closing, signalAll, listVars,
                 wg, queueVars, endVars, reported>>

\* wait returns, and the listeners are told; ConnectionOnly lets go of its own.
CloseListener ==
  /\ closer = "wait" /\ waiterRoutine = "done"
  /\ attached' = (attached /\ ~connectionOnly)
  /\ closer' = "producer"
  /\ UNCHANGED <<pubVars, ackVars, isOpen, acceptedAtClose, racing, waiterVars, data, gaps,
                 connectionOnly, wg,                  queueVars, endVars, reported>>

CloseProducer ==
  /\ closer = "producer"
  /\ producerClosed' = TRUE
  /\ closer' = "closed"
  /\ UNCHANGED <<pubVars, ackVars, isOpen, acceptedAtClose, racing, waiterVars, listVars, wg,
                 inQueue, endVars, reported>>

-----------------------------------------------------------------------------
Publisher ==
  \/ PublishBegin \/ (\E keep \in BOOLEAN : Process(keep))
  \/ Remember \/ Track \/ PublisherTake \/ PublisherReport
  \/ PushAccepted \/ PushRejected

AckLoop ==
  \/ \E n \in 1..MaxEvents : AckEvents(n)
  \/ AckTestClosing \/ AckSignal \/ AckListener \/ AckList
  \/ AckTake \/ AckReport

Closer ==
  \/ CloseBegin \/ SignalClose \/ LoadEvents \/ CloseListener \/ CloseProducer

Waiter == WaiterSignalled \/ WaiterTimeout

Next == Publisher \/ AckLoop \/ Closer \/ Waiter

Spec == Init /\ [][Next]_vars

\* A call of Publish goes on, the queue acknowledges what it accepted and its
\* loop goes on, a close that was begun goes on, the timer fires.  Nobody has
\* to publish or to close.
Fairness ==
  /\ WF_vars(Publisher /\ pub # "idle") /\ WF_vars(AckLoop)
  /\ WF_vars(Closer /\ closer # "idle") /\ WF_vars(Waiter)

LiveSpec == Spec /\ Fairness

-----------------------------------------------------------------------------
(* Properties                                                              *)

\* Every variable has its type.
TypeOK ==
  /\ pub \in {"idle", "process", "remember", "track", "take", "report", "push"}
  /\ event \in 0..MaxEvents
  /\ ack \in {"idle", "closing?", "signal", "acker", "list", "report"}
  /\ ackCount \in Nat /\ ackTotal \in Nat /\ ackEmpty \in BOOLEAN
  /\ {pubData, ackData, data, inQueue, reported} \subseteq Seq(Event)
  /\ closer \in {"idle", "signal", "load", "wait", "producer", "closed"}
  /\ waiterRoutine \in {"none", "select", "done"}
  /\ {isOpen, closing, signalAll, timedOut, attached, connectionOnly, racing,
      producerClosed} \subseteq BOOLEAN
  /\ waiterEvents \in Nat /\ wg \in Nat
  /\ gaps \in Seq(Gap) /\ gaps # <<>>
  /\ {acceptedAtClose, acked, filtered, failed} \subseteq SUBSET Event

\* trackingACKer never panics ("too many events acked", "gap list expected to be
\* empty", a slice out of range): whatever the order of additions, drops and
\* acknowledgements, the list covers every acknowledgement, a gap without sends
\* is the only one, and there is data for every total.
NoPanic ==
  /\ TypeOK
  /\ ack = "list" => /\ ackCount > 0 => ~ackEmpty
                     /\ ackCount = 0 => ackTotal <= Len(data)
  /\ \A i \in 1..Len(gaps) : gaps[i].send = 0 => Len(gaps) = 1
  /\ pub = "take" => data # <<>>

\* The input is told of an event only when it is finished, that is
\* acknowledged, filtered out or rejected, and only once.
ReportedIsFinished ==
  LET told == reported \o pubData \o ackData
  IN \A i \in 1..Len(told) :
       /\ told[i] \in acked \cup filtered \cup failed
       /\ \A j \in 1..Len(told) : told[i] = told[j] => i = j

\* A Close that did not run into its time-out returns only after every event
\* accepted before it was called is acknowledged, unless the acknowledgement
\* loop had just brought the counter to zero when the close began to wait.
CloseWaitsIfQuiet ==
  (closer \in {"producer", "closed"} /\ ~timedOut /\ ~racing)
    => acceptedAtClose \subseteq acked

\* Counting: "The ACKer keeps track of dropped events as well, and adjusts the
\* ACK from the outputs accordingly."  While the client is open, an event that
\* was acknowledged or filtered out is eventually reported to the input.
EveryEventReported ==
  [](closer = "idle") =>
    \A e \in Event :
      e \in acked \cup filtered ~> \E i \in 1..Len(reported) : reported[i] = e

\* The same, as long as the queue rejects no event.
ReportedUnlessRejected ==
  [](closer = "idle" /\ failed = {}) =>
    \A e \in Event :
      e \in acked \cup filtered ~> \E i \in 1..Len(reported) : reported[i] = e

\* SyncClient.Wait returns: the events published so far are all reported, if
\* the client is open, publishes no more and the queue rejected none.
WaitReturns ==
  [](closer = "idle" /\ failed = {}) /\ <>[](pub = "idle") => <>[](wg = 0)

\* Close returns, and so does SyncClient.Wait.
CallsReturn == WaitReturns /\ (closer # "idle" ~> closer = "closed")

\* clientCloseWaiter: "send done signal, if close is waiting".  ACKEvents
\* returns: the acknowledgement loop of the queue is never stopped by a client
\* that closes.
ACKReturns == ack # "idle" ~> ack = "idle"

=============================================================================
