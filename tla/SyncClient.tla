----------------------------- MODULE SyncClient ----------------------------
(***************************************************************************)
(* A client that waits for its events (publisher/pipeline/sync_client.go), *)
(* on the pipeline or on the nil pipeline that discards everything         *)
(* (nilpipeline.go), and the counters of the pipeline (monitoring.go).     *)
(* Publishers share the client; the queue acknowledges events in order,    *)
(* several at a time.  What the listener tracks is TrackingCounter of      *)
(* common/acker, reduced to the order of accepted and dropped events.      *)
(***************************************************************************)
EXTENDS Integers, Sequences, SequencesExt, FiniteSets

CONSTANTS
  Publishers,  \* goroutines that publish and wait
  MaxEvents,   \* events that are published in a behaviour
  MaxBatch     \* events of one PublishAll

VARIABLES
  nilPipe,     \* the pipeline is the nil pipeline, never changes
  budget,      \* events that may still be published
  pc,          \* per publisher: "idle", "publish", "accepted", "wait" or "closing"
  left,        \* per publisher: events of its batch that are still to be published
  holder,      \* the publisher that holds the client's mutex, or NoHolder
  wg,          \* SyncClient.wg
  queue,       \* events in the queue that are not acknowledged
  tracked,     \* events the listener has not reported: "send" or "dropped"
  metrics,     \* counters of metricsObserver
  open,        \* client.isOpen
  refused,     \* events that the queue or the closed client refused
  quiet        \* per publisher: its Wait returned and nobody published since

syncVars == <<nilPipe, budget, pc, left, holder, wg, queue, tracked, metrics, open, refused, quiet>>

NoHolder == "none"
newMetricsObserver == [total |-> 0, active |-> 0, filtered |-> 0, published |-> 0, failed |-> 0]

SyncInit ==
  /\ nilPipe \in BOOLEAN /\ budget = MaxEvents
  /\ pc = [p \in Publishers |-> "idle"] /\ left = [p \in Publishers |-> 0] /\ holder = NoHolder
  /\ wg = 0 /\ queue = 0 /\ tracked = <<>> /\ metrics = newMetricsObserver /\ open = TRUE /\ refused = 0
  /\ quiet = [p \in Publishers |-> FALSE]

Begin(p, n) ==
  /\ pc[p] = "idle" /\ n <= budget /\ budget' = budget - n
  /\ pc' = [pc EXCEPT ![p] = "publish"] /\ left' = [left EXCEPT ![p] = n]
  /\ quiet' = [q \in Publishers |-> FALSE]
  /\ UNCHANGED <<nilPipe, holder, queue, tracked, metrics, open, refused>>

(* Mutant: the events of a batch are counted as one *)
PublishAllOnce(p, n) == Begin(p, n) /\ wg' = wg + 1

(* Publish and PublishAll: the events are counted before they are published *)
PublishAll(p, n) == Begin(p, n) /\ wg' = wg + n

(* The rest of a batch, under the client's mutex *)
Locked(p) == pc[p] = "publish" /\ holder \in {p, NoHolder}
EventDone(p) ==
  /\ left' = [left EXCEPT ![p] = @ - 1]
  /\ pc' = [pc EXCEPT ![p] = IF left[p] = 1 THEN "idle" ELSE "publish"]
  /\ holder' = IF left[p] = 1 THEN NoHolder ELSE p

newEvent(m) == [m EXCEPT !.total = @ + 1, !.active = @ + 1]
failedPublishEvent(m) == [m EXCEPT !.failed = @ + 1, !.active = @ - 1]
filteredEvent(m) == [m EXCEPT !.filtered = @ + 1, !.active = @ - 1]

(* publish of a client that is closed *)
PublishClosed(p) ==
  /\ Locked(p) /\ ~nilPipe /\ ~open
  /\ metrics' = failedPublishEvent(newEvent(metrics)) /\ refused' = refused + 1
  /\ EventDone(p)
  /\ UNCHANGED <<nilPipe, budget, wg, queue, tracked, open, quiet>>

(* The processors drop the event: it is reported at once if nothing is tracked *)
PublishFiltered(p) ==
  /\ Locked(p) /\ ~nilPipe /\ open
  /\ metrics' = filteredEvent(newEvent(metrics))
  /\ IF tracked = <<>> THEN wg' = wg - 1 /\ UNCHANGED tracked
     ELSE tracked' = Append(tracked, "dropped") /\ UNCHANGED wg
  /\ EventDone(p)
  /\ UNCHANGED <<nilPipe, budget, queue, open, refused, quiet>>

(* The listener is told of the event before the queue accepts or refuses it *)
PublishRefused(p) ==
  /\ Locked(p) /\ ~nilPipe /\ open
  /\ metrics' = failedPublishEvent(newEvent(metrics)) /\ refused' = refused + 1
  /\ tracked' = Append(tracked, "send")
  /\ EventDone(p)
  /\ UNCHANGED <<nilPipe, budget, wg, queue, open, quiet>>

(* The queue accepts the event, which may be acknowledged before publish goes on *)
PublishAccepted(p) ==
  /\ Locked(p) /\ ~nilPipe /\ open
  /\ metrics' = newEvent(metrics) /\ tracked' = Append(tracked, "send") /\ queue' = queue + 1
  /\ pc' = [pc EXCEPT ![p] = "accepted"] /\ holder' = p
  /\ UNCHANGED <<nilPipe, budget, left, wg, open, refused, quiet>>

PublishedEvent(p) ==
  /\ pc[p] = "accepted"
  /\ metrics' = [metrics EXCEPT !.published = @ + 1]
  /\ EventDone(p)
  /\ UNCHANGED <<nilPipe, budget, wg, queue, tracked, open, refused, quiet>>

(* PublishAll of the nil client: all events are acknowledged at once *)
PublishNil(p) ==
  /\ pc[p] = "publish" /\ nilPipe
  /\ wg' = wg - left[p]
  /\ pc' = [pc EXCEPT ![p] = "idle"] /\ left' = [left EXCEPT ![p] = 0]
  /\ UNCHANGED <<nilPipe, budget, holder, queue, tracked, metrics, open, refused, quiet>>

(* Events that an acknowledgement of n sent events reports: up to the last of
   them, and the dropped events behind it *)
Sends(s) == Len(SelectSeq(s, LAMBDA x : x = "send"))
Reported(n) ==
  LET ends == {i \in DOMAIN tracked : Sends(SubSeq(tracked, 1, i)) = n} IN CHOOSE i \in ends : \A j \in ends : j <= i

(* The queue acknowledges its n oldest events: eventsACKed, ACKEvents, onACK *)
QueueACK(n) ==
  /\ n \in 1..queue
  /\ tracked' = SubSeq(tracked, Reported(n) + 1, Len(tracked)) /\ wg' = wg - Reported(n)
  /\ queue' = queue - n
  /\ metrics' = [metrics EXCEPT !.active = @ - n]
  /\ UNCHANGED <<nilPipe, budget, pc, left, holder, open, refused, quiet>>

(* Wait and Close *)
StartWait(p, next) ==
  /\ pc[p] = "idle" /\ pc' = [pc EXCEPT ![p] = next]
  /\ UNCHANGED <<nilPipe, budget, left, holder, wg, queue, tracked, metrics, open, refused, quiet>>

WaitReturns(p) ==
  /\ pc[p] \in {"wait", "closing"} /\ wg = 0
  /\ open' = (open /\ pc[p] = "wait")
  /\ pc' = [pc EXCEPT ![p] = "idle"] /\ quiet' = [quiet EXCEPT ![p] = TRUE]
  /\ UNCHANGED <<nilPipe, budget, left, holder, wg, queue, tracked, metrics, refused>>

SyncNext ==
  \/ \E p \in Publishers, n \in 1..MaxBatch : PublishAll(p, n)
  \/ \E p \in Publishers : \/ PublishClosed(p) \/ PublishFiltered(p) \/ PublishRefused(p) \/ PublishAccepted(p)
                           \/ PublishedEvent(p) \/ PublishNil(p) \/ WaitReturns(p)
  \/ \E p \in Publishers, next \in {"wait", "closing"} : StartWait(p, next)
  \/ \E n \in 1..MaxEvents : QueueACK(n)

----------------------------------------------------------------------------
(* The wait group is the number of events that nobody reported: it is never
   negative, which would panic, and when Wait returns every event that was
   published before it is acknowledged or was dropped (sync_client.go). *)
WaitMeansReported ==
  /\ wg >= 0
  /\ \A p \in Publishers : (quiet[p] /\ refused = 0) => queue = 0 /\ tracked = <<>>

(* Whoever waits is woken once the queue acknowledged everything, unless an
   event was refused: with nothing left to do the wait group is empty. *)
NobodyWaitsForNothing ==
  (queue = 0 /\ refused = 0 /\ \A p \in Publishers : pc[p] \in {"idle", "wait", "closing"}) => wg = 0

(* events.active "measures events that have been created, but have not yet
   been failed, filtered, or acked/dropped" (monitoring.go:94-95), also while
   acknowledgements overtake the publisher. *)
ActiveIsInFlight == metrics.active = queue
=============================================================================
