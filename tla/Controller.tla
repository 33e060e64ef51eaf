----------------------------- MODULE Controller -----------------------------
(***************************************************************************)
(* The output controller, publisher/pipeline/controller.go, and the calls  *)
(* of pipeline.go that reach it: clients connect before and after there is *)
(* a queue, outputs are set and reloaded, the pipeline is closed.          *)
(*                                                                         *)
(* Set and WaitClose run on goroutines of their own; what one of them does *)
(* between two points where another can get in is one step.                *)
(***************************************************************************)
EXTENDS Naturals, Sequences, FiniteSets

CONSTANTS
  Clients,
  MaxSets,    \* bound: calls of Set
  NoQueue

VARIABLES
  queue, queueClosed,   \* the factory the queue was made by
  lock,                 \* who holds queueLock: "free", "set", "close"
  pendingRequests,      \* the clients of producerRequests, oldest first
  client,               \* new, waiting, connected, refused
  setter, closer,       \* where Set and WaitClose are
  sets, replies,        \* calls of Set so far; replies the holder of the lock sent
  target, workers,      \* consumerTarget, the clients of the output group at work
  consumerClosed,
  late                  \* history: clients that asked after closeQueue had answered

controllerVars ==
  <<queue, queueClosed, lock, pendingRequests, client, setter, closer, sets, replies,
    target, workers, consumerClosed, late>>

ControllerInit ==
  /\ queue = NoQueue /\ queueClosed = FALSE /\ lock = "free"
  /\ pendingRequests = <<>> /\ client = [c \in Clients |-> "new"]
  /\ setter = [pc |-> "idle", clients |-> 0] /\ closer = "idle"
  /\ sets = 0 /\ replies = 0
  /\ target = [queue |-> NoQueue, open |-> FALSE] /\ workers = 0
  /\ consumerClosed = FALSE /\ late = {}

-----------------------------------------------------------------------------
(* ConnectWith and queueProducer                                           *)

Connect(c) ==
  /\ client[c] = "new" /\ lock = "free"
  /\ IF queue # NoQueue
     THEN client' = [client EXCEPT ![c] = "connected"] /\ UNCHANGED <<pendingRequests, late>>
     ELSE /\ client' = [client EXCEPT ![c] = "waiting"]
          /\ pendingRequests' = Append(pendingRequests, c)
          /\ late' = IF closer \in {"idle", "lock"} THEN late ELSE late \cup {c}
  /\ UNCHANGED <<queue, queueClosed, lock, setter, closer, sets, replies, target, workers,
                 consumerClosed>>

-----------------------------------------------------------------------------
(* Set, called by New and by Reload once it has an output                  *)

\* createQueueIfNeeded does nothing without clients, or when there is a queue.  The
\* output's factory, else the controller's, makes the queue, and if it fails the
\* memory queue does.
SetBegins(clients) ==
  /\ setter.pc = "idle" /\ sets < MaxSets /\ sets' = sets + 1
  /\ setter' = [pc |-> IF clients = 0 THEN "pause" ELSE "create", clients |-> clients]
  /\ UNCHANGED <<queue, queueClosed, lock, pendingRequests, client, closer, replies, target,
                 workers, consumerClosed, late>>

CreateQueueIfNeeded ==
  /\ setter.pc = "create" /\ lock = "free"
  /\ IF queue # NoQueue
     THEN setter' = [setter EXCEPT !.pc = "pause"] /\ UNCHANGED <<queue, lock, replies>>
     ELSE /\ queue' \in {"output factory", "queue factory", "memory queue"}
          /\ lock' = "set" /\ replies' = 0
          /\ setter' = [setter EXCEPT !.pc = "reply"]
  /\ UNCHANGED <<queueClosed, pendingRequests, client, closer, sets, target, workers,
                 consumerClosed, late>>

\* Each client gets a producer of the new queue, on a channel without a buffer: a
\* client that does not wait any more blocks the reply.
AnswerPending ==
  /\ setter.pc = "reply"
  /\ IF replies = Len(pendingRequests)
     THEN /\ pendingRequests' = <<>> /\ lock' = "free"
          /\ setter' = [setter EXCEPT !.pc = "pause"]
          /\ UNCHANGED <<client, replies>>
     ELSE /\ client[pendingRequests[replies + 1]] = "waiting"
          /\ client' = [client EXCEPT ![pendingRequests[replies + 1]] = "connected"]
          /\ replies' = replies + 1
          /\ UNCHANGED <<pendingRequests, lock, setter>>
  /\ UNCHANGED <<queue, queueClosed, closer, sets, target, workers, consumerClosed, late>>

\* setTarget has no effect once the consumer is closed.
PauseConsumer ==
  /\ setter.pc = "pause" /\ setter' = [setter EXCEPT !.pc = "workers"]
  /\ target' = IF consumerClosed THEN target ELSE [queue |-> NoQueue, open |-> FALSE]
  /\ UNCHANGED <<queue, queueClosed, lock, pendingRequests, client, closer, sets, replies,
                 workers, consumerClosed, late>>

\* The old workers are closed and new ones are made.
ReplaceWorkers ==
  /\ setter.pc = "workers" /\ setter' = [setter EXCEPT !.pc = "resume"]
  /\ workers' = setter.clients
  /\ UNCHANGED <<queue, queueClosed, lock, pendingRequests, client, closer, sets, replies,
                 target, consumerClosed, late>>

ResumeConsumer ==
  /\ setter.pc = "resume" /\ setter' = [setter EXCEPT !.pc = "idle"]
  /\ target' = IF consumerClosed THEN target ELSE [queue |-> queue, open |-> setter.clients > 0]
  /\ UNCHANGED <<queue, queueClosed, lock, pendingRequests, client, closer, sets, replies,
                 workers, consumerClosed, late>>

-----------------------------------------------------------------------------
(* WaitClose                                                               *)

Close ==
  /\ closer = "idle" /\ closer' = "lock"
  /\ UNCHANGED <<queue, queueClosed, lock, pendingRequests, client, setter, sets, replies,
                 target, workers, consumerClosed, late>>

\* closeQueue: the queue is closed under the lock.
CloseQueue ==
  /\ closer = "lock" /\ lock = "free" /\ lock' = "close"
  /\ queueClosed' = (queue # NoQueue) /\ replies' = 0
  /\ closer' = IF queue # NoQueue THEN "drain" ELSE "refuse"
  /\ UNCHANGED <<queue, pendingRequests, client, setter, sets, target, workers,
                 consumerClosed, late>>

\* Still under the lock, it waits until the queue is empty or the time is up.
Drained ==
  /\ closer = "drain" /\ closer' = "refuse"
  /\ UNCHANGED <<queue, queueClosed, lock, pendingRequests, client, setter, sets, replies,
                 target, workers, consumerClosed, late>>

\* Mutant: with a queue there is nobody to refuse, without one nobody is refused.
RefusePendingNone ==
  /\ closer = "refuse" /\ closer' = "consumer" /\ lock' = "free"
  /\ UNCHANGED <<queue, queueClosed, pendingRequests, client, setter, sets, replies, target,
                 workers, consumerClosed, late>>

\* Clients that still wait get no producer.  Their requests stay in the list.
RefusePending ==
  /\ closer = "refuse"
  /\ IF replies = Len(pendingRequests)
     THEN closer' = "consumer" /\ lock' = "free" /\ UNCHANGED <<client, replies>>
     ELSE /\ client[pendingRequests[replies + 1]] = "waiting"
          /\ client' = [client EXCEPT ![pendingRequests[replies + 1]] = "refused"]
          /\ replies' = replies + 1
          /\ UNCHANGED <<closer, lock>>
  /\ UNCHANGED <<queue, queueClosed, pendingRequests, setter, sets, target, workers,
                 consumerClosed, late>>

CloseConsumer ==
  /\ closer = "consumer" /\ closer' = "workers"
  /\ consumerClosed' = TRUE /\ target' = [target EXCEPT !.open = FALSE]
  /\ UNCHANGED <<queue, queueClosed, lock, pendingRequests, client, setter, sets, replies,
                 workers, late>>

CloseWorkers ==
  /\ closer = "workers" /\ closer' = "done"
  /\ workers' = 0
  /\ UNCHANGED <<queue, queueClosed, lock, pendingRequests, client, setter, sets, replies,
                 target, consumerClosed, late>>

-----------------------------------------------------------------------------

SetStep ==
  CreateQueueIfNeeded \/ AnswerPending \/ PauseConsumer \/ ReplaceWorkers \/ ResumeConsumer

CloseStep == CloseQueue \/ Drained \/ RefusePending \/ CloseConsumer \/ CloseWorkers

ControllerNext ==
  \/ \E c \in Clients : Connect(c)
  \/ \E clients \in 0..1 : SetBegins(clients)
  \/ SetStep \/ Close \/ CloseStep

ControllerFairness ==
  WF_controllerVars(SetStep) /\ WF_controllerVars(CloseStep)

-----------------------------------------------------------------------------

ControllerTypeOK ==
  /\ queue \in {NoQueue, "output factory", "queue factory", "memory queue"}
  /\ lock \in {"free", "set", "close"}
  /\ pendingRequests \in Seq(Clients)
  /\ client \in [Clients -> {"new", "waiting", "connected", "refused"}]
  /\ setter.pc \in {"idle", "create", "reply", "pause", "workers", "resume"}
  /\ closer \in {"idle", "lock", "drain", "refuse", "consumer", "workers", "done"}
  /\ replies \in 0..Cardinality(Clients) /\ sets \in 0..MaxSets
  /\ workers \in 0..1 /\ late \subseteq Clients
  /\ {queueClosed, consumerClosed, target.open} \subseteq BOOLEAN

\* "At that time, any prior calls to outputController.queueProducer from incoming
\* pipeline connections will be unblocked": once there is a queue, and nobody is
\* busy with it, no client waits for a producer; unless it came after the shutdown.
NobodyWaitsForTheQueue ==
  queue # NoQueue /\ lock = "free" => \A c \in Clients : client[c] = "waiting" => c \in late

\* The consumer reads from the queue the producers write to, for as long as there
\* is one, and only when there are clients to send to.
ConsumerReadsTheQueue ==
  target.open => target.queue = queue /\ queue # NoQueue
                 /\ (setter.pc \notin {"workers", "resume"} /\ closer # "done" => workers > 0)

\* The queue is made once, and a client that is refused is refused because no
\* output was ever set before the shutdown.
QueueMadeOnce ==
  [][/\ queue # NoQueue => queue' = queue
     /\ \A c \in Clients : client'[c] = "refused" /\ client[c] # "refused" => queue = NoQueue
    ]_controllerVars

\* A client that waits is answered when there is a queue or the pipeline closes,
\* unless it came after the shutdown.
Unanswered ==
  \E c \in Clients \ late : client[c] = "waiting" /\ (queue # NoQueue \/ closer # "idle")
ConnectIsAnswered == Unanswered ~> ~Unanswered

\* WaitClose returns, whatever Set is doing.
WaitCloseEnds == closer = "lock" ~> closer = "done"
=============================================================================
