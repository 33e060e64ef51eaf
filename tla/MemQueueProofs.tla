--------------------------- MODULE MemQueueProofs ---------------------------
EXTENDS MemQueue, DataLemmas

\* The time given to each prover.
USE ZenonT(5), SMTT(20)

-----------------------------------------------------------------------------
(* The inductive invariant                                                 *)

End(b) == b.first + b.count

\* Batches vended and not yet collected by ackLoop, oldest first.
Outstanding == pendingBatches \o consumedBatches

\* The outstanding batches cut the positions lo..hi into adjacent pieces.
Chain(Q, lo, hi) ==
  /\ Q = <<>> => lo = hi
  /\ Q # <<>> => Q[1].first = lo /\ End(Q[Len(Q)]) = hi
  /\ \A i \in 1..Len(Q) : lo <= Q[i].first /\ End(Q[i]) <= hi
  /\ \A i, j \in 1..Len(Q) : i < j => End(Q[i]) <= Q[j].first
  /\ \A i \in 1..(Len(Q) - 1) : Q[i + 1].first = End(Q[i])

\* A batch starts in the slot of its first event.
SameSlot(b) == b.start % Events = b.first % Events

\* The counters of runLoop describe a window of the log.
WindowInv ==
  /\ Len(log) = released + eventCount
  /\ bufPos = released % Events
  /\ released + ackedCount <= Len(copied)
  /\ ackPC \in {"select", "callbacks"} <=> ackedCount = 0

\* The batches and the reader.
ChainInv == Chain(Outstanding, released + ackedCount, released + consumedCount)

SlotInv == \A i \in 1..Len(Outstanding) : SameSlot(Outstanding[i])

AckedBatchInv ==
  \A b \in ackedBatches :
    SameSlot(b) /\ released <= b.first /\ End(b) <= released + ackedCount

HolderInv ==
  /\ held \cap doneChan = {}
  /\ \A b \in held \cup doneChan :
       /\ End(b) <= Len(copied)
       /\ \E i \in 1..Len(Outstanding) : b = Outstanding[i]

ReaderInv ==
  /\ pendingGet # 0 => /\ reader = "waiting" /\ response = NoBatch
                       /\ consumedCount < eventCount
  /\ response # NoBatch => /\ reader = "waiting"
                           /\ Outstanding # <<>>
                           /\ response = Outstanding[Len(Outstanding)]
                           /\ Len(copied) = response.first
  /\ response = NoBatch => Len(copied) = released + consumedCount

BatchInv == ChainInv /\ SlotInv /\ AckedBatchInv /\ HolderInv /\ ReaderInv

\* Every position being acknowledged lies in a collected batch.
CollectedInv ==
  ackPC = "collect" =>
    \A k \in Nat :
      released <= k /\ k < released + ackedCount =>
        \E b \in ackedBatches : b.first <= k /\ k < End(b)
CollectedOnly == ackPC # "collect" => ackedBatches = {}

\* The ring: events not yet copied, and the producers not yet notified.
RingInv ==
  \A k \in Len(copied)..(Len(log) - 1) : buf[k % Events].event = log[k + 1]

Notified == released + (IF ackPC = "delete" THEN ackedCount ELSE 0)

NotifyInv ==
  \A k \in Notified..(Len(log) - 1) :
    /\ buf[k % Events].producer =
         IF log[k + 1].from \in AckProducers THEN log[k + 1].from ELSE NoProducer
    /\ log[k + 1].from \in AckProducers =>
         buf[k % Events].producerID = log[k + 1].n

\* What lastACK and the callbacks say of the log.
AckInv ==
  /\ \A k \in 1..Notified :
       log[k].from \in AckProducers => log[k].n <= lastACK[log[k].from]
  /\ \A k \in (Notified + 1)..Len(log) :
       log[k].from \in AckProducers => log[k].n > lastACK[log[k].from]
  /\ \A k \in (released + 1)..Len(log) :
       log[k].from \in AckProducers => log[k].n > acked[log[k].from]
  /\ \A p \in AckProducers : acked[p] + callbacks[p] = lastACK[p]
  /\ \A p \in AckProducers :
       \/ lastACK[p] = 0
       \/ \E k \in 1..Len(log) : log[k] = [from |-> p, n |-> lastACK[p]]
  /\ ackPC \in {"select", "collect"} => \A p \in AckProducers : callbacks[p] = 0

\* Requests in pushChan while they can still be inserted.
PushInv ==
  ~closing =>
    /\ \A i \in 1..Len(pushChan) :
         LET p == pushChan[i].event.from IN
         /\ pc[p] = "waiting" /\ p \notin resp
         /\ pushChan[i] = PushRequest(p)
         /\ p \in eventsOpen
    /\ \A i, j \in 1..Len(pushChan) :
         pushChan[i].event.from = pushChan[j].event.from => i = j

\* The events of each producer in the log.
LogBound ==
  \A k \in 1..Len(log) :
    LET p == log[k].from IN
    /\ log[k].n <= producedCount[p] + 1
    /\ (p \in eventsOpen /\ ~(pc[p] = "waiting" /\ p \in resp)) =>
         log[k].n <= producedCount[p]

AnsweredIsLogged ==
  \A p \in Producers :
    (pc[p] = "waiting" /\ p \in resp) =>
      \E k \in 1..Len(log) : log[k] = [from |-> p, n |-> producedCount[p] + 1]

ProducedIsLogged ==
  \A p \in Producers : \A n \in 1..producedCount[p] :
    \E k \in 1..Len(log) : log[k] = [from |-> p, n |-> n]

ProducedBound ==
  \A p \in Producers :
    /\ producedCount[p] <= MaxPublish
    /\ pc[p] # "idle" => producedCount[p] < MaxPublish

ProducerInv ==
  LogBound /\ AnsweredIsLogged /\ ProducedIsLogged /\ ProducedBound

CloseInv == ctxDone => closing

IInv ==
  /\ TypeOK /\ WindowInv /\ BatchInv /\ CollectedInv /\ CollectedOnly
  /\ RingInv /\ NotifyInv /\ AckInv /\ PushInv /\ ProducerInv
  /\ ProducerOrder /\ CopiedInOrder /\ CloseInv

-----------------------------------------------------------------------------
(* Preservation: the initial state and the producers' steps                *)

\* The empty queue satisfies the invariant.
LEMMA InitInv == Init => IInv
<1>. SUFFICES ASSUME Init PROVE IInv
  OBVIOUS
<1>. USE MemQueueAssumption
<1>1. TypeOK
  <2>1. buf \in [Slot -> Entry]
    BY DEF Init, Slot, Entry, EmptyEntry
  <2>2. bufPos \in Slot /\ eventCount \in 0..Events
        /\ consumedCount \in 0..eventCount /\ pendingGet \in 0..Events
    BY DEF Init, Slot
  <2>. QED  BY <2>1, <2>2 DEF Init, TypeOK
<1>2. Outstanding = <<>> /\ Len(Outstanding) = 0
  BY DEF Init, Outstanding
<1>3. WindowInv
  BY DEF Init, WindowInv
<1>4. BatchInv
  BY <1>2 DEF Init, BatchInv, ChainInv, SlotInv, AckedBatchInv, HolderInv, ReaderInv,
              Chain
<1>5. CollectedInv /\ CollectedOnly
  BY DEF Init, CollectedInv, CollectedOnly
<1>6. RingInv /\ NotifyInv /\ AckInv
  BY DEF Init, RingInv, NotifyInv, AckInv, Notified
<1>7. PushInv /\ ProducerInv /\ ProducerOrder /\ CopiedInOrder /\ CloseInv
  BY DEF Init, PushInv, ProducerInv, LogBound, AnsweredIsLogged,
         ProducedIsLogged, ProducedBound, ProducerOrder, CopiedInOrder, CloseInv
<1>. QED  BY <1>1, <1>3, <1>4, <1>5, <1>6, <1>7 DEF IInv

\* The part of the invariant that does not read the producers' state.
QueueInv ==
  /\ WindowInv /\ BatchInv /\ CollectedInv /\ CollectedOnly
  /\ RingInv /\ NotifyInv /\ AckInv
  /\ ProducerOrder /\ CopiedInOrder /\ CloseInv

\* A step that leaves runLoop, the reader, ackLoop and the history alone
\* leaves that part alone.
LEMMA QueueFrame ==
  ASSUME QueueInv, UNCHANGED <<runVars, readVars, ackVars, histVars>>
  PROVE  QueueInv'
<1>. USE DEF runVars, readVars, ackVars, histVars
<1>1. WindowInv'
  BY DEF QueueInv, WindowInv
<1>2. BatchInv'
  BY DEF QueueInv, BatchInv, ChainInv, SlotInv, AckedBatchInv, HolderInv, ReaderInv,
         Outstanding, Chain, SameSlot, End
<1>3. CollectedInv' /\ CollectedOnly'
  BY DEF QueueInv, CollectedInv, CollectedOnly, End
<1>4. RingInv' /\ NotifyInv' /\ AckInv'
  BY DEF QueueInv, RingInv, NotifyInv, AckInv, Notified
<1>5. ProducerOrder' /\ CopiedInOrder' /\ CloseInv'
  BY DEF QueueInv, ProducerOrder, CopiedInOrder, CloseInv
<1>. QED  BY <1>1, <1>2, <1>3, <1>4, <1>5 DEF QueueInv

\* Elements of the log and of pushChan are well typed.
LEMMA LogTyped ==
  ASSUME TypeOK
  PROVE  /\ Len(log) \in Nat
         /\ \A k \in 1..Len(log) : /\ log[k] \in Event
                                   /\ log[k].from \in Producers
                                   /\ log[k].n \in Nat \ {0}
                                   /\ log[k] = [from |-> log[k].from, n |-> log[k].n]
<1>1. Len(log) \in Nat /\ \A k \in 1..Len(log) : log[k] \in Event
  BY SeqLen, SeqElem DEF TypeOK
<1>. QED  BY <1>1 DEF Event

\* A push request on pushChan carries an event of one of the producers.
LEMMA PushChanTyped ==
  ASSUME TypeOK
  PROVE  /\ Len(pushChan) \in Nat
         /\ \A i \in 1..Len(pushChan) :
              /\ pushChan[i].event \in Event
              /\ pushChan[i].event.from \in Producers
<1>1. /\ Len(pushChan) \in Nat
      /\ \A i \in 1..Len(pushChan) :
           pushChan[i] \in [event : Event, producer : AckProducers \cup {NoProducer},
                           producerID : Nat]
  BY SeqLen, SeqElem, ZenonT(30) DEF TypeOK
<1>. QED  BY <1>1 DEF Event

\* The request a producer builds is well typed.
LEMMA PushRequestType ==
  ASSUME TypeOK, NEW p \in Producers, producedCount[p] < MaxPublish
  PROVE  PushRequest(p) \in [event : Event, producer : AckProducers \cup {NoProducer},
                             producerID : Nat]
BY MemQueueAssumption DEF TypeOK, PushRequest, Event, Producers

\* Sending a request, from Publish or from TryPublish.
LEMMA SendInv ==
  ASSUME IInv, NEW p \in Producers,
         pc[p] \in {"idle", "publishing"}, producedCount[p] < MaxPublish,
         SendRequest(p), UNCHANGED <<runVars, readVars, ackVars, histVars>>
  PROVE  IInv'
<1>. USE MemQueueAssumption
<1>1. PushRequest(p) \in [event : Event, producer : AckProducers \cup {NoProducer},
                          producerID : Nat]
  BY PushRequestType DEF IInv
<1>2. TypeOK'
  <2>1. pushChan' \in Seq([event : Event, producer : AckProducers \cup {NoProducer},
                          producerID : Nat])
    BY <1>1, SeqAppend DEF IInv, TypeOK, SendRequest
  <2>2. /\ pc' \in [Producers -> {"idle", "publishing", "waiting"}]
        /\ resp' \subseteq Producers
    BY DEF IInv, TypeOK, SendRequest
  <2>. QED
    BY <2>1, <2>2 DEF IInv, TypeOK, SendRequest, runVars, readVars, ackVars, histVars
<1>3. QueueInv'
  BY QueueFrame DEF IInv, QueueInv
<1>4. PushInv'
  <2>. SUFFICES ASSUME ~closing PROVE PushInv'
    BY DEF PushInv, runVars
  <2>1. \A i \in 1..Len(pushChan) : pushChan[i].event.from # p
    BY DEF IInv, PushInv
  <2>2. PushRequest(p).event.from = p
    BY DEF PushRequest
  <2>3. \A q : PushRequest(q)' = PushRequest(q)
    BY DEF SendRequest, PushRequest
  <2>4. \A i \in 1..Len(pushChan) :
          /\ pushChan[i].event.from \in Producers
          /\ pc[pushChan[i].event.from] = "waiting" /\ pushChan[i].event.from \notin resp
          /\ pushChan[i] = PushRequest(pushChan[i].event.from)
          /\ pushChan[i].event.from \in eventsOpen
    BY DEF IInv, PushInv, TypeOK, Event
  <2>5. /\ Len(pushChan') = Len(pushChan) + 1
        /\ \A i \in 1..Len(pushChan) : pushChan'[i] = pushChan[i]
        /\ pushChan'[Len(pushChan) + 1] = PushRequest(p)
    BY <1>1 DEF SendRequest, IInv, TypeOK
  <2>6. Len(pushChan) \in Nat
    BY DEF IInv, TypeOK
  <2>7. \A i \in 1..Len(pushChan') :
          LET q == pushChan'[i].event.from IN
          /\ pc'[q] = "waiting" /\ q \notin resp'
          /\ pushChan'[i] = PushRequest(q)
          /\ q \in eventsOpen'
    BY <2>1, <2>2, <2>4, <2>5, <2>6 DEF SendRequest, IInv, TypeOK
  <2>8. \A i, j \in 1..Len(pushChan') :
          pushChan'[i].event.from = pushChan'[j].event.from => i = j
    BY <2>1, <2>2, <2>5, <2>6 DEF IInv, PushInv
  <2>. QED  BY <2>3, <2>7, <2>8 DEF PushInv
<1>A. LogBound'
  BY ZenonT(30) DEF IInv, ProducerInv, LogBound, SendRequest, TypeOK, Event, histVars
<1>B. AnsweredIsLogged'
  BY ZenonT(30) DEF IInv, ProducerInv, AnsweredIsLogged, SendRequest, TypeOK, histVars
<1>C. ProducedIsLogged'
  BY DEF IInv, ProducerInv, ProducedIsLogged, SendRequest, TypeOK, histVars
<1>D. ProducedBound'
  BY DEF IInv, ProducerInv, ProducedBound, SendRequest, TypeOK
<1>. QED  BY <1>2, <1>3, <1>4, <1>A, <1>B, <1>C, <1>D DEF IInv, QueueInv, ProducerInv

\* Giving up on a request.
LEMMA GiveUpInv ==
  ASSUME IInv, NEW p \in Producers,
         \/ pc[p] \in {"idle", "publishing"}
         \/ pc[p] = "waiting" /\ closing,
         GiveUp(p), UNCHANGED <<runVars, readVars, ackVars, histVars>>
  PROVE  IInv'
<1>. USE MemQueueAssumption
<1>1. TypeOK'
  BY DEF IInv, TypeOK, GiveUp, runVars, readVars, ackVars, histVars
<1>2. QueueInv'
  BY QueueFrame DEF IInv, QueueInv
<1>3. PushInv'
  <2>1. \A q : PushRequest(q)' = PushRequest(q)
    BY DEF GiveUp, PushRequest
  <2>2. ~closing => \A i \in 1..Len(pushChan) : pushChan[i].event.from # p
    BY DEF IInv, PushInv
  <2>. QED  BY <2>1, <2>2 DEF IInv, PushInv, GiveUp, runVars, TypeOK
<1>A. LogBound'
  BY ZenonT(30) DEF IInv, ProducerInv, LogBound, GiveUp, TypeOK, Event, histVars
<1>B. AnsweredIsLogged'
  BY DEF IInv, ProducerInv, AnsweredIsLogged, GiveUp, TypeOK, histVars
<1>C. ProducedIsLogged'
  BY DEF IInv, ProducerInv, ProducedIsLogged, GiveUp, TypeOK, histVars
<1>D. ProducedBound'
  BY DEF IInv, ProducerInv, ProducedBound, GiveUp, TypeOK
<1>. QED  BY <1>1, <1>2, <1>3, <1>A, <1>B, <1>C, <1>D DEF IInv, QueueInv, ProducerInv

\* Every step of a producer preserves the invariant.
LEMMA PublishInv ==
  ASSUME IInv, NEW p \in Producers, Publish(p)
  PROVE  IInv'
<1>. USE MemQueueAssumption
<1>1. CASE PublishSend(p)
  <2>1. producedCount[p] < MaxPublish
    BY <1>1 DEF PublishSend, IInv, ProducerInv, ProducedBound
  <2>. QED  BY <1>1, <2>1, SendInv DEF PublishSend
<1>2. CASE TryPublishSend(p)
  BY <1>2, SendInv DEF TryPublishSend
<1>3. CASE PublishRejected(p)
  BY <1>3, GiveUpInv DEF PublishRejected
<1>4. CASE TryPublishRejected(p)
  BY <1>4, GiveUpInv DEF TryPublishRejected
<1>5. CASE PublishAborted(p)
  BY <1>5, GiveUpInv DEF PublishAborted
<1>6. CASE PublishCall(p)
  <2>1. TypeOK'
    BY <1>6 DEF IInv, TypeOK, PublishCall, runVars, readVars, ackVars, histVars
  <2>2. QueueInv'
    BY <1>6, QueueFrame DEF IInv, QueueInv, PublishCall
  <2>3. \A q : PushRequest(q)' = PushRequest(q)
    BY <1>6 DEF PublishCall, PushRequest
  <2>4. PushInv'
    BY <1>6, <2>3 DEF IInv, PushInv, PublishCall, runVars, TypeOK
  <2>5. LogBound'
    BY <1>6, ZenonT(30) DEF IInv, ProducerInv, LogBound, PublishCall, TypeOK, Event, histVars
  <2>6. AnsweredIsLogged'
    BY <1>6 DEF IInv, ProducerInv, AnsweredIsLogged, PublishCall, TypeOK, histVars
  <2>7. ProducedIsLogged' /\ ProducedBound'
    BY <1>6, ZenonT(30) DEF IInv, ProducerInv, ProducedIsLogged, ProducedBound, PublishCall,
                TypeOK, histVars
  <2>. QED  BY <2>1, <2>2, <2>4, <2>5, <2>6, <2>7 DEF IInv, QueueInv, ProducerInv
<1>7. CASE PublishAnswered(p)
  <2>1. TypeOK'
    BY <1>7 DEF IInv, TypeOK, PublishAnswered, runVars, readVars, ackVars, histVars
  <2>2. QueueInv'
    BY <1>7, QueueFrame DEF IInv, QueueInv, PublishAnswered
  <2>3. \A q \in Producers \ {p} : PushRequest(q)' = PushRequest(q)
    BY <1>7 DEF PublishAnswered, PushRequest, IInv, TypeOK
  <2>4. ~closing => \A i \in 1..Len(pushChan) :
                      pushChan[i].event.from \in Producers \ {p}
    BY <1>7, PushChanTyped DEF IInv, PushInv, PublishAnswered
  <2>5. PushInv'
    BY <1>7, <2>3, <2>4, ZenonT(30) DEF IInv, PushInv, PublishAnswered, runVars, TypeOK
  <2>6. LogBound'
    <3>1. \A q \in Producers : producedCount'[q] =
            IF q = p THEN producedCount[q] + 1 ELSE producedCount[q]
      BY <1>7 DEF PublishAnswered, IInv, TypeOK
    <3>2. \A q \in Producers : producedCount[q] \in Nat
      BY DEF IInv, TypeOK
    <3>3. \A q \in Producers \ {p} : pc'[q] = pc[q]
      BY <1>7 DEF PublishAnswered, IInv, TypeOK
    <3>4. log' = log /\ eventsOpen' = eventsOpen /\ resp' = resp
      BY <1>7 DEF PublishAnswered, histVars
    <3>5. TypeOK /\ LogBound
      BY DEF IInv, ProducerInv
    <3>. SUFFICES ASSUME NEW k \in 1..Len(log)
                  PROVE  LET q == log[k].from IN
                         /\ log[k].n <= producedCount'[q] + 1
                         /\ (q \in eventsOpen /\ ~(pc'[q] = "waiting" /\ q \in resp)) =>
                              log[k].n <= producedCount'[q]
      BY <3>4, ZenonT(30) DEF LogBound
    <3>6. log[k].from \in Producers /\ log[k].n \in Nat
      BY <3>5, LogTyped, ZenonT(30)
    <3>. QED
      BY <3>1, <3>2, <3>3, <3>5, <3>6 DEF LogBound
  <2>7. AnsweredIsLogged'
    BY <1>7 DEF IInv, ProducerInv, AnsweredIsLogged, PublishAnswered, TypeOK, histVars
  <2>8. ProducedIsLogged'
    BY <1>7 DEF IInv, ProducerInv, ProducedIsLogged, AnsweredIsLogged,
                PublishAnswered, TypeOK, histVars
  <2>9. ProducedBound'
    BY <1>7 DEF IInv, ProducerInv, ProducedBound, PublishAnswered, TypeOK
  <2>. QED  BY <2>1, <2>2, <2>5, <2>6, <2>7, <2>8, <2>9 DEF IInv, QueueInv, ProducerInv
<1>8. CASE ProducerClose(p)
  <2>1. TypeOK'
    BY <1>8 DEF IInv, TypeOK, ProducerClose, runVars, readVars, ackVars, histVars
  <2>2. QueueInv'
    BY <1>8, QueueFrame DEF IInv, QueueInv, ProducerClose
  <2>3. \A q : PushRequest(q)' = PushRequest(q)
    BY <1>8 DEF ProducerClose, PushRequest
  <2>4. PushInv'
    BY <1>8, <2>3 DEF IInv, PushInv, ProducerClose, runVars
  <2>5. ProducerInv'
    BY <1>8, ZenonT(30) DEF IInv, ProducerInv, LogBound, AnsweredIsLogged,
                ProducedIsLogged, ProducedBound, ProducerClose, histVars
  <2>. QED  BY <2>1, <2>2, <2>4, <2>5 DEF IInv, QueueInv
<1>. QED
  BY <1>1, <1>2, <1>3, <1>4, <1>5, <1>6, <1>7, <1>8 DEF Publish

-----------------------------------------------------------------------------
(* Chains of batches                                                       *)

\* A new batch extends the chain at its upper end.
LEMMA ChainAppend ==
  ASSUME NEW Q \in Seq(Batch), NEW lo \in Nat, NEW hi \in Nat, NEW b \in Batch,
         Chain(Q, lo, hi), b.first = hi
  PROVE  Chain(Append(Q, b), lo, End(b))
<1>. DEFINE R == Append(Q, b)
<1>1. /\ Len(Q) \in Nat /\ Len(R) = Len(Q) + 1 /\ R # <<>>
      /\ \A i \in 1..Len(Q) : R[i] = Q[i] /\ Q[i] \in Batch
      /\ R[Len(Q) + 1] = b
  BY SeqAppend, SeqLen, SeqElem
<1>2. \A c \in Batch : c.first \in Nat /\ c.count \in Nat \ {0} /\ End(c) \in Nat
                       /\ c.first < End(c)
  BY DEF Batch, End
<1>3. Q = <<>> <=> Len(Q) = 0
  BY SeqEmpty
<1>4. lo <= hi
  <2>1. CASE Q = <<>>
    BY <2>1 DEF Chain
  <2>2. CASE Q # <<>>
    BY <2>2, <1>1, <1>2, <1>3 DEF Chain
  <2>. QED  BY <2>1, <2>2
<1>. HIDE DEF R
<1>5. R[1].first = lo
  BY <1>1, <1>3 DEF Chain
<1>6. ASSUME NEW i \in 1..Len(R)
      PROVE  lo <= R[i].first /\ End(R[i]) <= End(b)
  <2>1. CASE i = Len(Q) + 1
    BY <2>1, <1>1, <1>2, <1>4
  <2>2. CASE i \in 1..Len(Q)
    <3>1. R[i] = Q[i] /\ Q[i] \in Batch
      BY <2>2, <1>1
    <3>2. lo <= Q[i].first /\ End(Q[i]) <= hi
      BY <2>2 DEF Chain
    <3>3. End(Q[i]) \in Nat /\ End(b) \in Nat /\ hi < End(b)
      BY <3>1, <1>2
    <3>. QED  BY <3>1, <3>2, <3>3
  <2>. QED  BY <1>1, <2>1, <2>2
<1>7. ASSUME NEW i \in 1..Len(R), NEW j \in 1..Len(R), i < j
      PROVE  End(R[i]) <= R[j].first
  <2>1. i \in 1..Len(Q) /\ R[i] = Q[i]
    BY <1>1, <1>7
  <2>2. CASE j = Len(Q) + 1
    BY <1>1, <2>1, <2>2 DEF Chain
  <2>3. CASE j \in 1..Len(Q)
    BY <1>1, <1>7, <2>1, <2>3 DEF Chain
  <2>. QED  BY <1>1, <2>2, <2>3
<1>8. ASSUME NEW i \in 1..(Len(R) - 1)
      PROVE  R[i + 1].first = End(R[i])
  <2>1. i \in 1..Len(Q) /\ R[i] = Q[i] /\ Q # <<>>
    BY <1>1, <1>3
  <2>2. CASE i = Len(Q)
    BY <1>1, <2>1, <2>2 DEF Chain
  <2>3. CASE i \in 1..(Len(Q) - 1)
    <3>1. R[i + 1] = Q[i + 1]
      BY <1>1, <2>3
    <3>. QED  BY <2>1, <2>3, <3>1 DEF Chain
  <2>. QED  BY <1>1, <2>1, <2>2, <2>3
<1>9. Chain(R, lo, End(b))
  BY <1>1, <1>5, <1>6, <1>7, <1>8 DEF Chain
<1>. QED  BY <1>9 DEF R

\* Taking the oldest batch moves the lower end of the chain to its end.
LEMMA ChainTail ==
  ASSUME NEW Q \in Seq(Batch), NEW lo \in Nat, NEW hi \in Nat,
         Chain(Q, lo, hi), Q # <<>>
  PROVE  Chain(Tail(Q), End(Q[1]), hi)
<1>. DEFINE R == Tail(Q)
<1>1. /\ Len(Q) \in Nat \ {0} /\ Len(R) = Len(Q) - 1
      /\ \A i \in 1..Len(R) : R[i] = Q[i + 1]
      /\ R \in Seq(Batch)
  BY SeqHeadTail, SeqEmpty
<1>2. R = <<>> <=> Len(R) = 0
  BY <1>1, SeqEmpty, ZenonT(30)
<1>. HIDE DEF R
<1>3. R = <<>> => End(Q[1]) = hi
  <2>. SUFFICES ASSUME R = <<>> PROVE End(Q[1]) = hi
    OBVIOUS
  <2>1. Len(Q) = 1
    BY <1>1, <1>2
  <2>. QED  BY <2>1 DEF Chain
<1>4. R # <<>> => R[1].first = End(Q[1]) /\ End(R[Len(R)]) = hi
  <2>. SUFFICES ASSUME R # <<>> PROVE R[1].first = End(Q[1]) /\ End(R[Len(R)]) = hi
    OBVIOUS
  <2>1. /\ 1 \in 1..(Len(Q) - 1) /\ R[1] = Q[1 + 1] /\ R[Len(R)] = Q[Len(Q)]
    BY <1>1, <1>2
  <2>2. Q[1 + 1].first = End(Q[1]) /\ End(Q[Len(Q)]) = hi
    BY <2>1 DEF Chain
  <2>. QED  BY <2>1, <2>2
<1>5. ASSUME NEW i \in 1..Len(R)
      PROVE  End(Q[1]) <= R[i].first /\ End(R[i]) <= hi
  <2>1. R[i] = Q[i + 1] /\ i + 1 \in 1..Len(Q) /\ 1 \in 1..Len(Q) /\ 1 < i + 1
    BY <1>1
  <2>. QED  BY <2>1 DEF Chain
<1>6. ASSUME NEW i \in 1..Len(R), NEW j \in 1..Len(R), i < j
      PROVE  End(R[i]) <= R[j].first
  <2>1. /\ R[i] = Q[i + 1] /\ R[j] = Q[j + 1] /\ i + 1 < j + 1
        /\ i + 1 \in 1..Len(Q) /\ j + 1 \in 1..Len(Q)
    BY <1>1, <1>6
  <2>. QED  BY <2>1 DEF Chain
<1>7. ASSUME NEW i \in 1..(Len(R) - 1)
      PROVE  R[i + 1].first = End(R[i])
  <2>1. /\ R[i] = Q[i + 1] /\ R[i + 1] = Q[(i + 1) + 1]
        /\ i + 1 \in 1..(Len(Q) - 1)
    BY <1>1
  <2>. QED  BY <2>1 DEF Chain
<1>8. Chain(R, End(Q[1]), hi)
  BY <1>3, <1>4, <1>5, <1>6, <1>7 DEF Chain
<1>. QED  BY <1>8 DEF R

-----------------------------------------------------------------------------
(* Preservation: runLoop                                                   *)

\* The normalised request size is between one and the size of the ring.
LEMMA EntryCountRange ==
  ASSUME NEW n \in Int
  PROVE  GetEntryCount(n) \in 1..Events
<1>1. MaxGetRequest \in 1..Events
  BY MemQueueAssumption DEF MaxGetRequest
<1>. QED  BY <1>1, MemQueueAssumption DEF GetEntryCount

\* The batches nextBatchChannel and consumedChan still have to go through are
\* a sequence of batches.
LEMMA OutstandingTyped ==
  ASSUME TypeOK
  PROVE  /\ Outstanding \in Seq(Batch)
         /\ Len(Outstanding) \in Nat
         /\ \A i \in 1..Len(Outstanding) : Outstanding[i] \in Batch
BY SeqConcat, SeqLen, SeqElem DEF TypeOK, Outstanding

\* Answering a request of n entries from a queue of c: the new batch takes
\* the oldest events that were not consumed, and nothing else changes.
LEMMA ReplyInv ==
  ASSUME TypeOK, WindowInv, BatchInv,
         NEW n \in Nat \ {0}, NEW c \in Nat, consumedCount < c, c <= Events,
         response = NoBatch, HandleGetReply(n, c),
         pendingGet' = 0, reader' = "waiting",
         UNCHANGED <<bufPos, pendingBatches, held, doneChan, ackedBatches,
                     ackedCount, released, copied>>
  PROVE  /\ BatchInv'
         /\ consumedCount' \in 0..c
         /\ response' \in Batch
         /\ consumedBatches' \in Seq(Batch)
<1>. DEFINE b == [start |-> StartIndex,
                  count |-> BatchSize(n, c - consumedCount),
                  first |-> released + consumedCount]
<1>1. /\ consumedCount \in Nat /\ released \in Nat /\ bufPos \in Nat
      /\ ackedCount \in Nat /\ Len(copied) \in Nat
  BY SeqLen, MemQueueAssumption DEF TypeOK, Slot
<1>2. /\ response' = b
      /\ consumedBatches' = Append(consumedBatches, b)
      /\ consumedCount' = consumedCount + b.count
  BY DEF HandleGetReply
<1>3. b.count \in 1..(c - consumedCount) /\ b.start = bufPos + consumedCount
      /\ b.first = released + consumedCount
  BY <1>1 DEF BatchSize, StartIndex
<1>4. b \in Batch
  BY <1>1, <1>3 DEF Batch, StartIndex
<1>. HIDE DEF b
<1>5. consumedCount' \in 0..c /\ consumedBatches' \in Seq(Batch)
  <2>1. consumedCount' \in 0..c
    BY <1>1, <1>2, <1>3
  <2>2. consumedBatches' \in Seq(Batch)
    BY <1>2, <1>4, SeqAppend DEF TypeOK
  <2>. QED  BY <2>1, <2>2
<1>6. Outstanding' = Append(Outstanding, b)
  <2>1. pendingBatches \in Seq(Batch) /\ consumedBatches \in Seq(Batch)
        /\ <<b>> \in Seq(Batch)
    BY <1>4 DEF TypeOK
  <2>2. Append(consumedBatches, b) = consumedBatches \o <<b>>
    BY <2>1, <1>4, SeqAppendConcat
  <2>3. Outstanding \in Seq(Batch) /\ Append(Outstanding, b) = Outstanding \o <<b>>
    BY <1>4, OutstandingTyped, SeqAppendConcat
  <2>4. (pendingBatches \o consumedBatches) \o <<b>>
          = pendingBatches \o (consumedBatches \o <<b>>)
    BY <2>1, SeqConcatAssoc
  <2>. QED  BY <1>2, <2>2, <2>3, <2>4 DEF Outstanding
<1>7. /\ Len(Outstanding) \in Nat
      /\ Len(Outstanding') = Len(Outstanding) + 1
      /\ Outstanding' # <<>>
      /\ \A i \in 1..Len(Outstanding) : Outstanding'[i] = Outstanding[i]
      /\ Outstanding'[Len(Outstanding) + 1] = b
  BY <1>4, <1>6, OutstandingTyped, SeqAppend
<1>8. End(b) = released' + consumedCount'
  BY <1>1, <1>2, <1>3 DEF End
<1>9. ChainInv'
  <2>1. Chain(Append(Outstanding, b), released + ackedCount, End(b))
    <3>1. released + ackedCount \in Nat /\ released + consumedCount \in Nat
      BY <1>1
    <3>2. Chain(Outstanding, released + ackedCount, released + consumedCount)
      BY DEF BatchInv, ChainInv
    <3>. QED  BY <1>3, <1>4, <3>1, <3>2, OutstandingTyped, ChainAppend
  <2>. QED  BY <1>6, <1>8, <2>1 DEF ChainInv, Chain, End
<1>10. SlotInv'
  <2>1. SameSlot(b)
    <3>1. ((released % Events) + consumedCount) % Events
            = (released + consumedCount) % Events
      BY <1>1, ModAdd, MemQueueAssumption, ZenonT(30)
    <3>. QED  BY <1>3, <3>1 DEF WindowInv, SameSlot
  <2>. QED  BY <1>7, <2>1 DEF BatchInv, SlotInv, SameSlot
<1>11. AckedBatchInv'
  BY DEF BatchInv, AckedBatchInv, SameSlot, End
<1>12. HolderInv'
  BY <1>7 DEF BatchInv, HolderInv, End
<1>13. ReaderInv'
  <2>1. response' # NoBatch
    BY <1>2, <1>4, MemQueueAssumption
  <2>2. Len(copied') = response'.first
    BY <1>2, <1>3 DEF BatchInv, ReaderInv
  <2>3. response' = Outstanding'[Len(Outstanding')]
    BY <1>2, <1>7
  <2>. QED  BY <1>7, <2>1, <2>2, <2>3 DEF ReaderInv
<1>. QED
  BY <1>2, <1>4, <1>5, <1>9, <1>10, <1>11, <1>12, <1>13 DEF BatchInv

\* The rings, the log and what was acknowledged are as they were.
LEMMA LogFrame ==
  ASSUME RingInv, NotifyInv, AckInv, ProducerOrder, CopiedInOrder,
         UNCHANGED <<buf, log, copied, acked, released, ackPC, ackedCount,
                     callbacks, lastACK>>
  PROVE  RingInv' /\ NotifyInv' /\ AckInv' /\ ProducerOrder' /\ CopiedInOrder'
<1>1. RingInv' /\ ProducerOrder' /\ CopiedInOrder'
  BY DEF RingInv, ProducerOrder, CopiedInOrder
<1>2. Notified' = Notified
  BY DEF Notified
<1>3. NotifyInv'
  BY <1>2 DEF NotifyInv
<1>4. AckInv'
  BY <1>2 DEF AckInv
<1>. QED  BY <1>1, <1>3, <1>4

\* The producers and the log are as they were; closing may have been set.
LEMMA ProducerFrame ==
  ASSUME PushInv, ProducerInv, UNCHANGED <<pushChan, prodVars, log>>,
         closing => closing'
  PROVE  PushInv' /\ ProducerInv'
<1>. USE DEF prodVars
<1>1. \A q : PushRequest(q)' = PushRequest(q)
  BY DEF PushRequest
<1>2. PushInv'
  BY <1>1 DEF PushInv
<1>3. ProducerInv'
  BY DEF ProducerInv, LogBound, AnsweredIsLogged, ProducedIsLogged, ProducedBound
<1>. QED  BY <1>2, <1>3

\* No Get is answered: the batches stay as they are.
LEMMA BatchFrame ==
  ASSUME BatchInv,
         UNCHANGED <<consumedCount, consumedBatches, pendingBatches, pendingGet,
                     reader, response, held, doneChan, ackedBatches, ackedCount,
                     released, copied>>,
         TypeOK, eventCount' \in Nat, eventCount <= eventCount'
  PROVE  BatchInv'
<1>1. Outstanding' = Outstanding
  BY DEF Outstanding
<1>2. ChainInv' /\ SlotInv'
  BY <1>1 DEF BatchInv, ChainInv, SlotInv, Chain, SameSlot, End
<1>3. AckedBatchInv' /\ HolderInv'
  BY <1>1 DEF BatchInv, AckedBatchInv, HolderInv, SameSlot, End
<1>4. ReaderInv'
  BY <1>1 DEF BatchInv, ReaderInv, TypeOK
<1>. QED  BY <1>2, <1>3, <1>4 DEF BatchInv

\* maybeUnblockGetRequest, when the queue now holds c events.
LEMMA UnblockInv ==
  ASSUME TypeOK, WindowInv, BatchInv,
         NEW c \in Nat, eventCount <= c, c <= Events, NEW isClosing,
         MaybeUnblockGetRequest(c, isClosing), eventCount' = c,
         UNCHANGED <<bufPos, reader, pendingBatches, held, doneChan, ackedBatches,
                     ackedCount, released, copied>>
  PROVE  /\ BatchInv'
         /\ consumedCount' \in 0..c
         /\ response' \in Batch \cup {NoBatch}
         /\ consumedBatches' \in Seq(Batch)
         /\ pendingGet' \in 0..Events
<1>1. CASE pendingGet # 0 /\ ~GetRequestShouldBlock(pendingGet, c, isClosing)
  <2>1. pendingGet' = 0 /\ HandleGetReply(pendingGet, c)
    BY <1>1 DEF MaybeUnblockGetRequest
  <2>2. /\ pendingGet \in Nat \ {0} /\ response = NoBatch /\ reader = "waiting"
        /\ consumedCount < c
    BY <1>1 DEF TypeOK, BatchInv, ReaderInv
  <2>3. /\ BatchInv' /\ consumedCount' \in 0..c /\ response' \in Batch
        /\ consumedBatches' \in Seq(Batch)
    BY <2>1, <2>2, ReplyInv
  <2>. QED  BY <2>1, <2>3, MemQueueAssumption
<1>2. CASE ~(pendingGet # 0 /\ ~GetRequestShouldBlock(pendingGet, c, isClosing))
  <2>1. UNCHANGED <<pendingGet, response, consumedBatches, consumedCount>>
    BY <1>2 DEF MaybeUnblockGetRequest
  <2>2. BatchInv'
    BY <2>1, BatchFrame DEF TypeOK
  <2>. QED  BY <2>1, <2>2 DEF TypeOK
<1>. QED  BY <1>1, <1>2

\* The close case of runIteration, with maybeUnblockGetRequest, keeps the
\* invariant.
LEMMA HandleCloseInv == IInv /\ HandleClose => IInv'
<1>. SUFFICES ASSUME IInv, HandleClose PROVE IInv'
  OBVIOUS
<1>. USE DEF HandleClose, ackVars, histVars
<1>1. /\ BatchInv' /\ consumedCount' \in 0..eventCount
      /\ response' \in Batch \cup {NoBatch} /\ consumedBatches' \in Seq(Batch)
      /\ pendingGet' \in 0..Events
  <2>1. eventCount \in Nat /\ eventCount <= eventCount /\ eventCount <= Events
    BY DEF IInv, TypeOK
  <2>2. TypeOK /\ WindowInv /\ BatchInv
    BY DEF IInv
  <2>. QED  BY <2>1, <2>2, UnblockInv, ZenonT(30)
<1>2. TypeOK'
  BY <1>1 DEF IInv, TypeOK, prodVars
<1>3. WindowInv' /\ CollectedInv' /\ CollectedOnly' /\ CloseInv'
  BY DEF IInv, WindowInv, CollectedInv, CollectedOnly, CloseInv, End
<1>4. RingInv' /\ NotifyInv' /\ AckInv' /\ ProducerOrder' /\ CopiedInOrder'
  BY LogFrame DEF IInv
<1>5. PushInv' /\ ProducerInv'
  BY ProducerFrame DEF IInv
<1>. QED  BY <1>1, <1>2, <1>3, <1>4, <1>5 DEF IInv

\* handleGetRequest, blocking or answering at once, keeps the invariant.
LEMMA HandleGetRequestInv ==
  ASSUME IInv, NEW n \in GetCounts, HandleGetRequest(n)
  PROVE  IInv'
<1>. USE DEF HandleGetRequest, ackVars, histVars
<1>1. GetEntryCount(n) \in 1..Events
  BY EntryCountRange, MemQueueAssumption
<1>2. response = NoBatch
  BY DEF IInv, BatchInv, ReaderInv
<1>3. /\ BatchInv' /\ consumedCount' \in 0..eventCount
      /\ response' \in Batch \cup {NoBatch} /\ consumedBatches' \in Seq(Batch)
      /\ pendingGet' \in 0..Events
  <2>1. CASE GetRequestShouldBlock(GetEntryCount(n), eventCount, closing)
    <3>1. UNCHANGED <<response, consumedBatches, consumedCount>>
          /\ pendingGet' = GetEntryCount(n)
      BY <2>1
    <3>2. Outstanding' = Outstanding
      BY <3>1 DEF Outstanding
    <3>3. ChainInv' /\ SlotInv'
      BY <3>1, <3>2 DEF IInv, BatchInv, ChainInv, SlotInv, Chain, SameSlot, End
    <3>4. AckedBatchInv' /\ HolderInv'
      BY <3>1, <3>2 DEF IInv, BatchInv, AckedBatchInv, HolderInv, SameSlot, End
    <3>5. ReaderInv'
      BY <1>2, <3>1, <3>2 DEF IInv, BatchInv, ReaderInv, TypeOK
    <3>. QED  BY <1>1, <3>1, <3>3, <3>4, <3>5 DEF BatchInv, IInv, TypeOK
  <2>2. CASE ~GetRequestShouldBlock(GetEntryCount(n), eventCount, closing)
    <3>1. HandleGetReply(GetEntryCount(n), eventCount) /\ pendingGet' = 0
      BY <2>2
    <3>2. /\ GetEntryCount(n) \in Nat \ {0}
          /\ eventCount \in Nat /\ consumedCount < eventCount /\ eventCount <= Events
      BY <1>1 DEF IInv, TypeOK
    <3>3. /\ BatchInv' /\ consumedCount' \in 0..eventCount
          /\ response' \in Batch /\ consumedBatches' \in Seq(Batch)
      BY <1>2, <3>1, <3>2, ReplyInv DEF IInv
    <3>. QED  BY <3>1, <3>3, MemQueueAssumption
  <2>. QED  BY <2>1, <2>2
<1>4. TypeOK'
  BY <1>3 DEF IInv, TypeOK, prodVars
<1>5. WindowInv' /\ CollectedInv' /\ CollectedOnly' /\ CloseInv'
  BY DEF IInv, WindowInv, CollectedInv, CollectedOnly, CloseInv, End
<1>6. RingInv' /\ NotifyInv' /\ AckInv' /\ ProducerOrder' /\ CopiedInOrder'
  BY LogFrame DEF IInv
<1>7. PushInv' /\ ProducerInv'
  BY ProducerFrame DEF IInv
<1>. QED  BY <1>3, <1>4, <1>5, <1>6, <1>7 DEF IInv

\* The timeout case of runIteration keeps the invariant.
LEMMA GetTimeoutInv == IInv /\ GetTimeout => IInv'
<1>. SUFFICES ASSUME IInv, GetTimeout PROVE IInv'
  OBVIOUS
<1>. USE DEF GetTimeout, ackVars, histVars
<1>1. /\ pendingGet \in Nat \ {0} /\ response = NoBatch /\ reader = "waiting"
      /\ consumedCount < eventCount /\ eventCount \in Nat /\ eventCount <= Events
  BY DEF IInv, TypeOK, BatchInv, ReaderInv
<1>2. /\ BatchInv' /\ consumedCount' \in 0..eventCount
      /\ response' \in Batch /\ consumedBatches' \in Seq(Batch)
  BY <1>1, ReplyInv DEF IInv
<1>3. TypeOK'
  BY <1>2, MemQueueAssumption DEF IInv, TypeOK, prodVars
<1>4. WindowInv' /\ CollectedInv' /\ CollectedOnly' /\ CloseInv'
  BY DEF IInv, WindowInv, CollectedInv, CollectedOnly, CloseInv, End
<1>5. RingInv' /\ NotifyInv' /\ AckInv' /\ ProducerOrder' /\ CopiedInOrder'
  BY LogFrame DEF IInv
<1>6. PushInv' /\ ProducerInv'
  BY ProducerFrame DEF IInv
<1>. QED  BY <1>2, <1>3, <1>4, <1>5, <1>6 DEF IInv

\* A deletion moves the window over the log by the acknowledged events.
LEMMA HandleDeleteInv == IInv /\ HandleDelete => IInv'
<1>. SUFFICES ASSUME IInv, HandleDelete PROVE IInv'
  OBVIOUS
<1>b. bufPos' = (bufPos + ackedCount) % Events
  BY DEF HandleDelete
<1>c. ctxDone' \in BOOLEAN /\ CloseInv'
  BY ZenonT(30) DEF HandleDelete, CloseInv
<1>0. /\ ackPC = "delete" /\ ackPC' = "callbacks"
      /\ eventCount' = eventCount - ackedCount
      /\ consumedCount' = consumedCount - ackedCount
      /\ released' = released + ackedCount /\ ackedCount' = 0
      /\ UNCHANGED <<buf, consumedBatches, pendingGet, closing, pushChan, prodVars,
                     reader, response, held, doneChan, pendingBatches, ackedBatches,
                     callbacks, lastACK, log, copied, acked>>
  BY DEF HandleDelete, readVars
<1>. USE <1>0
<1>1. /\ TypeOK /\ WindowInv /\ BatchInv
      /\ released \in Nat /\ ackedCount \in Nat /\ consumedCount \in Nat
      /\ eventCount \in Nat /\ bufPos \in Nat /\ Len(copied) \in Nat
      /\ consumedCount <= eventCount /\ eventCount <= Events /\ Events \in Nat
  BY MemQueueAssumption, SeqLen DEF IInv, TypeOK, Slot
<1>2. ackedCount <= consumedCount
  <2>1. response = NoBatch => Len(copied) = released + consumedCount
    BY <1>1 DEF BatchInv, ReaderInv
  <2>2. response # NoBatch => Len(copied) <= released + consumedCount
    <3>. SUFFICES ASSUME response # NoBatch
                  PROVE  Len(copied) <= released + consumedCount
      OBVIOUS
    <3>1. /\ Outstanding # <<>> /\ response = Outstanding[Len(Outstanding)]
          /\ Len(copied) = response.first
      BY <1>1 DEF BatchInv, ReaderInv
    <3>2. End(response) = released + consumedCount
      BY <1>1, <3>1 DEF BatchInv, ChainInv, Chain
    <3>3. response \in Batch
      BY <1>1 DEF TypeOK
    <3>. QED  BY <3>1, <3>2, <3>3 DEF End, Batch
  <2>. QED  BY <1>1, <2>1, <2>2 DEF WindowInv
<1>3. /\ released' \in Nat /\ released' = released + ackedCount /\ ackedCount' = 0
      /\ eventCount' \in 0..Events /\ consumedCount' \in 0..eventCount'
      /\ released' + consumedCount' = released + consumedCount
      /\ released' + ackedCount' = released + ackedCount
      /\ released' + eventCount' = released + eventCount
  BY <1>1, <1>2
<1>4. bufPos' = released' % Events /\ bufPos' \in Slot
  <2>1. ((released % Events) + ackedCount) % Events = (released + ackedCount) % Events
    BY <1>1, ModAdd, MemQueueAssumption, ZenonT(30)
  <2>2. (released + ackedCount) % Events \in 0..(Events - 1)
    BY <1>1, DivMod, MemQueueAssumption
  <2>. QED  BY <1>1, <1>3, <1>b, <2>1, <2>2 DEF WindowInv, Slot
<1>5. TypeOK'
  <2>1. ctxDone' \in BOOLEAN
    BY <1>c
  <2>. QED  BY <1>1, <1>3, <1>4, <2>1 DEF TypeOK, prodVars
<1>6. WindowInv'
  BY <1>1, <1>3, <1>4 DEF WindowInv
<1>7. ackedBatches = {}
  BY DEF IInv, CollectedOnly
<1>8. BatchInv'
  <2>1. Outstanding' = Outstanding
    BY DEF Outstanding
  <2>2. ChainInv'
    BY <1>1, <1>3, <2>1 DEF BatchInv, ChainInv, Chain, End
  <2>3. SlotInv' /\ HolderInv'
    BY <1>1, <2>1 DEF BatchInv, SlotInv, HolderInv, SameSlot, End
  <2>4. AckedBatchInv'
    BY <1>7 DEF AckedBatchInv
  <2>5. ReaderInv'
    BY <1>1, <1>3, <2>1 DEF BatchInv, ReaderInv
  <2>. QED  BY <2>2, <2>3, <2>4, <2>5 DEF BatchInv
<1>9. CollectedInv' /\ CollectedOnly'
  BY <1>7 DEF CollectedInv, CollectedOnly
<1>10. Notified' = Notified
  BY <1>1, <1>3 DEF Notified
<1>11. RingInv' /\ NotifyInv'
  BY <1>10 DEF IInv, RingInv, NotifyInv
<1>12. AckInv'
  <2>1. \A k \in (released' + 1)..Len(log) : k \in (released + 1)..Len(log)
    BY <1>1, <1>3
  <2>. QED  BY <1>10, <2>1 DEF IInv, AckInv
<1>13. ProducerOrder' /\ CopiedInOrder'
  BY DEF IInv, ProducerOrder, CopiedInOrder
<1>14. PushInv' /\ ProducerInv'
  BY ProducerFrame DEF IInv
<1>. QED  BY <1>5, <1>6, <1>8, <1>9, <1>11, <1>12, <1>13, <1>14, <1>c DEF IInv

\* The request at the head of pushChan is the current one of a waiting
\* producer, and its event is newer than every event of that producer.
LEMMA HeadRequest ==
  ASSUME IInv, ~closing, pushChan # <<>>
  PROVE  LET e == Head(pushChan).event
             p == e.from
         IN /\ Head(pushChan) = PushRequest(p)
            /\ Head(pushChan) \in [event : Event,
                                   producer : AckProducers \cup {NoProducer},
                                   producerID : Nat]
            /\ p \in Producers /\ pc[p] = "waiting" /\ p \notin resp /\ p \in eventsOpen
            /\ e \in Event /\ e = [from |-> p, n |-> producedCount[p] + 1]
            /\ producedCount[p] \in Nat
            /\ \A k \in 1..Len(log) : log[k].from = p => log[k].n <= producedCount[p]
<1>1. /\ 1 \in 1..Len(pushChan)
      /\ Head(pushChan) = pushChan[1]
      /\ pushChan[1] \in [event : Event, producer : AckProducers \cup {NoProducer},
                          producerID : Nat]
  <2>. DEFINE R == [event : Event, producer : AckProducers \cup {NoProducer},
                    producerID : Nat]
  <2>1. pushChan \in Seq(R)
    BY DEF IInv, TypeOK
  <2>. HIDE DEF R
  <2>2. Len(pushChan) \in Nat /\ Len(pushChan) # 0
    BY <2>1, SeqEmpty, SeqLen
  <2>3. 1 \in 1..Len(pushChan)
    BY <2>2
  <2>4. pushChan[1] \in R
    BY <2>1, <2>3, SeqElem
  <2>5. Head(pushChan) = pushChan[1]
    BY <2>1, SeqHeadTail
  <2>. QED  BY <2>3, <2>4, <2>5 DEF R
<1>. DEFINE p == pushChan[1].event.from
<1>2. /\ pc[p] = "waiting" /\ p \notin resp /\ p \in eventsOpen
      /\ pushChan[1] = PushRequest(p)
  BY <1>1 DEF IInv, PushInv
<1>3. p \in Producers /\ pushChan[1].event \in Event
  BY <1>1, PushChanTyped DEF IInv
<1>4. pushChan[1].event = [from |-> p, n |-> producedCount[p] + 1]
  BY <1>2 DEF PushRequest
<1>5. producedCount[p] \in Nat
  BY <1>3 DEF IInv, TypeOK
<1>6. \A k \in 1..Len(log) : log[k].from = p => log[k].n <= producedCount[p]
  BY <1>2 DEF IInv, ProducerInv, LogBound
<1>. QED  BY <1>1, <1>2, <1>3, <1>4, <1>5, <1>6

\* handleInsert, with the reply it may unblock, keeps the invariant: the slot
\* it writes is neither unread nor part of a batch still to be acknowledged.
LEMMA HandleInsertInv == IInv /\ HandleInsert => IInv'
<1>. SUFFICES ASSUME IInv, HandleInsert PROVE IInv'
  OBVIOUS
<1>. DEFINE h == Head(pushChan)
            p == h.event.from
<1>0. /\ eventCount < Events /\ ~closing /\ ~ctxDone /\ pushChan # <<>>
      /\ pushChan' = Tail(pushChan)
      /\ buf' = [buf EXCEPT ![InsertIndex] = h]
      /\ eventCount' = eventCount + 1
      /\ resp' = resp \cup {p}
      /\ log' = Append(log, h.event)
      /\ MaybeUnblockGetRequest(eventCount + 1, closing)
      /\ UNCHANGED <<bufPos, closing, ctxDone, pc, producedCount, eventsOpen,
                     producerClosed, reader, held, doneChan, pendingBatches, ackPC,
                     ackedBatches, ackedCount, callbacks, lastACK,
                     released, copied, acked>>
  BY DEF HandleInsert, ackVars
<1>1. /\ h = PushRequest(p)
      /\ h \in [event : Event, producer : AckProducers \cup {NoProducer},
                producerID : Nat]
      /\ p \in Producers /\ pc[p] = "waiting" /\ p \notin resp /\ p \in eventsOpen
      /\ h.event \in Event /\ h.event = [from |-> p, n |-> producedCount[p] + 1]
      /\ producedCount[p] \in Nat
      /\ \A k \in 1..Len(log) : log[k].from = p => log[k].n <= producedCount[p]
  BY <1>0, HeadRequest
<1>2. /\ TypeOK /\ WindowInv /\ BatchInv /\ Events \in Nat \ {0}
      /\ released \in Nat /\ ackedCount \in Nat /\ consumedCount \in Nat
      /\ eventCount \in Nat /\ bufPos \in Nat /\ Len(copied) \in Nat /\ Len(log) \in Nat
      /\ consumedCount <= eventCount
  BY MemQueueAssumption, SeqLen DEF IInv, TypeOK, Slot
<1>. HIDE DEF h, p
<1>3. /\ Len(log') = Len(log) + 1
      /\ \A k \in 1..Len(log) : log'[k] = log[k]
      /\ log'[Len(log) + 1] = h.event
      /\ log' \in Seq(Event)
  BY <1>0, <1>1, <1>2, SeqAppend DEF TypeOK
<1>4. InsertIndex = Len(log) % Events /\ InsertIndex \in Slot
  <2>1. ((released % Events) + eventCount) % Events = (released + eventCount) % Events
    BY <1>2, ModAdd, ZenonT(30)
  <2>2. (released + eventCount) % Events \in 0..(Events - 1)
    BY <1>2, DivMod
  <2>. QED  BY <1>2, <2>1, <2>2 DEF WindowInv, InsertIndex, Slot
<1>5. buf'[Len(log) % Events] = h
  BY <1>0, <1>2, <1>4 DEF TypeOK
<1>6. ASSUME NEW k \in released..(Len(log) - 1)
      PROVE  buf'[k % Events] = buf[k % Events]
  <2>1. k \in Nat /\ k < Len(log) /\ Len(log) < k + Events
    BY <1>0, <1>2 DEF WindowInv
  <2>2. k % Events # Len(log) % Events
    BY <1>2, <2>1, ModDistinct, ZenonT(30)
  <2>3. k % Events \in Slot
    BY <1>2, <2>1, DivMod, ZenonT(30) DEF Slot
  <2>. QED  BY <1>0, <1>2, <1>4, <2>2, <2>3 DEF TypeOK
<1>7. /\ BatchInv' /\ consumedCount' \in 0..(eventCount + 1)
      /\ response' \in Batch \cup {NoBatch} /\ consumedBatches' \in Seq(Batch)
      /\ pendingGet' \in 0..Events
  <2>1. eventCount + 1 \in Nat /\ eventCount <= eventCount + 1
        /\ eventCount + 1 <= Events
    BY <1>0, <1>2
  <2>. QED  BY <1>0, <1>2, <2>1, UnblockInv
<1>8. TypeOK'
  <2>1. buf' \in [Slot -> Entry]
    BY <1>0, <1>1, <1>2, <1>4 DEF TypeOK, Entry
  <2>2. pushChan' \in Seq([event : Event, producer : AckProducers \cup {NoProducer},
                          producerID : Nat])
    BY <1>0, <1>2, SeqHeadTail DEF TypeOK
  <2>3. eventCount' \in 0..Events /\ consumedCount' \in 0..eventCount'
    BY <1>0, <1>2, <1>7
  <2>4. resp' \subseteq Producers
    BY <1>0, <1>1, <1>2 DEF TypeOK
  <2>5. /\ bufPos' \in Slot /\ closing' \in BOOLEAN /\ ctxDone' \in BOOLEAN
        /\ pc' \in [Producers -> {"idle", "publishing", "waiting"}]
        /\ producedCount' \in [Producers -> Nat]
        /\ eventsOpen' \subseteq Producers /\ producerClosed' \subseteq Producers
        /\ reader' \in {"idle", "waiting", "eof"}
        /\ held' \subseteq Batch /\ doneChan' \subseteq Batch
    BY <1>0, <1>2, ZenonT(30) DEF TypeOK
  <2>6. /\ pendingBatches' \in Seq(Batch)
        /\ ackPC' \in {"select", "collect", "delete", "callbacks"}
        /\ ackedBatches' \subseteq Batch /\ ackedCount' \in Nat
        /\ callbacks' \in [AckProducers -> Nat] /\ lastACK' \in [AckProducers -> Nat]
        /\ released' \in Nat /\ copied' \in Seq(Event \cup {NoEvent})
        /\ acked' \in [AckProducers -> Nat]
    BY <1>0, <1>2, ZenonT(30) DEF TypeOK
  <2>. QED
    BY <1>3, <1>7, <2>1, <2>2, <2>3, <2>4, <2>5, <2>6, ZenonT(30) DEF TypeOK
<1>9. WindowInv'
  <2>1. /\ eventCount' = eventCount + 1 /\ bufPos' = bufPos /\ released' = released
        /\ ackedCount' = ackedCount /\ copied' = copied /\ ackPC' = ackPC
    BY <1>0, ZenonT(30)
  <2>2. Len(log') = released' + eventCount' /\ released' + ackedCount' <= Len(copied')
    BY <1>2, <1>3, <2>1 DEF WindowInv
  <2>3. /\ bufPos' = released' % Events
        /\ ackPC' \in {"select", "callbacks"} <=> ackedCount' = 0
    BY <1>2, <2>1, ZenonT(30) DEF WindowInv
  <2>. QED  BY <2>2, <2>3, ZenonT(30) DEF WindowInv
<1>10. CollectedInv' /\ CollectedOnly' /\ CloseInv'
  BY <1>0 DEF IInv, CollectedInv, CollectedOnly, CloseInv, End
<1>11. RingInv'
  <2>a. copied' = copied
    BY <1>0, Zenon
  <2>b. Len(log') - 1 = Len(log)
    BY <1>2, <1>3
  <2>. SUFFICES ASSUME NEW k \in Len(copied)..Len(log)
                PROVE  buf'[k % Events].event = log'[k + 1]
    BY <2>a, <2>b, Zenon DEF RingInv
  <2>1. CASE k = Len(log)
    BY <1>3, <1>5, <2>1
  <2>2. CASE k # Len(log)
    <3>1. k \in released..(Len(log) - 1) /\ k + 1 \in 1..Len(log)
          /\ k \in Len(copied)..(Len(log) - 1)
      BY <1>2, <2>2 DEF WindowInv
    <3>. QED  BY <1>3, <1>6, <3>1 DEF IInv, RingInv
  <2>. QED  BY <2>1, <2>2
<1>12. Notified' = Notified /\ Notified \in Nat /\ released <= Notified
  BY <1>0, <1>2 DEF Notified
<1>13. NotifyInv'
  <2>. SUFFICES ASSUME NEW k \in Notified..Len(log)
                PROVE  /\ buf'[k % Events].producer =
                            IF log'[k + 1].from \in AckProducers
                            THEN log'[k + 1].from ELSE NoProducer
                       /\ log'[k + 1].from \in AckProducers =>
                            buf'[k % Events].producerID = log'[k + 1].n
    BY <1>2, <1>3, <1>12 DEF NotifyInv
  <2>1. CASE k = Len(log)
    <3>1. log'[k + 1].from = p /\ log'[k + 1].n = producedCount[p] + 1
      BY <1>1, <1>3, <2>1
    <3>2. buf'[k % Events] = PushRequest(p)
      BY <1>1, <1>5, <2>1
    <3>. QED  BY <3>1, <3>2 DEF PushRequest
  <2>2. CASE k # Len(log)
    <3>1. k \in released..(Len(log) - 1) /\ k + 1 \in 1..Len(log)
          /\ k \in Notified..(Len(log) - 1)
      BY <1>2, <1>12, <2>2
    <3>. QED  BY <1>3, <1>6, <3>1 DEF IInv, NotifyInv
  <2>. QED  BY <2>1, <2>2

<1>14. AckInv'
  <2>1. p \in AckProducers => lastACK[p] <= producedCount[p]
    <3>. SUFFICES ASSUME p \in AckProducers, lastACK[p] # 0
                  PROVE  lastACK[p] <= producedCount[p]
      BY <1>1
    <3>1. PICK k \in 1..Len(log) : log[k] = [from |-> p, n |-> lastACK[p]]
      BY DEF IInv, AckInv
    <3>. QED  BY <1>1, <3>1
  <2>2. p \in AckProducers => lastACK[p] \in Nat /\ acked[p] \in Nat
                              /\ acked[p] <= lastACK[p]
    BY <1>2 DEF IInv, AckInv, TypeOK
  <2>3. log'[Len(log) + 1].from = p /\ log'[Len(log) + 1].n = producedCount[p] + 1
    BY <1>1, <1>3
  <2>4. Notified <= Len(log)
    BY <1>2 DEF Notified, WindowInv, IInv, CopiedInOrder
  <2>5. ASSUME NEW k \in 1..Notified, log'[k].from \in AckProducers
        PROVE  log'[k].n <= lastACK[log'[k].from]
    BY <1>2, <1>3, <1>12, <2>4, <2>5 DEF IInv, AckInv
  <2>6. ASSUME NEW k \in (Notified + 1)..(Len(log) + 1), log'[k].from \in AckProducers
        PROVE  log'[k].n > lastACK[log'[k].from]
    <3>1. CASE k = Len(log) + 1
      BY <1>1, <2>1, <2>2, <2>3, <2>6, <3>1
    <3>2. CASE k # Len(log) + 1
      <4>1. k \in (Notified + 1)..Len(log) /\ k \in 1..Len(log)
        BY <1>2, <1>12, <3>2
      <4>. QED  BY <1>3, <2>6, <4>1 DEF IInv, AckInv
    <3>. QED  BY <3>1, <3>2
  <2>7. ASSUME NEW k \in (released + 1)..(Len(log) + 1), log'[k].from \in AckProducers
        PROVE  log'[k].n > acked[log'[k].from]
    <3>1. CASE k = Len(log) + 1
      BY <1>1, <2>1, <2>2, <2>3, <2>7, <3>1
    <3>2. CASE k # Len(log) + 1
      <4>1. k \in (released + 1)..Len(log) /\ k \in 1..Len(log)
        BY <1>2, <3>2
      <4>. QED  BY <1>3, <2>7, <4>1 DEF IInv, AckInv
    <3>. QED  BY <3>1, <3>2
  <2>8. ASSUME NEW q \in AckProducers
        PROVE  \/ lastACK[q] = 0
               \/ \E k \in 1..Len(log') : log'[k] = [from |-> q, n |-> lastACK[q]]
    <3>1. CASE lastACK[q] = 0
      BY <3>1
    <3>2. CASE lastACK[q] # 0
      <4>1. PICK k \in 1..Len(log) : log[k] = [from |-> q, n |-> lastACK[q]]
        BY <3>2 DEF IInv, AckInv
      <4>. QED  BY <1>2, <1>3, <4>1
    <3>. QED  BY <3>1, <3>2
  <2>9. /\ \A q \in AckProducers : acked'[q] + callbacks'[q] = lastACK'[q]
        /\ ackPC' \in {"select", "collect"} => \A q \in AckProducers : callbacks'[q] = 0
    BY <1>0 DEF IInv, AckInv
  <2>10. lastACK' = lastACK /\ acked' = acked /\ released' = released
    BY <1>0
  <2>. QED  BY <1>3, <1>12, <2>5, <2>6, <2>7, <2>8, <2>9, <2>10 DEF AckInv
<1>15. PushInv'
  <2>1. /\ Len(pushChan) \in Nat \ {0}
        /\ Len(pushChan') = Len(pushChan) - 1
        /\ \A i \in 1..Len(pushChan') : pushChan'[i] = pushChan[i + 1]
        /\ h = pushChan[1]
    BY <1>0, <1>2, SeqHeadTail, SeqEmpty, SeqLen DEF TypeOK, h
  <2>2. \A q : PushRequest(q)' = PushRequest(q)
    BY <1>0 DEF PushRequest
  <2>3. ASSUME NEW i \in 1..Len(pushChan')
        PROVE  LET q == pushChan'[i].event.from IN
               /\ pc'[q] = "waiting" /\ q \notin resp'
               /\ pushChan'[i] = PushRequest(q)
               /\ q \in eventsOpen'
    <3>1. i + 1 \in 1..Len(pushChan) /\ 1 \in 1..Len(pushChan) /\ i + 1 # 1
          /\ pushChan'[i] = pushChan[i + 1]
      BY <2>1
    <3>2. pushChan[i + 1].event.from # pushChan[1].event.from
      BY <1>0, <3>1, ZenonT(30) DEF IInv, PushInv
    <3>3. /\ pc[pushChan[i + 1].event.from] = "waiting"
          /\ pushChan[i + 1].event.from \notin resp
          /\ pushChan[i + 1] = PushRequest(pushChan[i + 1].event.from)
          /\ pushChan[i + 1].event.from \in eventsOpen
      BY <1>0, <3>1 DEF IInv, PushInv
    <3>. QED  BY <1>0, <2>1, <3>1, <3>2, <3>3 DEF p
  <2>4. ASSUME NEW i \in 1..Len(pushChan'), NEW j \in 1..Len(pushChan'),
               pushChan'[i].event.from = pushChan'[j].event.from
        PROVE  i = j
    <3>1. /\ i + 1 \in 1..Len(pushChan) /\ j + 1 \in 1..Len(pushChan)
          /\ pushChan'[i] = pushChan[i + 1] /\ pushChan'[j] = pushChan[j + 1]
      BY <2>1
    <3>2. i + 1 = j + 1
      BY <1>0, <2>4, <3>1 DEF IInv, PushInv
    <3>. QED  BY <2>1, <3>2
  <2>. QED  BY <2>2, <2>3, <2>4 DEF PushInv
<1>16. LogBound'
  <2>. SUFFICES ASSUME NEW k \in 1..(Len(log) + 1)
                PROVE  LET q == log'[k].from IN
                       /\ log'[k].n <= producedCount[q] + 1
                       /\ (q \in eventsOpen /\ ~(pc[q] = "waiting" /\ q \in resp')) =>
                            log'[k].n <= producedCount[q]
    BY <1>0, <1>3, ZenonT(30) DEF LogBound
  <2>1. CASE k = Len(log) + 1
    <3>1. log'[k].from = p /\ log'[k].n = producedCount[p] + 1
      BY <1>1, <1>3, <2>1
    <3>. QED  BY <1>0, <1>1, <3>1
  <2>2. CASE k # Len(log) + 1
    <3>1. k \in 1..Len(log) /\ log'[k] = log[k]
      BY <1>2, <1>3, <2>2
    <3>2. CASE log[k].from = p
      BY <1>0, <1>1, <3>1, <3>2, ZenonT(30) DEF IInv, ProducerInv, LogBound
    <3>3. CASE log[k].from # p
      BY <1>0, <3>1, <3>3 DEF IInv, ProducerInv, LogBound
    <3>. QED  BY <3>2, <3>3
  <2>. QED  BY <2>1, <2>2
<1>17. AnsweredIsLogged'
  <2>. SUFFICES ASSUME NEW q \in Producers, pc[q] = "waiting", q \in resp'
                PROVE  \E k \in 1..Len(log') :
                         log'[k] = [from |-> q, n |-> producedCount[q] + 1]
    BY <1>0, ZenonT(30) DEF AnsweredIsLogged
  <2>1. CASE q = p
    BY <1>1, <1>2, <1>3, <2>1
  <2>2. CASE q # p
    <3>1. PICK k \in 1..Len(log) : log[k] = [from |-> q, n |-> producedCount[q] + 1]
      BY <1>0, <2>2 DEF IInv, ProducerInv, AnsweredIsLogged
    <3>. QED  BY <1>2, <1>3, <3>1
  <2>. QED  BY <2>1, <2>2
<1>18. ProducedIsLogged'
  <2>. SUFFICES ASSUME NEW q \in Producers, NEW n \in 1..producedCount[q]
                PROVE  \E k \in 1..Len(log') : log'[k] = [from |-> q, n |-> n]
    BY <1>0, ZenonT(30) DEF ProducedIsLogged
  <2>1. PICK k \in 1..Len(log) : log[k] = [from |-> q, n |-> n]
    BY DEF IInv, ProducerInv, ProducedIsLogged
  <2>. QED  BY <1>2, <1>3, <2>1
<1>19. ProducedBound'
  BY <1>0 DEF IInv, ProducerInv, ProducedBound
<1>20. ProducerOrder'
  <2>. SUFFICES ASSUME NEW j \in 1..(Len(log) + 1), NEW k \in 1..(Len(log) + 1),
                       j < k, log'[j].from = log'[k].from
                PROVE  log'[j].n < log'[k].n
    BY <1>3, ZenonT(30) DEF ProducerOrder
  <2>1. j \in 1..Len(log) /\ log'[j] = log[j] /\ log[j].n \in Nat
    <3>1. j \in 1..Len(log)
      BY <1>2
    <3>. QED  BY <1>2, <1>3, <3>1, LogTyped, ZenonT(30)
  <2>2. CASE k = Len(log) + 1
    BY <1>1, <1>3, <2>1, <2>2
  <2>3. CASE k # Len(log) + 1
    <3>1. k \in 1..Len(log) /\ log'[k] = log[k]
      BY <1>2, <1>3, <2>3
    <3>. QED  BY <2>1, <3>1 DEF IInv, ProducerOrder
  <2>. QED  BY <2>2, <2>3
<1>21. CopiedInOrder'
  BY <1>0, <1>2, <1>3 DEF IInv, CopiedInOrder
<1>. QED
  BY <1>7, <1>8, <1>9, <1>10, <1>11, <1>13, <1>14, <1>15, <1>16, <1>17, <1>18, <1>19,
     <1>20, <1>21 DEF IInv, ProducerInv

=============================================================================
