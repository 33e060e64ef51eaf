----------------------- MODULE EventConsumerTheorems -----------------------
(* Every step of EventConsumer keeps its inductive invariant; the theorems *)
(* follow.                                                                 *)
EXTENDS EventConsumerProofs

\* The time given to each prover.
USE ZenonT(5), SMTT(20)

-----------------------------------------------------------------------------
(* Every batch stays in one place, and the accounts stay right             *)

\* What remains to be shown of a step.
Kept == Once /\ Numbered /\ Accounted

\* A step that leaves the batches and their accounts alone.
LEMMA NothingMoves ==
  ASSUME IInv,
         UNCHANGED <<queueBatch, readerBatch, retryBatches, inFlight, calls, queueVars,
                     doneVars, miscounted, done>>
  PROVE  Kept'
<1>1. Live' = Live
  BY DEF Live
<1>2. Once'
  BY DEF IInv, Once, Queued, Read, RetrySet, CallSet, NextSet, CallsDistinct, RetriesDistinct
<1>3. Numbered'
  BY DEF IInv, Numbered, queueVars, doneVars
<1>4. Accounted'
  BY <1>1 DEF IInv, Accounted, queueVars, doneVars
<1>. QED  BY <1>2, <1>3, <1>4 DEF Kept

\* A worker takes the active batch: it moves to the output client, or to the
\* call of retry of a worker that is not connected.
LEMMA ConsumerSendKeeps ==
  ASSUME IInv, TypeOK', NEW w \in Worker, ConsumerSend(w)
  PROVE  Kept'
<1>1. TypeOK /\ Once /\ Numbered /\ Accounted
  BY DEF IInv
<1>2. /\ UNCHANGED <<readerBatch, queueVars, doneVars, miscounted, done>>
      /\ Active # NoBatch
  BY DEF ConsumerSend
<1>3. Active \in TTLBatch /\ Active \in Live
  BY <1>1, <1>2, ActiveIs
<1>4. /\ RetriesDistinct' /\ Active \in Queued \cup RetrySet
      /\ \/ RetrySet' = RetrySet \ {Active} /\ Queued' = Queued /\ Active \in RetrySet
         \/ RetrySet' = RetrySet /\ Queued' = Queued \ {Active} /\ Active \in Queued
  <2>1. retryBatches \in Seq(TTLBatch) /\ RetriesDistinct
    BY <1>1 DEF TypeOK, Once
  <2>2. CASE retryBatches # <<>>
    <3>1. Active = Head(retryBatches) /\ retryBatches' = Tail(retryBatches)
          /\ queueBatch' = queueBatch
      BY <2>2 DEF ConsumerSend, Active
    <3>2. /\ Head(retryBatches) \in RetrySet /\ RetriesDistinct'
          /\ RetrySet' = RetrySet \ {Head(retryBatches)}
      BY <2>1, <2>2, <3>1, RetryTail
    <3>3. Queued' = Queued
      BY <3>1 DEF Queued
    <3>. QED  BY <3>1, <3>2, <3>3
  <2>3. CASE ~(retryBatches # <<>>)
    <3>1. Active = queueBatch /\ queueBatch' = NoBatch /\ retryBatches' = retryBatches
      BY <2>3 DEF ConsumerSend, Active
    <3>2. RetrySet' = RetrySet /\ RetriesDistinct'
      BY <2>1, <3>1, RetrySame
    <3>. QED  BY <1>2, <3>1, <3>2 DEF Queued
  <2>. QED  BY <2>2, <2>3
<1>5. PlacesApart(Queued, Read, RetrySet, inFlight, CallSet, NextSet) /\ CallsDistinct
  BY <1>1 DEF Once
<1>6. /\ CallsDistinct' /\ NextSet' = NextSet
      /\ \/ inFlight' = inFlight \cup {Active} /\ CallSet' = CallSet
         \/ inFlight' = inFlight /\ CallSet' = CallSet \cup {Active}
  <2>1. CASE w \in connected \/ w[2] \in Plain
    <3>1. inFlight' = inFlight \cup {Active} /\ calls' = calls
      BY <2>1, Zenon DEF ConsumerSend
    <3>. QED  BY <1>5, <3>1, CallsSame
  <2>2. CASE ~(w \in connected \/ w[2] \in Plain)
    <3>1. inFlight' = inFlight /\ calls' = calls \cup {RetryCall(Active, FALSE, NoBatch, w)}
      BY <2>2, Zenon DEF ConsumerSend
    <3>2. Active \notin CallSet /\ NoBatch \notin NextSet
      BY <1>4, <1>5 DEF PlacesApart, NextSet
    <3>3. /\ CallSet' = CallSet \cup {Active} /\ CallsDistinct'
          /\ NextSet' = NextSet \cup ({NoBatch} \ {NoBatch})
      BY <1>5, <3>1, <3>2, CallAdd, Zenon
    <3>. QED  BY <3>1, <3>3
  <2>. QED  BY <2>1, <2>2
<1>7. Read' = Read
  BY <1>2 DEF Read
<1>8. Live' = Live
  <2>1. Live = Queued \cup Read \cup RetrySet \cup inFlight \cup CallSet \cup NextSet
    BY <1>1, LiveIs
  <2>2. Live' = Queued' \cup Read' \cup RetrySet' \cup inFlight' \cup CallSet' \cup NextSet'
    BY LiveIsNext
  <2>. QED  BY <1>4, <1>6, <1>7, <2>1, <2>2
<1>9. PlacesApart(Queued, Read, RetrySet, inFlight, CallSet, NextSet)'
  BY <1>4, <1>5, <1>6, <1>7 DEF PlacesApart
<1>10. Numbered' /\ Accounted'
  BY <1>1, <1>2, <1>8 DEF Numbered, Accounted, queueVars, doneVars
<1>. QED  BY <1>4, <1>6, <1>9, <1>10 DEF Kept, Once

\* The consumer receives the batch of the reader, for which queueBatch is free.
LEMMA ConsumerReadKeeps ==
  ASSUME IInv, TypeOK', ConsumerRead
  PROVE  Kept'
<1>1. TypeOK /\ Once /\ Numbered /\ Accounted /\ Handover
  BY DEF IInv
<1>2. /\ UNCHANGED <<retryBatches, inFlight, calls, queueVars, doneVars, miscounted, done>>
      /\ queueBatch' = readerBatch /\ readerBatch' = NoBatch /\ reader = "send"
  BY DEF ConsumerRead
<1>3. queueBatch = NoBatch
  BY <1>1, <1>2 DEF Handover
<1>4. Queued = {} /\ Queued' = Read /\ Read' = {}
  BY <1>2, <1>3 DEF Queued, Read
<1>5. /\ RetrySet' = RetrySet /\ CallSet' = CallSet /\ NextSet' = NextSet
      /\ CallsDistinct' /\ RetriesDistinct'
  BY <1>1, <1>2, RetrySame, CallsSame DEF Once
<1>6. Live' = Live
  <2>1. Live = Queued \cup Read \cup RetrySet \cup inFlight \cup CallSet \cup NextSet
    BY <1>1, LiveIs
  <2>2. Live' = Queued' \cup Read' \cup RetrySet' \cup inFlight' \cup CallSet' \cup NextSet'
    BY LiveIsNext
  <2>. QED  BY <1>2, <1>4, <1>5, <2>1, <2>2
<1>7. PlacesApart(Queued, Read, RetrySet, inFlight, CallSet, NextSet)'
  BY <1>1, <1>2, <1>4, <1>5 DEF PlacesApart, Once
<1>8. Numbered' /\ Accounted'
  BY <1>1, <1>2, <1>6 DEF Numbered, Accounted, queueVars, doneVars
<1>. QED  BY <1>5, <1>7, <1>8 DEF Kept, Once

\* What the return of a call does to the places: its batch leaves them, and the
\* second half, if there is one, takes its turn.
LEMMA CallLeaves ==
  ASSUME TypeOK, Once, NEW c \in calls, CallReturns(c)
  PROVE  /\ Queued \cup Read \cup RetrySet \cup inFlight \cup CallSet' \cup NextSet'
              = Live \ {c.batch}
         /\ PlacesApart(Queued, Read, RetrySet, inFlight, CallSet', NextSet')
         /\ CallsDistinct'
<1>1. PlacesApart(Queued, Read, RetrySet, inFlight, CallSet, NextSet) /\ CallsDistinct
  BY DEF Once
<1>2. /\ Live = Queued \cup Read \cup RetrySet \cup inFlight \cup CallSet \cup NextSet
      /\ Live \subseteq TTLBatch
  BY LiveIs
<1>3. /\ CallSet' = (CallSet \ {c.batch}) \cup ({c.next} \ {NoBatch})
      /\ NextSet' = NextSet \ {c.next} /\ CallsDistinct'
  <2>1. NoBatch \notin CallSet
    BY <1>2, NilAssumption
  <2>. QED  BY <1>1, <2>1, CallEnd DEF PlacesApart
<1>4. c.batch \in CallSet /\ NoBatch \notin NextSet /\ (c.next # NoBatch => c.next \in NextSet)
  BY DEF CallSet, NextSet
<1>5. c.batch \notin NextSet \cup Queued \cup Read \cup RetrySet \cup inFlight
  BY <1>1, <1>4 DEF PlacesApart
<1>6. CallSet' \cup NextSet' = (CallSet \cup NextSet) \ {c.batch}
  <2>1. CASE c.next = NoBatch
    BY <1>3, <1>4, <1>5, <2>1
  <2>2. CASE c.next # NoBatch
    BY <1>3, <1>4, <1>5, <2>2
  <2>. QED  BY <2>1, <2>2
<1>7. CallSet' \cap NextSet' = {}
  BY <1>1, <1>3 DEF PlacesApart
<1>8. PlacesApart(Queued, Read, RetrySet, inFlight, CallSet', NextSet')
  BY <1>1, <1>6, <1>7 DEF PlacesApart
<1>. QED  BY <1>2, <1>3, <1>5, <1>6, <1>8

\* The consumer takes over a batch that is retried, or gives it up with no
\* event left; SplitRetry goes on with the second half.
LEMMA ConsumerRetryKeeps ==
  ASSUME IInv, TypeOK', NEW c \in calls, ConsumerRetry(c)
  PROVE  Kept'
<1>. DEFINE b == c.batch
            n == Retried(c)
<1>1. TypeOK /\ Once /\ Numbered /\ Accounted
  BY DEF IInv
<1>2. /\ UNCHANGED <<queueBatch, readerBatch, inFlight, queueVars, miscounted, done>>
      /\ CallReturns(c) /\ finished' = finished \cup (b.events \ n.events)
  BY DEF ConsumerRetry, Retried
<1>3. b \in Live /\ b \in CallSet
  BY <1>1, PlacedIsLive DEF CallSet
<1>4. b \in TTLBatch /\ b.owes # {}
  BY <1>1, <1>3, LiveBatch
<1>5. /\ n \in TTLBatch /\ n.of = b.of /\ n.owes = b.owes /\ n.split = b.split
      /\ n.events \subseteq b.events
  BY <1>1, RetriedIs
<1>6. /\ PlacesApart(Queued, Read, RetrySet, inFlight, CallSet, NextSet)
      /\ CallsDistinct /\ RetriesDistinct
  BY <1>1 DEF Once
<1>7. /\ Live = Queued \cup Read \cup RetrySet \cup inFlight \cup CallSet \cup NextSet
      /\ Live' = Queued' \cup Read' \cup RetrySet' \cup inFlight' \cup CallSet' \cup NextSet'
      /\ Live \subseteq TTLBatch
  BY <1>1, LiveIs, LiveIsNext
<1>8. /\ Queued \cup Read \cup RetrySet \cup inFlight \cup CallSet' \cup NextSet' = Live \ {b}
      /\ PlacesApart(Queued, Read, RetrySet, inFlight, CallSet', NextSet') /\ CallsDistinct'
  BY <1>1, <1>2, CallLeaves
<1>9. Queued' = Queued /\ Read' = Read
  BY <1>2 DEF Queued, Read
<1>. HIDE DEF b, n
<1>10. Numbered'
  <2>1. finished' \subseteq finished \cup b.events
    BY <1>2
  <2>. QED  BY <1>1, <1>2, <1>3, <2>1, NumberedFinish
<1>11. CASE n.events = {}
  <2>1. CallDone(n) /\ retryBatches' = retryBatches
    BY <1>11 DEF ConsumerRetry, Retried, n
  <2>2. finished' = finished \cup b.events
    BY <1>2, <1>11
  <2>3. Accounts(Live \ {b}, queueBatches, outstanding', doneCount', finished', miscounted, done)
    BY <1>1, <1>3, <1>5, <2>1, <2>2, CallDoneKeeps
  <2>4. RetrySet' = RetrySet /\ RetriesDistinct'
    BY <1>6, <2>1, RetrySame
  <2>5. Live' = Live \ {b}
    BY <1>2, <1>7, <1>8, <1>9, <2>4
  <2>6. Accounted'
    BY <1>2, <2>3, <2>5 DEF Accounted, queueVars
  <2>7. PlacesApart(Queued, Read, RetrySet, inFlight, CallSet, NextSet)'
    BY <1>2, <1>8, <1>9, <2>4
  <2>. QED  BY <1>8, <1>10, <2>4, <2>6, <2>7 DEF Kept, Once
<1>12. CASE n.events # {}
  <2>1. retryBatches' = Append(retryBatches, n) /\ UNCHANGED <<outstanding, doneCount>>
    BY <1>12 DEF ConsumerRetry, Retried, n
  <2>2. Accounts((Live \ {b}) \cup {n}, queueBatches, outstanding, doneCount,
                 finished', miscounted, done)
    BY <1>1, <1>2, <1>3, <1>5, <1>12, ShrinkKeeps DEF Accounted
  <2>3. n \notin Live \ {b}
    BY <1>1, <1>3, <1>4, <1>5, NoTwin
  <2>4. n \notin RetrySet /\ retryBatches \in Seq(TTLBatch)
    BY <1>1, <1>3, <1>6, <1>7, <2>3 DEF PlacesApart, TypeOK
  <2>5. RetrySet' = RetrySet \cup {n} /\ RetriesDistinct'
    BY <1>5, <1>6, <2>1, <2>4, RetryAppend
  <2>6. Live' = (Live \ {b}) \cup {n}
    BY <1>2, <1>7, <1>8, <1>9, <2>5
  <2>7. Accounted'
    BY <1>2, <2>1, <2>2, <2>6 DEF Accounted, queueVars
  <2>8. PlacesApart(Queued, Read, RetrySet, inFlight, CallSet, NextSet)'
    BY <1>2, <1>8, <1>9, <2>3, <2>5 DEF PlacesApart
  <2>. QED  BY <1>8, <1>10, <2>5, <2>7, <2>8 DEF Kept, Once
<1>. QED  BY <1>11, <1>12

\* A retry during the shutdown finishes the batch.
LEMMA RetryAfterDoneKeeps ==
  ASSUME IInv, TypeOK', NEW c \in calls, RetryAfterDone(c)
  PROVE  Kept'
<1>. DEFINE b == c.batch
<1>1. TypeOK /\ Once /\ Numbered /\ Accounted
  BY DEF IInv
<1>2. /\ UNCHANGED <<queueBatch, readerBatch, retryBatches, inFlight, queueVars, miscounted, done>>
      /\ CallReturns(c) /\ CallDone(b) /\ finished' = finished \cup b.events
  BY DEF RetryAfterDone, FinishBatch, consumerVars, readerVars
<1>3. b \in Live /\ b \in CallSet
  BY <1>1, PlacedIsLive DEF CallSet
<1>4. /\ PlacesApart(Queued, Read, RetrySet, inFlight, CallSet, NextSet)
      /\ CallsDistinct /\ RetriesDistinct
  BY <1>1 DEF Once
<1>5. /\ Live = Queued \cup Read \cup RetrySet \cup inFlight \cup CallSet \cup NextSet
      /\ Live' = Queued' \cup Read' \cup RetrySet' \cup inFlight' \cup CallSet' \cup NextSet'
      /\ Live \subseteq TTLBatch
  BY <1>1, LiveIs, LiveIsNext
<1>6. /\ Queued \cup Read \cup RetrySet \cup inFlight \cup CallSet' \cup NextSet' = Live \ {b}
      /\ PlacesApart(Queued, Read, RetrySet, inFlight, CallSet', NextSet') /\ CallsDistinct'
  BY <1>1, <1>2, CallLeaves
<1>7. Queued' = Queued /\ Read' = Read /\ RetrySet' = RetrySet /\ RetriesDistinct'
  BY <1>2, <1>4, RetrySame DEF Queued, Read
<1>. HIDE DEF b
<1>8. Numbered'
  BY <1>1, <1>2, <1>3, NumberedFinish
<1>9. Live' = Live \ {b}
  BY <1>2, <1>5, <1>6, <1>7
<1>10. Accounts(Live \ {b}, queueBatches, outstanding', doneCount', finished', miscounted, done)
  BY <1>1, <1>2, <1>3, CallDoneKeeps, Zenon
<1>11. Accounted'
  BY <1>2, <1>9, <1>10 DEF Accounted, queueVars
<1>12. PlacesApart(Queued, Read, RetrySet, inFlight, CallSet, NextSet)'
  BY <1>2, <1>7, <1>6
<1>. QED  BY <1>6, <1>7, <1>8, <1>11, <1>12 DEF Kept, Once

\* The reader gets fresh events.
LEMMA ReaderGetKeeps ==
  ASSUME IInv, TypeOK', NEW k \in 1..TargetBatchSize, ReaderGet(k)
  PROVE  Kept'
<1>. DEFINE n == readerBatch'
            fresh == nextEvent..(nextEvent + k - 1)
<1>1. TypeOK /\ Once /\ Numbered /\ Accounted /\ Handover
  BY DEF IInv
<1>2. /\ UNCHANGED <<consumerVars, inFlight, calls, load, doneVars, miscounted>>
      /\ reader = "get" /\ nextEvent' = nextEvent + k
      /\ n = [of |-> nextEvent, events |-> fresh, owes |-> fresh,
              ttl |-> TimeToLive, split |-> FALSE]
      /\ queueBatches' = [queueBatches EXCEPT ![nextEvent] = fresh]
  BY DEF ReaderGet
<1>3. /\ nextEvent \in Nat \ {0} /\ k \in Nat \ {0} /\ load \in Workloads
      /\ load.events \in Nat /\ nextEvent + k - 1 <= load.events
  BY <1>1, EventConsumerAssumption DEF TypeOK, ReaderGet
<1>4. nextEvent \in Event
  BY <1>3 DEF Event
<1>5. /\ n.of = nextEvent /\ n.events = fresh /\ n.owes = fresh /\ n.split = FALSE
  BY <1>2
<1>6. Read = {} /\ Read' = {n} \ {NoBatch} /\ Queued' = Queued
  BY <1>1, <1>2 DEF Handover, Read, Queued, consumerVars
<1>7. n \in TTLBatch
  <2>1. n \in TTLBatch \cup {NoBatch}
    BY DEF TypeOK
  <2>2. fresh \subseteq Event
    BY <1>3 DEF Event
  <2>. QED  BY <1>2, <1>4, <2>2, EventConsumerAssumption DEF TTLBatch
<1>8. \A e \in fresh : e \in Nat /\ e >= nextEvent /\ e <= nextEvent + k - 1
  BY <1>3
<1>9. nextEvent \in fresh /\ IsFiniteSet(fresh)
  BY <1>3, FS_Interval
<1>. HIDE DEF n, fresh
<1>10. \A q \in Event : queueBatches[q] \cap fresh = {}
  BY <1>1, <1>3, <1>8 DEF Numbered, TypeOK
<1>11. queueBatches[nextEvent] = {} /\ fresh \cap finished = {}
  BY <1>1, <1>3, <1>4, <1>8 DEF Numbered, TypeOK
<1>12. Accounts(Live \cup {n}, queueBatches', outstanding, doneCount, finished, miscounted, done)
  BY <1>1, <1>2, <1>5, <1>7, <1>9, <1>10, <1>11, FreshKeeps, Zenon DEF Accounted
<1>13. /\ RetrySet' = RetrySet /\ CallSet' = CallSet /\ NextSet' = NextSet
       /\ CallsDistinct' /\ RetriesDistinct'
  BY <1>1, <1>2, RetrySame, CallsSame DEF Once, consumerVars
<1>14. /\ Live = Queued \cup Read \cup RetrySet \cup inFlight \cup CallSet \cup NextSet
       /\ Live' = Queued' \cup Read' \cup RetrySet' \cup inFlight' \cup CallSet' \cup NextSet'
  BY <1>1, LiveIs, LiveIsNext
<1>15. n # NoBatch
  BY <1>7, NilAssumption
<1>16. Live' = Live \cup {n}
  BY <1>2, <1>6, <1>13, <1>14, <1>15
<1>17. Accounted'
  BY <1>2, <1>12, <1>16 DEF Accounted, doneVars, consumerVars
<1>18. n \notin Live
  <2>1. ASSUME n \in Live PROVE FALSE
    <3>1. n.owes \subseteq queueBatches[n.of]
      BY <1>1, <2>1, Zenon DEF Accounted, Accounts, Sound
    <3>. QED  BY <1>5, <1>9, <1>11, <3>1
  <2>. QED  BY <2>1
<1>19. PlacesApart(Queued, Read, RetrySet, inFlight, CallSet, NextSet)'
  <2>1. PlacesApart(Queued, Read, RetrySet, inFlight, CallSet, NextSet)
    BY <1>1 DEF Once
  <2>2. PlacesApart(Queued, {n}, RetrySet, inFlight, CallSet, NextSet)
    BY <1>14, <1>18, <2>1 DEF PlacesApart
  <2>3. Read' = {n} /\ inFlight' = inFlight
    BY <1>2, <1>6, <1>15
  <2>. QED  BY <1>6, <1>13, <2>2, <2>3
<1>20. Numbered'
  <2>1. \A q \in Event : queueBatches'[q] \subseteq q..(nextEvent' - 1)
    <3>1. ASSUME NEW q \in Event, NEW e \in queueBatches'[q] PROVE e \in q..(nextEvent' - 1)
      <4>0. q \in Nat
        BY EventConsumerAssumption DEF Event
      <4>1. CASE q = nextEvent
        <5>1. e \in fresh
          BY <1>1, <1>2, <1>4, <3>1, <4>1 DEF TypeOK
        <5>. QED  BY <1>2, <1>3, <1>8, <4>1, <5>1
      <4>2. CASE q # nextEvent
        <5>1. e \in queueBatches[q]
          BY <1>1, <1>2, <1>4, <3>1, <4>2 DEF TypeOK
        <5>2. e \in q..(nextEvent - 1)
          BY <1>1, <5>1 DEF Numbered
        <5>. QED  BY <1>2, <1>3, <4>0, <5>2
      <4>. QED  BY <4>1, <4>2
    <3>. QED  BY <3>1
  <2>2. \A e \in 1..(nextEvent' - 1) : \E q \in Event : e \in queueBatches'[q]
    <3>1. ASSUME NEW e \in 1..(nextEvent' - 1) PROVE \E q \in Event : e \in queueBatches'[q]
      <4>1. CASE e < nextEvent
        <5>1. PICK q \in Event : e \in queueBatches[q]
          BY <1>1, <1>3, <4>1 DEF Numbered
        <5>2. q # nextEvent
          BY <1>11, <5>1
        <5>. QED  BY <1>1, <1>2, <1>4, <5>1, <5>2 DEF TypeOK
      <4>2. CASE ~(e < nextEvent)
        <5>1. e \in fresh
          BY <1>2, <1>3, <4>2 DEF fresh
        <5>. QED  BY <1>1, <1>2, <1>4, <5>1 DEF TypeOK
      <4>. QED  BY <4>1, <4>2
    <3>. QED  BY <3>1
  <2>3. finished' \subseteq 1..(nextEvent' - 1)
    <3>1. finished' = finished /\ finished \subseteq 1..(nextEvent - 1)
      BY <1>1, <1>2 DEF Numbered, doneVars
    <3>. QED  BY <1>2, <1>3, <3>1
  <2>. QED  BY <2>1, <2>2, <2>3 DEF Numbered
<1>. QED  BY <1>13, <1>17, <1>19, <1>20 DEF Kept, Once

\* The reader stops, and a fresh batch in its hand is discarded.
LEMMA ReaderStopKeeps ==
  ASSUME IInv, TypeOK', ReaderStop
  PROVE  Kept'
<1>. DEFINE b == readerBatch
<1>1. TypeOK /\ Once /\ Numbered /\ Accounted /\ Handover
  BY DEF IInv
<1>2. /\ UNCHANGED <<queueBatch, retryBatches, done, inFlight, calls, queueVars, doneVars,
                     miscounted>>
      /\ readerBatch' = NoBatch /\ done = TRUE
  BY <1>1 DEF ReaderStop, consumerVars, Handover, TypeOK
<1>3. CASE b = NoBatch
  <2>1. readerBatch' = readerBatch
    BY <1>2, <1>3
  <2>. QED  BY <1>2, <2>1, NothingMoves
<1>4. CASE b # NoBatch
  <2>1. b \in Live /\ ~b.split
    BY <1>1, <1>4, PlacedIsLive DEF Handover
  <2>2. Accounts(Live \ {b}, queueBatches, outstanding, doneCount, finished, miscounted, done)
    BY <1>1, <1>2, <2>1, DiscardKeeps, Zenon DEF Accounted
  <2>3. Queued' = Queued /\ Read = {b} /\ Read' = {}
    BY <1>2, <1>4 DEF Queued, Read
  <2>4. /\ RetrySet' = RetrySet /\ CallSet' = CallSet /\ NextSet' = NextSet
        /\ CallsDistinct' /\ RetriesDistinct'
    BY <1>1, <1>2, RetrySame, CallsSame DEF Once
  <2>5. /\ Live = Queued \cup Read \cup RetrySet \cup inFlight \cup CallSet \cup NextSet
        /\ Live' = Queued' \cup Read' \cup RetrySet' \cup inFlight' \cup CallSet' \cup NextSet'
    BY <1>1, LiveIs, LiveIsNext
  <2>6. PlacesApart(Queued, Read, RetrySet, inFlight, CallSet, NextSet)
    BY <1>1 DEF Once
  <2>7. b \notin Queued \cup RetrySet \cup inFlight \cup CallSet \cup NextSet
    BY <2>3, <2>6 DEF PlacesApart
  <2>. HIDE DEF b
  <2>8. Live' = Live \ {b}
    BY <1>2, <2>3, <2>4, <2>5, <2>7
  <2>9. Accounted'
    BY <1>2, <2>2, <2>8, Zenon DEF Accounted, queueVars, doneVars
  <2>10. PlacesApart(Queued, {}, RetrySet, inFlight, CallSet, NextSet)
    BY <2>6 DEF PlacesApart
  <2>11. PlacesApart(Queued, Read, RetrySet, inFlight, CallSet, NextSet)'
    BY <1>2, <2>3, <2>4, <2>10
  <2>12. Numbered'
    BY <1>1, <1>2 DEF Numbered, queueVars, doneVars
  <2>. QED  BY <2>4, <2>9, <2>11, <2>12 DEF Kept, Once
<1>. QED  BY <1>3, <1>4

\* An output client acknowledges or drops a batch.
LEMMA OutputFinishKeeps ==
  ASSUME IInv, TypeOK', NEW b \in inFlight, OutputFinish(b)
  PROVE  Kept'
<1>1. TypeOK /\ Once /\ Numbered /\ Accounted
  BY DEF IInv
<1>2. /\ UNCHANGED <<queueBatch, readerBatch, retryBatches, done, calls, queueVars, miscounted>>
      /\ inFlight' = inFlight \ {b} /\ CallDone(b) /\ finished' = finished \cup b.events
  BY DEF OutputFinish, FinishBatch, consumerVars, readerVars
<1>3. b \in Live
  BY <1>1, PlacedIsLive
<1>4. Accounts(Live \ {b}, queueBatches, outstanding', doneCount', finished', miscounted, done)
  BY <1>1, <1>2, <1>3, CallDoneKeeps
<1>5. /\ RetrySet' = RetrySet /\ CallSet' = CallSet /\ NextSet' = NextSet
      /\ CallsDistinct' /\ RetriesDistinct' /\ Queued' = Queued /\ Read' = Read
  BY <1>1, <1>2, RetrySame, CallsSame DEF Once, Queued, Read
<1>6. /\ Live = Queued \cup Read \cup RetrySet \cup inFlight \cup CallSet \cup NextSet
      /\ Live' = Queued' \cup Read' \cup RetrySet' \cup inFlight' \cup CallSet' \cup NextSet'
  BY <1>1, LiveIs, LiveIsNext
<1>7. PlacesApart(Queued, Read, RetrySet, inFlight, CallSet, NextSet)
  BY <1>1 DEF Once
<1>8. b \notin Queued \cup Read \cup RetrySet \cup CallSet \cup NextSet
  BY <1>7 DEF PlacesApart
<1>9. Live' = Live \ {b}
  BY <1>2, <1>5, <1>6, <1>8
<1>10. Accounted'
  BY <1>2, <1>4, <1>9 DEF Accounted, queueVars
<1>11. PlacesApart(Queued, Read, RetrySet, inFlight', CallSet, NextSet)
  BY <1>2, <1>7 DEF PlacesApart
<1>12. PlacesApart(Queued, Read, RetrySet, inFlight, CallSet, NextSet)'
  BY <1>5, <1>11
<1>13. Numbered'
  BY <1>1, <1>2, <1>3, NumberedFinish
<1>. QED  BY <1>5, <1>10, <1>12, <1>13 DEF Kept, Once

\* An output client gives back a batch, some of whose events it may have
\* acknowledged.
LEMMA OutputRetryKeeps ==
  ASSUME IInv, TypeOK', NEW b \in inFlight, NEW dec, NEW events \in SUBSET b.events,
         events # {}, OutputRetry(b, dec, events)
  PROVE  Kept'
<1>. DEFINE n == [b EXCEPT !.events = events]
<1>1. TypeOK /\ Once /\ Numbered /\ Accounted
  BY DEF IInv
<1>2. /\ UNCHANGED <<queueBatch, readerBatch, retryBatches, done, queueVars, outstanding,
                     doneCount, miscounted>>
      /\ inFlight' = inFlight \ {b} /\ finished' = finished \cup (b.events \ events)
      /\ calls' = calls \cup {RetryCall(n, dec, NoBatch, NoBatch)}
  BY DEF OutputRetry, consumerVars, readerVars
<1>3. b \in Live
  BY <1>1, PlacedIsLive
<1>4. b \in TTLBatch /\ b.owes # {}
  BY <1>1, <1>3, LiveBatch
<1>5. /\ n \in TTLBatch /\ n.of = b.of /\ n.owes = b.owes /\ n.split = b.split
      /\ n.events = events
  BY <1>4 DEF TTLBatch
<1>. HIDE DEF n
<1>6. Accounts((Live \ {b}) \cup {n}, queueBatches, outstanding, doneCount, finished',
               miscounted, done)
  BY <1>1, <1>2, <1>3, <1>5, ShrinkKeeps, Zenon DEF Accounted
<1>7. n \notin Live \ {b}
  BY <1>1, <1>3, <1>4, <1>5, NoTwin
<1>8. /\ Live = Queued \cup Read \cup RetrySet \cup inFlight \cup CallSet \cup NextSet
      /\ Live' = Queued' \cup Read' \cup RetrySet' \cup inFlight' \cup CallSet' \cup NextSet'
  BY <1>1, LiveIs, LiveIsNext
<1>9. PlacesApart(Queued, Read, RetrySet, inFlight, CallSet, NextSet)
      /\ CallsDistinct /\ RetriesDistinct
  BY <1>1 DEF Once
<1>10. b \notin Queued \cup Read \cup RetrySet \cup CallSet \cup NextSet
  BY <1>9 DEF PlacesApart
<1>11. n \notin CallSet /\ NoBatch \notin NextSet
  BY <1>7, <1>8, <1>10 DEF NextSet
<1>12. CallSet' = CallSet \cup {n} /\ NextSet' = NextSet /\ CallsDistinct'
  <2>1. /\ CallSet' = CallSet \cup {n} /\ CallsDistinct'
        /\ NextSet' = NextSet \cup ({NoBatch} \ {NoBatch})
    BY <1>2, <1>9, <1>11, CallAdd, Zenon
  <2>. QED  BY <2>1
<1>13. RetrySet' = RetrySet /\ RetriesDistinct' /\ Queued' = Queued /\ Read' = Read
  BY <1>2, <1>9, RetrySame, Zenon DEF Queued, Read
<1>14. Live' = (Live \ {b}) \cup {n}
  BY <1>2, <1>8, <1>10, <1>12, <1>13, Zenon
<1>15. Accounted'
  BY <1>2, <1>6, <1>14, Zenon DEF Accounted, queueVars
<1>16. PlacesApart(Queued, Read, RetrySet, inFlight \ {b}, CallSet \cup {n}, NextSet)
  BY <1>7, <1>8, <1>9, <1>10 DEF PlacesApart
<1>17. PlacesApart(Queued, Read, RetrySet, inFlight, CallSet, NextSet)'
  BY <1>2, <1>12, <1>13, <1>16, Zenon
<1>18. Numbered'
  <2>1. finished' \subseteq finished \cup b.events
    BY <1>2, Zenon
  <2>. QED  BY <1>1, <1>2, <1>3, <2>1, NumberedFinish, Zenon
<1>. QED  BY <1>12, <1>13, <1>15, <1>17, <1>18 DEF Kept, Once

\* An output client splits a batch.
LEMMA OutputSplitKeeps ==
  ASSUME IInv, TypeOK', NEW b \in inFlight, NEW half \in SUBSET b.events, OutputSplit(b, half)
  PROVE  Kept'
<1>. DEFINE x == Fragment(b, half)
            y == Fragment(b, b.events \ half)
<1>1. TypeOK /\ Once /\ Numbered /\ Accounted
  BY DEF IInv
<1>2. /\ UNCHANGED <<queueBatch, readerBatch, retryBatches, done, queueVars, doneCount, finished>>
      /\ inFlight' = inFlight \ {b}
      /\ calls' = calls \cup {RetryCall(x, FALSE, y, NoBatch)}
      /\ Cardinality(b.events) >= 2 /\ Cardinality(half) = Cardinality(b.events) \div 2
      /\ outstanding' = IF b.split THEN outstanding
                        ELSE [outstanding EXCEPT ![b.of] = Cardinality(b.events)]
      /\ miscounted' = IF b.split /\ b.owes # b.events
                       THEN miscounted \cup {b.of} ELSE miscounted
  BY Zenon DEF OutputSplit, consumerVars, readerVars
<1>3. b \in Live
  BY <1>1, PlacedIsLive
<1>4. b.events \subseteq b.owes
  BY <1>1, <1>3, LiveBatch
<1>5. /\ half # {} /\ b.events \ half # {}
      /\ Accounts((Live \ {b}) \cup {x, y}, queueBatches, outstanding', doneCount, finished,
                  miscounted', done)
  BY <1>1, <1>2, <1>3, SplitKeeps, Zenon DEF Accounted
<1>6. x.owes = half /\ y.owes = b.events \ half
  BY Zenon DEF Fragment
<1>. HIDE DEF x, y
<1>7. x \notin Live \ {b} /\ y \notin Live \ {b} /\ x # y
  <2>1. x.owes \cap b.owes # {} /\ y.owes \cap b.owes # {}
    BY <1>4, <1>5, <1>6
  <2>2. x # y
    BY <1>5, <1>6
  <2>. QED  BY <1>1, <1>3, <2>1, <2>2, NoTwin, Zenon
<1>8. /\ Live = Queued \cup Read \cup RetrySet \cup inFlight \cup CallSet \cup NextSet
      /\ Live' = Queued' \cup Read' \cup RetrySet' \cup inFlight' \cup CallSet' \cup NextSet'
      /\ Live' \subseteq TTLBatch
  BY <1>1, LiveIs, LiveIsNext
<1>9. PlacesApart(Queued, Read, RetrySet, inFlight, CallSet, NextSet)
      /\ CallsDistinct /\ RetriesDistinct
  BY <1>1 DEF Once
<1>10. b \notin Queued \cup Read \cup RetrySet \cup CallSet \cup NextSet
  BY <1>9 DEF PlacesApart
<1>11. x \notin CallSet /\ y \notin NextSet
  BY <1>7, <1>8, <1>10
<1>12. y # NoBatch
  <2>1. y \in TTLBatch
    BY <1>1, <1>3, LiveBatch DEF y, Fragment, TTLBatch
  <2>. QED  BY <2>1, NilAssumption
<1>13. CallSet' = CallSet \cup {x} /\ NextSet' = NextSet \cup {y} /\ CallsDistinct'
  <2>1. /\ CallSet' = CallSet \cup {x} /\ CallsDistinct'
        /\ NextSet' = NextSet \cup ({y} \ {NoBatch})
    BY <1>2, <1>9, <1>11, CallAdd, Zenon
  <2>. QED  BY <1>12, <2>1
<1>14. RetrySet' = RetrySet /\ RetriesDistinct' /\ Queued' = Queued /\ Read' = Read
  BY <1>2, <1>9, RetrySame, Zenon DEF Queued, Read
<1>15. Live' = (Live \ {b}) \cup {x, y}
  BY <1>2, <1>8, <1>10, <1>13, <1>14, Zenon
<1>16. Accounted'
  BY <1>2, <1>5, <1>15, Zenon DEF Accounted, queueVars
<1>17. PlacesApart(Queued, Read, RetrySet, inFlight \ {b}, CallSet \cup {x}, NextSet \cup {y})
  BY <1>7, <1>8, <1>9, <1>10 DEF PlacesApart
<1>18. PlacesApart(Queued, Read, RetrySet, inFlight, CallSet, NextSet)'
  BY <1>2, <1>13, <1>14, <1>17, Zenon
<1>19. Numbered'
  BY <1>1, <1>2, Zenon DEF Numbered, queueVars
<1>. QED  BY <1>13, <1>14, <1>16, <1>18, <1>19, Zenon DEF Kept, Once

-----------------------------------------------------------------------------
(* The theorems                                                            *)

\* A pipeline that has just started holds no batch, and owes nothing.
LEMMA InitIInv ==
  ASSUME Init
  PROVE  IInv
<1>. USE EventConsumerAssumption
<1>1. TypeOK
  <2>1. load \in Workloads /\ load.generations \in Nat /\ load.events \in Nat
    BY DEF Init
  <2>2. <<>> \in Seq(TTLBatch)
    BY SeqEmpty
  <2>3. /\ queueBatches \in [Event -> SUBSET Event] /\ outstanding \in [Event -> Int]
        /\ doneCount \in [Event -> Nat]
    BY DEF Init
  <2>4. workerPC \in [Worker -> {"none", "select", "cancel", "connect", "publish", "exited"}]
    BY DEF Init
  <2>5. generation \in 0..load.generations /\ nextEvent \in 1..(load.events + 1)
    BY <2>1 DEF Init
  <2>. QED  BY <2>1, <2>2, <2>3, <2>4, <2>5, Zenon DEF Init, TypeOK
<1>2. /\ Queued = {} /\ Read = {} /\ inFlight = {} /\ CallSet = {} /\ NextSet = {}
      /\ calls = {}
  BY DEF Init, Queued, Read, CallSet, NextSet
<1>3. Len(retryBatches) = 0
  BY SeqEmpty DEF Init
<1>4. RetrySet = {} /\ RetriesDistinct
  BY <1>3 DEF RetrySet, RetriesDistinct
<1>5. Once
  BY <1>2, <1>4 DEF Once, PlacesApart, CallsDistinct
<1>6. Handover
  BY DEF Init, Handover
<1>7. Numbered
  BY DEF Init, Numbered
<1>8. Live = {}
  BY <1>1, <1>2, <1>4, LiveIs
<1>9. Accounted
  <2>1. Sound(Live, queueBatches, doneCount, finished) /\ Separate(Live)
        /\ Counted(Live, outstanding, miscounted)
    BY <1>8 DEF Sound, Separate, Counted
  <2>2. IsFiniteSet({})
    BY FS_EmptySet
  <2>3. Closed(Live, queueBatches, doneCount, finished, miscounted, done)
    BY <1>8, <2>2 DEF Init, Closed
  <2>. QED  BY <1>1, <1>8, <2>1, <2>3 DEF Accounted, Accounts, TypeOK
<1>. QED  BY <1>1, <1>5, <1>6, <1>7, <1>9 DEF IInv

\* Every step of the consumer, the reader and the workers keeps the invariant.
LEMMA NextIInv ==
  ASSUME IInv, [Next]_vars
  PROVE  IInv'
<1>1. TypeOK' /\ Handover'
  BY TypeStep, HandoverStep
<1>. SUFFICES Kept'
  BY <1>1 DEF IInv, Kept
<1>2. CASE UNCHANGED vars
  BY <1>2, NothingMoves DEF vars, consumerVars, readerVars
<1>3. CASE Consumer
  <2>1. CASE ConsumerStop
    BY <2>1, NothingMoves DEF ConsumerStop, readerVars
  <2>. QED  BY <1>1, <1>3, <2>1, ConsumerSendKeeps, ConsumerReadKeeps, ConsumerRetryKeeps,
               RetryAfterDoneKeeps DEF Consumer
<1>4. CASE QueueReader
  <2>1. CASE ReaderRequest \/ ReaderGetNothing
    BY <2>1, NothingMoves DEF ReaderRequest, ReaderGetNothing, consumerVars
  <2>. QED  BY <1>1, <1>4, <2>1, ReaderStopKeeps, ReaderGetKeeps DEF QueueReader
<1>5. CASE Workers
  <2>1. UNCHANGED <<consumerVars, readerVars, inFlight, calls, queueVars, doneVars, miscounted>>
    BY <1>5 DEF Workers, WorkerConnect, PublishReturns, WorkerExit
  <2>. QED  BY <2>1, NothingMoves DEF consumerVars, readerVars
<1>6. CASE OutputClients
  <2>1. PICK b \in inFlight :
          \/ OutputFinish(b)
          \/ \E dec \in BOOLEAN : OutputRetry(b, dec, b.events)
          \/ \E events \in (SUBSET b.events) \ {{}, b.events} : OutputRetry(b, TRUE, events)
          \/ \E half \in SUBSET b.events : OutputSplit(b, half)
    BY <1>6, Zenon DEF OutputClients
  <2>2. b.events # {}
    BY PlacedIsLive, LiveBatch DEF IInv
  <2>3. CASE OutputFinish(b)
    BY <1>1, <2>3, OutputFinishKeeps
  <2>4. CASE \E dec \in BOOLEAN : OutputRetry(b, dec, b.events)
    BY <1>1, <2>2, <2>4, OutputRetryKeeps
  <2>5. CASE \E events \in (SUBSET b.events) \ {{}, b.events} : OutputRetry(b, TRUE, events)
    <3>1. PICK events \in (SUBSET b.events) \ {{}, b.events} : OutputRetry(b, TRUE, events)
      BY <2>5, Zenon
    <3>2. events \in SUBSET b.events /\ events # {}
      OBVIOUS
    <3>. QED  BY <1>1, <3>1, <3>2, OutputRetryKeeps, Zenon
  <2>6. CASE \E half \in SUBSET b.events : OutputSplit(b, half)
    BY <1>1, <2>6, OutputSplitKeeps
  <2>. QED  BY <2>1, <2>3, <2>4, <2>5, <2>6, Zenon
<1>7. CASE Controller
  <2>1. CASE CloseConsumer
    <3>1. /\ UNCHANGED <<queueBatch, readerBatch, retryBatches, inFlight, calls, queueVars,
                         doneVars, miscounted>>
          /\ done' = TRUE
      BY <2>1 DEF CloseConsumer, readerVars
    <3>2. Live' = Live
      BY <3>1 DEF Live
    <3>3. Once'
      BY <3>1 DEF IInv, Once, Queued, Read, RetrySet, CallSet, NextSet, CallsDistinct,
                  RetriesDistinct
    <3>4. Numbered'
      BY <3>1 DEF IInv, Numbered, queueVars, doneVars
    <3>5. Accounts(Live, queueBatches, outstanding, doneCount, finished, miscounted, TRUE)
      BY ShutdownKeeps, Zenon DEF IInv, Accounted, TypeOK
    <3>6. Accounted'
      BY <3>1, <3>2, <3>5, Zenon DEF Accounted, queueVars, doneVars
    <3>. QED  BY <3>3, <3>4, <3>6 DEF Kept
  <2>2. CASE SetPause \/ SetWorkers \/ SetResume \/ CloseQueue \/ CloseWorkers
    <3>1. UNCHANGED <<queueBatch, readerBatch, retryBatches, inFlight, calls, queueVars,
                      doneVars, miscounted, done>>
      BY <2>2, Zenon DEF SetPause, SetWorkers, SetResume, CloseQueue, CloseWorkers, consumerVars,
                  readerVars
    <3>. QED  BY <3>1, NothingMoves
  <2>. QED  BY <1>7, <2>1, <2>2 DEF Controller
<1>. QED  BY <1>2, <1>3, <1>4, <1>5, <1>6, <1>7 DEF Next

\* The batches are in order in every state of the pipeline.
LEMMA InductiveInvariant == Spec => []IInv
<1>1. Init => IInv
  BY InitIInv
<1>2. IInv /\ [Next]_vars => IInv'
  BY NextIInv
<1>. QED  BY <1>1, <1>2, PTL DEF Spec

\* Every variable of the consumer, the reader, the workers and the controller
\* keeps its type, for every workload and every set of output clients.
THEOREM ConsumerTypeCorrect == Spec => []TypeOK
<1>1. IInv => TypeOK
  BY DEF IInv
<1>. QED  BY <1>1, InductiveInvariant, PTL

\* ttlBatch calls the done function of a queue batch at most once, and only when
\* none of its events is on its way any more.
THEOREM DoneOnceAtTheEnd == Spec => []DoneIsFinal
<1>1. ASSUME IInv PROVE DoneIsFinal
  <2>1. Accounted
    BY <1>1 DEF IInv
  <2>. SUFFICES ASSUME NEW q \in Event
                PROVE  /\ doneCount[q] <= 1
                       /\ doneCount[q] = 1 =>
                            queueBatches[q] \subseteq finished /\ \A b \in Live : b.of # q
    BY DEF DoneIsFinal
  <2>2. doneCount[q] \in {0, 1}
    BY <2>1, Zenon DEF Accounted, Accounts, Closed
  <2>3. ASSUME doneCount[q] = 1 PROVE \A b \in Live : b.of # q
    BY <2>1, <2>3 DEF Accounted, Accounts, Sound
  <2>4. ASSUME doneCount[q] = 1, NEW e \in queueBatches[q] PROVE e \in finished
    <3>1. \/ e \in finished
          \/ \E b \in Live : b.of = q /\ e \in b.events
          \/ doneCount[q] = 0
      BY <2>1, Zenon DEF Accounted, Accounts, Closed
    <3>. QED  BY <2>3, <2>4, <3>1
  <2>. QED  BY <2>2, <2>3, <2>4
<1>. QED  BY <1>1, InductiveInvariant, PTL

\* Until the shutdown an event taken from the queue is finished or on its way,
\* and it is never on its way twice.
THEOREM NoEventLostOrDoubled == Spec => []NothingLost
<1>1. ASSUME IInv PROVE NothingLost
  <2>1. Accounted /\ Numbered /\ TypeOK
    BY <1>1 DEF IInv
  <2>2. ASSUME ~done, NEW e \in 1..(nextEvent - 1)
        PROVE  e \in finished \/ \E b \in Live : e \in b.events
    <3>1. PICK q \in Event : e \in queueBatches[q]
      BY <2>1 DEF Numbered
    <3>. QED  BY <2>1, <2>2, <3>1 DEF Accounted, Accounts, Closed
  <2>3. ASSUME NEW b \in Live
        PROVE  /\ b.events \cap finished = {}
               /\ \A c \in Live : b # c => b.events \cap c.events = {}
    BY <2>1 DEF Accounted, Accounts, Sound, Separate
  <2>. QED  BY <2>2, <2>3 DEF NothingLost
<1>. QED  BY <1>1, InductiveInvariant, PTL

\* A queue batch with nothing left on its way was reported done, unless one of
\* its fragments was split after it had lost events.
THEOREM NothingLeftIsDone == Spec => []FinishedIsDone
<1>1. ASSUME IInv PROVE FinishedIsDone
  <2>1. Accounted
    BY <1>1 DEF IInv
  <2>. SUFFICES ASSUME NEW q \in Event, queueBatches[q] # {}, ~done, \A b \in Live : b.of # q
                PROVE  doneCount[q] = 1 \/ q \in miscounted
    BY DEF FinishedIsDone
  <2>2. FragmentsOf(Live, q) = {}
    BY DEF FragmentsOf
  <2>. QED  BY <2>1, <2>2 DEF Accounted, Accounts, Closed
<1>. QED  BY <1>1, InductiveInvariant, PTL

\* reduceTTL never gives up an event published with GuaranteedSend.
THEOREM GuaranteedNeverExpires == Spec => []GuaranteedKept
<1>1. Init => GuaranteedKept
  BY DEF Init, GuaranteedKept
<1>2. ASSUME TypeOK, GuaranteedKept, [Next]_vars PROVE GuaranteedKept'
  <2>1. ASSUME NEW c \in calls, ConsumerRetry(c) PROVE GuaranteedKept'
    <3>1. expired' = expired \cup (c.batch.events \ Retried(c).events)
      BY <2>1 DEF ConsumerRetry, Retried
    <3>2. c.batch.events \cap Guaranteed \subseteq Retried(c).events
      BY <1>2, RetriedIs
    <3>. QED  BY <1>2, <3>1, <3>2 DEF GuaranteedKept
  <2>2. CASE UNCHANGED expired
    BY <1>2, <2>2 DEF GuaranteedKept
  <2>3. CASE Consumer
    BY <2>1, <2>2, <2>3, Zenon DEF Consumer, ConsumerSend, ConsumerRead, ConsumerStop, RetryAfterDone
  <2>4. CASE QueueReader \/ Workers
    BY <2>2, <2>4, Zenon DEF QueueReader, ReaderRequest, ReaderStop, ReaderGetNothing, ReaderGet,
                      Workers, WorkerConnect, PublishReturns, WorkerExit
  <2>5. CASE OutputClients
    BY <2>2, <2>5, Zenon DEF OutputClients, OutputFinish, OutputRetry, OutputSplit
  <2>6. CASE Controller
    BY <2>2, <2>6, Zenon DEF Controller, SetPause, SetWorkers, SetResume, CloseQueue, CloseConsumer,
                      CloseWorkers
  <2>7. CASE UNCHANGED vars
    BY <2>2, <2>7 DEF vars
  <2>. QED  BY <1>2, <2>3, <2>4, <2>5, <2>6, <2>7 DEF Next
<1>. QED  BY <1>1, <1>2, ConsumerTypeCorrect, PTL DEF Spec
=============================================================================
