-------------------------- MODULE MemQueueTheorems --------------------------
(* The steps of the reader and of ackLoop preserve the invariant; the      *)
(* theorems follow.                                                        *)
EXTENDS MemQueueProofs

\* The time given to each prover.
USE ZenonT(5), SMTT(20)

-----------------------------------------------------------------------------
(* The reader and ackLoop                                                  *)

\* The entries of a batch are in the slots of its positions in the log.
LEMMA BatchSlot ==
  ASSUME NEW b \in Batch, SameSlot(b), NEW i \in Nat
  PROVE  RawIndex(b, i) = (b.first + i) % Events /\ RawIndex(b, i) \in Slot
<1>1. b.start \in Nat /\ b.first \in Nat /\ Events \in Nat \ {0}
  BY MemQueueAssumption DEF Batch
<1>2. (b.start + i) % Events = (b.first + i) % Events
  BY <1>1, ModShift DEF SameSlot
<1>3. b.first + i \in Nat
  BY <1>1
<1>4. (b.first + i) % Events \in 0..(Events - 1)
  BY <1>1, <1>3, DivMod
<1>. QED  BY <1>2, <1>4 DEF RawIndex, Slot

\* The reader's copy of a batch and FreeEntries keep the invariant: only the
\* events of consumed entries are cleared.
LEMMA ReaderReceiveInv == IInv /\ ReaderReceive => IInv'
<1>. SUFFICES ASSUME IInv, ReaderReceive PROVE IInv'
  OBVIOUS
<1>. DEFINE r == response
            F == [i \in 1..r.count |-> buf[RawIndex(r, i - 1)].event]
<1>0. /\ reader = "waiting" /\ r # NoBatch
      /\ copied' = copied \o F
      /\ buf' = [s \in Slot |-> IF s \in BatchSlots(r)
                                THEN [buf[s] EXCEPT !.event = NoEvent] ELSE buf[s]]
      /\ held' = held \cup {r} /\ response' = NoBatch /\ reader' = "idle"
      /\ UNCHANGED <<bufPos, eventCount, consumedCount, consumedBatches, pendingGet,
                     closing, ctxDone, pushChan, prodVars, doneChan, pendingBatches,
                     ackPC, ackedBatches, ackedCount, callbacks, lastACK,
                     log, released, acked>>
  BY DEF ReaderReceive, ackVars
<1>1. /\ TypeOK /\ WindowInv /\ BatchInv /\ RingInv /\ Events \in Nat \ {0}
      /\ released \in Nat /\ ackedCount \in Nat /\ consumedCount \in Nat
      /\ eventCount \in Nat /\ Len(copied) \in Nat /\ Len(log) \in Nat
      /\ consumedCount <= eventCount /\ eventCount <= Events
  BY MemQueueAssumption, SeqLen DEF IInv, TypeOK
<1>w. /\ Len(log) = released + eventCount
      /\ released + ackedCount <= Len(copied)
      /\ ackPC \in {"select", "callbacks"} <=> ackedCount = 0
      /\ bufPos = released % Events
  BY <1>1 DEF WindowInv
<1>v. Len(log) = released + eventCount /\ released <= Len(copied)
  <2>1. Len(log) = released + eventCount /\ released + ackedCount <= Len(copied)
    BY <1>w
  <2>. QED  BY <1>1, <2>1
<1>2. /\ r \in Batch /\ r.count \in Nat \ {0} /\ r.first \in Nat
      /\ pendingGet = 0 /\ Outstanding # <<>> /\ r = Outstanding[Len(Outstanding)]
      /\ Len(copied) = r.first /\ Len(Outstanding) \in 1..Len(Outstanding)
      /\ End(r) = r.first + r.count
  <2>1. r \in Batch
    BY <1>0, <1>1 DEF TypeOK
  <2>2. /\ pendingGet = 0 /\ Outstanding # <<>> /\ r = Outstanding[Len(Outstanding)]
        /\ Len(copied) = r.first
    BY <1>0, <1>1 DEF BatchInv, ReaderInv
  <2>3. Len(Outstanding) \in 1..Len(Outstanding)
    BY <1>1, <2>2, OutstandingTyped, SeqEmpty
  <2>. QED  BY <2>1, <2>2, <2>3 DEF Batch, End
<1>3. SameSlot(r) /\ End(r) = released + consumedCount
  BY <1>1, <1>2 DEF BatchInv, SlotInv, ChainInv, Chain
<1>n. /\ Len(copied) \in Nat /\ Len(log) \in Nat /\ r.count \in Nat /\ r.first = Len(copied)
      /\ Len(copied) + r.count <= Len(log) /\ Len(log) <= Len(copied) + Events
      /\ Events \in Nat
  <2>1. Len(copied) + r.count = released + consumedCount
    BY <1>2, <1>3
  <2>. QED  BY <1>1, <1>2, <1>v, <2>1
<1>. HIDE DEF r
<1>4. ASSUME NEW i \in 1..r.count
      PROVE  /\ RawIndex(r, i - 1) = (Len(copied) + i - 1) % Events
             /\ RawIndex(r, i - 1) \in Slot
             /\ buf[RawIndex(r, i - 1)].event = log[Len(copied) + i]
             /\ Len(copied) + i \in 1..Len(log)
  <2>1. i - 1 \in Nat /\ Len(copied) + i - 1 = r.first + (i - 1)
    BY <1>1, <1>2
  <2>2. RawIndex(r, i - 1) = (r.first + (i - 1)) % Events /\ RawIndex(r, i - 1) \in Slot
    BY <1>2, <1>3, <2>1, BatchSlot
  <2>3. /\ r.first + (i - 1) \in Len(copied)..(Len(log) - 1)
        /\ r.first + (i - 1) + 1 = Len(copied) + i /\ Len(copied) + i \in 1..Len(log)
    BY <1>n
  <2>. QED  BY <1>1, <2>1, <2>2, <2>3 DEF RingInv
<1>5. F \in Seq(Event \cup {NoEvent}) /\ Len(F) = r.count
      /\ \A i \in 1..r.count : F[i] = log[Len(copied) + i]
  <2>1. \A i \in 1..r.count : F[i] = log[Len(copied) + i] /\ F[i] \in Event
    BY <1>1, <1>4, LogTyped, ZenonT(30)
  <2>2. F \in [1..r.count -> Event \cup {NoEvent}] /\ r.count \in Nat
    BY <1>2, <2>1, ZenonT(30)
  <2>. HIDE DEF F
  <2>. QED  BY <2>1, <2>2, FunIsSeq
<1>. HIDE DEF F
<1>6. /\ copied' \in Seq(Event \cup {NoEvent})
      /\ Len(copied') = Len(copied) + r.count
      /\ \A i \in 1..Len(copied) : copied'[i] = copied[i]
      /\ \A i \in 1..r.count : copied'[Len(copied) + i] = F[i]
  <2>1. copied \in Seq(Event \cup {NoEvent})
    BY <1>1 DEF TypeOK
  <2>2. /\ copied' \in Seq(Event \cup {NoEvent})
        /\ Len(copied') = Len(copied) + Len(F)
        /\ \A i \in 1..(Len(copied) + Len(F)) :
             copied'[i] = IF i <= Len(copied) THEN copied[i] ELSE F[i - Len(copied)]
    BY <1>0, <1>5, <2>1, SeqConcat
  <2>3. ASSUME NEW i \in 1..r.count PROVE copied'[Len(copied) + i] = F[i]
    <3>1. /\ Len(copied) + i \in 1..(Len(copied) + Len(F))
          /\ ~(Len(copied) + i <= Len(copied)) /\ (Len(copied) + i) - Len(copied) = i
      BY <1>1, <1>2, <1>5
    <3>. QED  BY <2>2, <3>1
  <2>4. ASSUME NEW i \in 1..Len(copied) PROVE copied'[i] = copied[i]
    <3>1. i \in 1..(Len(copied) + Len(F)) /\ i <= Len(copied)
      BY <1>5, <1>n
    <3>. QED  BY <2>2, <3>1
  <2>. QED  BY <1>5, <2>2, <2>3, <2>4
<1>7. Len(copied') = released + consumedCount /\ Len(copied') = End(r)
      /\ Len(copied') <= Len(log)
  BY <1>1, <1>2, <1>3, <1>6, <1>v
<1>8. CopiedInOrder'
  <2>. SUFFICES ASSUME NEW i \in 1..(Len(copied) + r.count)
                PROVE  copied'[i] = log[i]
    BY <1>0, <1>6, <1>7 DEF CopiedInOrder
  <2>1. CASE i \in 1..Len(copied)
    BY <1>6, <2>1 DEF IInv, CopiedInOrder
  <2>2. CASE i \notin 1..Len(copied)
    <3>1. i - Len(copied) \in 1..r.count /\ Len(copied) + (i - Len(copied)) = i
      BY <1>1, <1>2, <2>2
    <3>. QED  BY <1>5, <1>6, <3>1
  <2>. QED  BY <2>1, <2>2
<1>9. \A s \in Slot : /\ buf'[s].producer = buf[s].producer
                      /\ buf'[s].producerID = buf[s].producerID
                      /\ buf'[s] \in Entry
                      /\ s \notin BatchSlots(r) => buf'[s] = buf[s]
  BY <1>0, <1>1, MemQueueAssumption, ZenonT(30) DEF TypeOK, Entry
<1>10. TypeOK'
  <2>1. buf' \in [Slot -> Entry]
    BY <1>0, <1>9
  <2>. QED  BY <1>0, <1>1, <1>2, <1>6, <2>1 DEF TypeOK, prodVars
<1>11. WindowInv'
  <2>1. released + ackedCount <= Len(copied')
    <3>1. released + ackedCount <= Len(copied)
      BY <1>w
    <3>. QED  BY <1>1, <1>2, <1>6, <3>1
  <2>. QED  BY <1>0, <1>w, <2>1 DEF WindowInv
<1>12. BatchInv'
  <2>1. Outstanding' = Outstanding
    BY <1>0 DEF Outstanding
  <2>2. ChainInv' /\ SlotInv' /\ AckedBatchInv'
    BY <1>0, <1>1, <2>1 DEF BatchInv, ChainInv, SlotInv, AckedBatchInv, Chain, SameSlot, End
  <2>3. ReaderInv'
    BY <1>0, <1>2, <1>7 DEF ReaderInv
  <2>4. r \notin doneChan
    <3>. SUFFICES ASSUME r \in doneChan PROVE FALSE
      OBVIOUS
    <3>1. End(r) <= Len(copied)
      BY <1>1 DEF BatchInv, HolderInv
    <3>. QED  BY <1>1, <1>2, <3>1
  <2>5. ASSUME NEW b \in held' \cup doneChan'
        PROVE  /\ End(b) <= Len(copied')
               /\ \E i \in 1..Len(Outstanding) : b = Outstanding[i]
    <3>1. CASE b = r
      BY <1>1, <1>2, <1>7, <3>1
    <3>2. CASE b # r
      <4>1. b \in held \cup doneChan /\ b \in Batch
        BY <1>0, <1>1, <3>2 DEF TypeOK
      <4>2. /\ End(b) <= Len(copied) /\ End(b) \in Nat
            /\ \E i \in 1..Len(Outstanding) : b = Outstanding[i]
        BY <1>1, <4>1 DEF BatchInv, HolderInv, End, Batch
      <4>. QED  BY <1>1, <1>2, <1>6, <4>2
    <3>. QED  BY <3>1, <3>2
  <2>6. held' \cap doneChan' = {}
    BY <1>0, <1>1, <2>4 DEF BatchInv, HolderInv
  <2>7. HolderInv'
    BY <2>1, <2>5, <2>6 DEF HolderInv, End
  <2>. QED  BY <2>2, <2>3, <2>7 DEF BatchInv
<1>13. CollectedInv' /\ CollectedOnly' /\ CloseInv'
  BY <1>0 DEF IInv, CollectedInv, CollectedOnly, CloseInv, End
<1>14. RingInv'
  <2>. SUFFICES ASSUME NEW k \in Len(copied')..(Len(log) - 1)
                PROVE  buf'[k % Events].event = log[k + 1]
    BY <1>0, ZenonT(30) DEF RingInv
  <2>1. k \in Nat /\ k \in Len(copied)..(Len(log) - 1)
    BY <1>1, <1>2, <1>6
  <2>2. k % Events \in Slot
    BY <1>1, <2>1, DivMod, ZenonT(30) DEF Slot
  <2>3. ASSUME NEW i \in 0..(r.count - 1)
        PROVE  k % Events # RawIndex(r, i)
    <3>1. i \in Nat /\ r.first + i \in Nat /\ r.first + i < k /\ k < r.first + i + Events
      <4>1. k >= Len(copied) + r.count /\ k < Len(log)
        BY <1>6, <1>n
      <4>. QED  BY <1>n, <2>1, <4>1
    <3>2. RawIndex(r, i) = (r.first + i) % Events
      BY <1>2, <1>3, <3>1, BatchSlot
    <3>3. (r.first + i) % Events # k % Events
      BY <1>1, <2>1, <3>1, ModDistinct
    <3>. QED  BY <3>2, <3>3
  <2>4. k % Events \notin BatchSlots(r)
    BY <2>3 DEF BatchSlots
  <2>. QED  BY <1>1, <1>9, <2>1, <2>2, <2>4 DEF RingInv
<1>15. Notified' = Notified /\ Notified \in Nat
  BY <1>0, <1>1 DEF Notified
<1>16. NotifyInv'
  <2>1. \A k \in Notified..(Len(log) - 1) : k \in Nat /\ k % Events \in Slot
    <3>. SUFFICES ASSUME NEW k \in Notified..(Len(log) - 1)
                  PROVE  k \in Nat /\ k % Events \in Slot
      OBVIOUS
    <3>1. k \in Nat
      BY <1>1, <1>15
    <3>. QED  BY <1>1, <3>1, DivMod, ZenonT(30) DEF Slot
  <2>. QED  BY <1>0, <1>9, <1>15, <2>1 DEF IInv, NotifyInv
<1>17. AckInv' /\ ProducerOrder'
  BY <1>0, <1>15 DEF IInv, AckInv, ProducerOrder
<1>18. PushInv' /\ ProducerInv'
  BY <1>0, ProducerFrame DEF IInv
<1>. QED
  BY <1>8, <1>10, <1>11, <1>12, <1>13, <1>14, <1>16, <1>17, <1>18 DEF IInv

\* A Get answered with io.EOF keeps the invariant.
LEMMA ReaderEOFInv == IInv /\ ReaderEOF => IInv'
<1>. SUFFICES ASSUME IInv, ReaderEOF PROVE IInv'
  OBVIOUS
<1>. USE DEF ReaderEOF, runVars, ackVars, histVars
<1>1. TypeOK'
  BY DEF IInv, TypeOK, prodVars
<1>2. WindowInv' /\ CollectedInv' /\ CollectedOnly' /\ CloseInv'
  BY DEF IInv, WindowInv, CollectedInv, CollectedOnly, CloseInv, End
<1>3. BatchInv'
  <2>1. Outstanding' = Outstanding
    BY DEF Outstanding
  <2>2. ChainInv' /\ SlotInv' /\ AckedBatchInv' /\ HolderInv'
    BY <2>1 DEF IInv, BatchInv, ChainInv, SlotInv, AckedBatchInv, HolderInv, Chain,
                SameSlot, End
  <2>3. ReaderInv'
    BY <2>1 DEF IInv, BatchInv, ReaderInv
  <2>. QED  BY <2>2, <2>3 DEF BatchInv
<1>4. RingInv' /\ NotifyInv' /\ AckInv' /\ ProducerOrder' /\ CopiedInOrder'
  BY LogFrame DEF IInv
<1>5. PushInv' /\ ProducerInv'
  BY ProducerFrame DEF IInv
<1>. QED  BY <1>1, <1>2, <1>3, <1>4, <1>5 DEF IInv

\* batch.Done keeps the invariant.
LEMMA BatchDoneInv ==
  ASSUME IInv, NEW b \in held, BatchDone(b)
  PROVE  IInv'
<1>. USE DEF BatchDone, runVars, ackVars, histVars
<1>1. TypeOK'
  BY DEF IInv, TypeOK, prodVars
<1>2. WindowInv' /\ CollectedInv' /\ CollectedOnly' /\ CloseInv'
  BY DEF IInv, WindowInv, CollectedInv, CollectedOnly, CloseInv, End
<1>3. BatchInv'
  <2>1. Outstanding' = Outstanding
    BY DEF Outstanding
  <2>2. ChainInv' /\ SlotInv' /\ AckedBatchInv' /\ ReaderInv'
    BY <2>1 DEF IInv, BatchInv, ChainInv, SlotInv, AckedBatchInv, ReaderInv, Chain,
                SameSlot, End
  <2>3. HolderInv'
    BY <2>1 DEF IInv, BatchInv, HolderInv, End
  <2>. QED  BY <2>2, <2>3 DEF BatchInv
<1>4. RingInv' /\ NotifyInv' /\ AckInv' /\ ProducerOrder' /\ CopiedInOrder'
  BY LogFrame DEF IInv
<1>5. PushInv' /\ ProducerInv'
  BY ProducerFrame DEF IInv
<1>. QED  BY <1>1, <1>2, <1>3, <1>4, <1>5 DEF IInv

\* The hand-over of consumedBatches to ackLoop keeps the invariant.
LEMMA AckReceiveInv == IInv /\ AckReceive => IInv'
<1>. SUFFICES ASSUME IInv, AckReceive PROVE IInv'
  OBVIOUS
<1>. USE DEF AckReceive, readVars, histVars
<1>1. pendingBatches' \in Seq(Batch) /\ consumedBatches' \in Seq(Batch)
  BY SeqConcat DEF IInv, TypeOK
<1>2. TypeOK'
  BY <1>1 DEF IInv, TypeOK, prodVars
<1>3. Outstanding' = Outstanding
  BY <1>1, SeqConcatEmpty DEF Outstanding
<1>4. BatchInv'
  <2>1. ChainInv' /\ SlotInv' /\ AckedBatchInv' /\ HolderInv'
    BY <1>3 DEF IInv, BatchInv, ChainInv, SlotInv, AckedBatchInv, HolderInv, Chain,
                SameSlot, End
  <2>2. ReaderInv'
    BY <1>3 DEF IInv, BatchInv, ReaderInv
  <2>. QED  BY <2>1, <2>2 DEF BatchInv
<1>5. WindowInv' /\ CollectedInv' /\ CollectedOnly' /\ CloseInv'
  BY DEF IInv, WindowInv, CollectedInv, CollectedOnly, CloseInv, End
<1>6. RingInv' /\ NotifyInv' /\ AckInv' /\ ProducerOrder' /\ CopiedInOrder'
  BY LogFrame DEF IInv
<1>7. PushInv' /\ ProducerInv'
  BY ProducerFrame DEF IInv
<1>. QED  BY <1>2, <1>4, <1>5, <1>6, <1>7 DEF IInv

\* collectAcked, taking one more finished batch, keeps the invariant.
LEMMA CollectAckedInv == IInv /\ CollectAcked => IInv'
<1>. SUFFICES ASSUME IInv, CollectAcked PROVE IInv'
  OBVIOUS
<1>. DEFINE b == Head(pendingBatches)
            Q == Outstanding
<1>0. /\ ackPC \in {"select", "collect"} /\ ackPC' = "collect"
      /\ pendingBatches # <<>> /\ b \in doneChan
      /\ doneChan' = doneChan \ {b}
      /\ ackedBatches' = ackedBatches \cup {b}
      /\ ackedCount' = ackedCount + b.count
      /\ pendingBatches' = Tail(pendingBatches)
      /\ UNCHANGED <<buf, bufPos, eventCount, consumedCount, consumedBatches,
                     pendingGet, closing, ctxDone, pushChan, prodVars, reader,
                     response, held, callbacks, lastACK, log, released, copied, acked>>
  BY DEF CollectAcked, NextBatchDone, runVars, histVars
<1>1. /\ TypeOK /\ WindowInv /\ BatchInv
      /\ released \in Nat /\ ackedCount \in Nat /\ consumedCount \in Nat
      /\ Len(copied) \in Nat /\ Len(log) \in Nat
  BY SeqLen DEF IInv, TypeOK
<1>2. b \in Batch /\ b.count \in Nat \ {0} /\ b.first \in Nat /\ End(b) = b.first + b.count
  <2>1. b \in Batch
    BY <1>0, <1>1 DEF TypeOK
  <2>. QED  BY <2>1 DEF Batch, End
<1>. HIDE DEF b
<1>3. Q # <<>> /\ Q[1] = b /\ Outstanding' = Tail(Q)
  BY <1>0, <1>1, TailConcat DEF TypeOK, Outstanding, b
<1>4. /\ Q \in Seq(Batch) /\ Len(Q) \in Nat \ {0} /\ Len(Outstanding') = Len(Q) - 1
      /\ \A i \in 1..Len(Outstanding') : Outstanding'[i] = Q[i + 1]
      /\ 1 \in 1..Len(Q)
  <2>1. Q \in Seq(Batch) /\ Len(Q) \in Nat \ {0}
    BY <1>1, <1>3, OutstandingTyped, SeqEmpty
  <2>. QED  BY <1>3, <2>1, SeqHeadTail
<1>5. /\ Chain(Q, released + ackedCount, released + consumedCount)
      /\ b.first = released + ackedCount
      /\ End(b) = released + ackedCount'
      /\ released + ackedCount' \in Nat
  <2>1. Chain(Q, released + ackedCount, released + consumedCount)
    BY <1>1 DEF BatchInv, ChainInv
  <2>2. b.first = released + ackedCount
    BY <1>3, <2>1 DEF Chain
  <2>3. ackedCount' = ackedCount + b.count
    BY <1>0
  <2>. QED  BY <1>1, <1>2, <2>1, <2>2, <2>3
<1>6. End(b) <= Len(copied)
  BY <1>0, <1>1 DEF BatchInv, HolderInv
<1>7. TypeOK'
  <2>1. pendingBatches' \in Seq(Batch)
    BY <1>0, <1>1, SeqHeadTail DEF TypeOK
  <2>2. ackedCount' \in Nat
    BY <1>0, <1>1, <1>2
  <2>3. doneChan' \subseteq Batch /\ ackedBatches' \subseteq Batch
    BY <1>0, <1>1, <1>2 DEF TypeOK
  <2>. QED  BY <1>0, <1>1, <2>1, <2>2, <2>3 DEF TypeOK, prodVars
<1>8. WindowInv'
  <2>1. ackedCount' # 0 /\ released + ackedCount' <= Len(copied)
    BY <1>0, <1>1, <1>2, <1>5, <1>6
  <2>. QED  BY <1>0, <1>1, <2>1 DEF WindowInv
<1>9. ChainInv'
  <2>1. Chain(Tail(Q), End(Q[1]), released + consumedCount)
    <3>1. released + ackedCount \in Nat /\ released + consumedCount \in Nat
      BY <1>1
    <3>. QED  BY <1>3, <1>4, <1>5, <3>1, ChainTail
  <2>2. End(Q[1]) = released' + ackedCount' /\ released' + consumedCount' = released + consumedCount
    BY <1>0, <1>3, <1>5
  <2>. QED  BY <1>3, <2>1, <2>2, ZenonT(30) DEF ChainInv, Chain, End
<1>10. SlotInv'
  <2>. SUFFICES ASSUME NEW i \in 1..Len(Outstanding')
                PROVE  SameSlot(Outstanding'[i])
    BY DEF SlotInv, SameSlot
  <2>1. i + 1 \in 1..Len(Q) /\ Outstanding'[i] = Q[i + 1]
    BY <1>4
  <2>. QED  BY <1>1, <2>1 DEF BatchInv, SlotInv
<1>11. AckedBatchInv'
  <2>. SUFFICES ASSUME NEW c \in ackedBatches'
                PROVE  SameSlot(c) /\ released <= c.first /\ End(c) <= released + ackedCount'
    BY <1>0 DEF AckedBatchInv, SameSlot, End
  <2>1. CASE c = b
    <3>1. SameSlot(b)
      BY <1>1, <1>3, <1>4 DEF BatchInv, SlotInv
    <3>. QED  BY <1>1, <1>5, <2>1, <3>1
  <2>2. CASE c # b
    <3>1. c \in ackedBatches /\ End(c) \in Nat
      <4>1. c \in ackedBatches /\ c \in Batch
        BY <1>0, <1>1, <2>2 DEF TypeOK
      <4>. QED  BY <4>1 DEF End, Batch
    <3>2. SameSlot(c) /\ released <= c.first /\ End(c) <= released + ackedCount
      BY <1>1, <3>1 DEF BatchInv, AckedBatchInv
    <3>. QED  BY <1>0, <1>1, <1>2, <3>1, <3>2
  <2>. QED  BY <2>1, <2>2
<1>12. HolderInv'
  <2>1. held \cap doneChan = {} /\ b \notin held
    BY <1>0, <1>1 DEF BatchInv, HolderInv
  <2>2. ASSUME NEW c \in held' \cup doneChan'
        PROVE  /\ End(c) <= Len(copied)
               /\ \E i \in 1..Len(Outstanding') : c = Outstanding'[i]
    <3>1. c \in held \cup doneChan /\ c # b
      BY <1>0, <2>1
    <3>2. PICK i \in 1..Len(Q) : c = Q[i]
      BY <1>1, <3>1 DEF BatchInv, HolderInv
    <3>3. i - 1 \in 1..Len(Outstanding') /\ (i - 1) + 1 = i
      BY <1>3, <1>4, <3>1, <3>2
    <3>4. c = Outstanding'[i - 1]
      BY <1>4, <3>2, <3>3
    <3>. QED  BY <1>1, <3>1, <3>3, <3>4 DEF BatchInv, HolderInv
  <2>. QED  BY <1>0, <2>1, <2>2 DEF HolderInv, End
<1>13. ReaderInv'
  <2>1. ASSUME response # NoBatch
        PROVE  /\ Outstanding' # <<>>
               /\ response = Outstanding'[Len(Outstanding')]
    <3>1. response = Q[Len(Q)] /\ Len(copied) = response.first
      BY <1>1, <2>1 DEF BatchInv, ReaderInv
    <3>2. response # b
      BY <1>2, <1>6, <3>1
    <3>3. Len(Q) # 1
      BY <1>3, <3>1, <3>2
    <3>4. Len(Outstanding') \in 1..Len(Outstanding') /\ Len(Outstanding') + 1 = Len(Q)
      BY <1>4, <3>3
    <3>. QED  BY <1>4, <3>1, <3>4, SeqEmpty
  <2>. QED  BY <1>0, <1>1, <2>1 DEF BatchInv, ReaderInv
<1>14. CollectedInv'
  <2>. SUFFICES ASSUME NEW k \in Nat, released <= k, k < released + ackedCount'
                PROVE  \E c \in ackedBatches' : c.first <= k /\ k < End(c)
    BY <1>0 DEF CollectedInv, End
  <2>1. CASE released + ackedCount <= k
    <3>1. b.first <= k /\ k < End(b)
      BY <1>5, <2>1
    <3>. QED  BY <1>0, <3>1
  <2>2. CASE ~(released + ackedCount <= k)
    <3>1. k < released + ackedCount /\ ackedCount # 0
      BY <1>1, <2>2
    <3>2. ackPC = "collect"
      BY <1>0, <1>1, <3>1 DEF WindowInv
    <3>. QED  BY <1>0, <3>1, <3>2 DEF IInv, CollectedInv
  <2>. QED  BY <2>1, <2>2
<1>15. CollectedOnly' /\ CloseInv'
  BY <1>0 DEF IInv, CollectedOnly, CloseInv
<1>16. Notified' = Notified
  BY <1>0 DEF Notified
<1>17. RingInv' /\ NotifyInv' /\ ProducerOrder' /\ CopiedInOrder'
  BY <1>0, <1>16 DEF IInv, RingInv, NotifyInv, ProducerOrder, CopiedInOrder
<1>18. AckInv'
  BY <1>0, <1>16 DEF IInv, AckInv
<1>19. PushInv' /\ ProducerInv'
  BY <1>0, ProducerFrame DEF IInv
<1>. QED
  BY <1>7, <1>8, <1>9, <1>10, <1>11, <1>12, <1>13, <1>14, <1>15, <1>17, <1>18, <1>19
     DEF IInv, BatchInv

\* A producer callback run by processACK keeps the invariant.
LEMMA RunCallbackInv ==
  ASSUME IInv, NEW p \in AckProducers, RunCallback(p)
  PROVE  IInv'
<1>. USE DEF RunCallback, runVars, readVars
<1>1. TypeOK'
  BY DEF IInv, TypeOK, prodVars
<1>2. WindowInv' /\ CollectedInv' /\ CollectedOnly' /\ CloseInv'
  BY DEF IInv, WindowInv, CollectedInv, CollectedOnly, CloseInv, End
<1>3. BatchInv'
  <2>1. Outstanding' = Outstanding
    BY DEF Outstanding
  <2>2. ChainInv' /\ SlotInv' /\ AckedBatchInv' /\ HolderInv'
    BY <2>1 DEF IInv, BatchInv, ChainInv, SlotInv, AckedBatchInv, HolderInv, Chain,
                SameSlot, End
  <2>3. ReaderInv'
    BY <2>1 DEF IInv, BatchInv, ReaderInv
  <2>. QED  BY <2>2, <2>3 DEF BatchInv
<1>4. Notified' = Notified
  BY DEF Notified
<1>5. RingInv' /\ NotifyInv' /\ ProducerOrder' /\ CopiedInOrder'
  BY <1>4 DEF IInv, RingInv, NotifyInv, ProducerOrder, CopiedInOrder
<1>6. /\ \A q \in AckProducers : acked'[q] + callbacks'[q] = lastACK[q]
      /\ \A q \in AckProducers : acked'[q] <= lastACK[q]
  <2>1. \A q \in AckProducers : /\ acked[q] + callbacks[q] = lastACK[q]
                                /\ acked[q] \in Nat /\ callbacks[q] \in Nat
                                /\ lastACK[q] \in Nat
    BY DEF IInv, AckInv, TypeOK
  <2>2. \A q \in AckProducers : /\ acked'[q] = IF q = p THEN acked[p] + callbacks[p]
                                               ELSE acked[q]
                                /\ callbacks'[q] = IF q = p THEN 0 ELSE callbacks[q]
    BY DEF IInv, TypeOK
  <2>. HIDE DEF RunCallback
  <2>3. ASSUME NEW q \in AckProducers
        PROVE  acked'[q] + callbacks'[q] = lastACK[q] /\ acked'[q] <= lastACK[q]
    <3>1. CASE q = p
      BY <2>1, <2>2, <3>1
    <3>2. CASE q # p
      BY <2>1, <2>2, <3>2
    <3>. QED  BY <3>1, <3>2
  <2>. QED  BY <2>3, ZenonT(30)
<1>. HIDE DEF RunCallback
<1>7. AckInv'
  <2>1. \A k \in (released + 1)..Len(log) :
          log[k].from \in AckProducers => log[k].n > acked'[log[k].from]
    <3>. SUFFICES ASSUME NEW k \in (released + 1)..Len(log), log[k].from \in AckProducers
                  PROVE  log[k].n > acked'[log[k].from]
      OBVIOUS
    <3>1. Notified = released /\ released \in Nat /\ Len(log) \in Nat
      BY LogTyped DEF RunCallback, Notified, IInv, TypeOK
    <3>2. log[k].n > lastACK[log[k].from]
      BY <3>1, ZenonT(30) DEF IInv, AckInv
    <3>3. log[k].n \in Nat
      <4>1. k \in 1..Len(log) /\ TypeOK
        BY <3>1 DEF IInv
      <4>. QED  BY <4>1, LogTyped, ZenonT(30)
    <3>4. acked'[log[k].from] \in Nat /\ lastACK[log[k].from] \in Nat
      BY <1>1, ZenonT(30) DEF IInv, TypeOK
    <3>5. acked'[log[k].from] <= lastACK[log[k].from]
      BY <1>6
    <3>. QED  BY <3>2, <3>3, <3>4, <3>5
  <2>. QED  BY <1>4, <1>6, <2>1 DEF RunCallback, IInv, AckInv
<1>8. PushInv' /\ ProducerInv'
  BY ProducerFrame DEF RunCallback, IInv
<1>. QED  BY <1>1, <1>2, <1>3, <1>5, <1>7, <1>8 DEF IInv

\* The return of handleBatchSig to the select of ackLoop keeps the invariant.
LEMMA CallbacksDoneInv == IInv /\ CallbacksDone => IInv'
<1>. SUFFICES ASSUME IInv, CallbacksDone PROVE IInv'
  OBVIOUS
<1>. USE DEF CallbacksDone, runVars, readVars, histVars
<1>1. TypeOK'
  BY DEF IInv, TypeOK, prodVars
<1>2. WindowInv' /\ CollectedInv' /\ CollectedOnly' /\ CloseInv'
  BY DEF IInv, WindowInv, CollectedInv, CollectedOnly, CloseInv, End
<1>3. BatchInv'
  <2>1. Outstanding' = Outstanding
    BY DEF Outstanding
  <2>2. ChainInv' /\ SlotInv' /\ AckedBatchInv' /\ HolderInv'
    BY <2>1 DEF IInv, BatchInv, ChainInv, SlotInv, AckedBatchInv, HolderInv, Chain,
                SameSlot, End
  <2>3. ReaderInv'
    BY <2>1 DEF IInv, BatchInv, ReaderInv
  <2>. QED  BY <2>2, <2>3 DEF BatchInv
<1>4. Notified' = Notified
  BY DEF Notified
<1>5. RingInv' /\ NotifyInv' /\ ProducerOrder' /\ CopiedInOrder'
  BY <1>4 DEF IInv, RingInv, NotifyInv, ProducerOrder, CopiedInOrder
<1>6. AckInv'
  BY <1>4 DEF IInv, AckInv
<1>7. PushInv' /\ ProducerInv'
  BY ProducerFrame DEF IInv
<1>. QED  BY <1>1, <1>2, <1>3, <1>5, <1>6, <1>7 DEF IInv

\* The largest ID of a producer among the events being acknowledged, or its
\* old lastACK, is well defined.
LEMMA NewLastACKMax ==
  ASSUME TypeOK, NEW p \in AckProducers,
         NEW B \in Nat, AckedIDs(p) \subseteq 0..B
  PROVE  /\ NewLastACK(p) \in AckedIDs(p) \cup {lastACK[p]}
         /\ NewLastACK(p) \in Nat
         /\ NewLastACK(p) >= lastACK[p]
         /\ \A k \in AckedIDs(p) : k <= NewLastACK(p)
<1>. DEFINE ids == AckedIDs(p) \cup {lastACK[p]}
<1>1. lastACK[p] \in Nat
  BY DEF TypeOK
<1>2. ids \subseteq Nat /\ ids # {}
  BY <1>1
<1>3. PICK C \in Nat : \A k \in ids : k <= C
  <2>1. CASE B >= lastACK[p]
    BY <1>1, <2>1
  <2>2. CASE ~(B >= lastACK[p])
    BY <1>1, <2>2
  <2>. QED  BY <2>1, <2>2
<1>. HIDE DEF ids
<1>4. \E m \in ids : \A k \in ids : k <= m
  BY <1>2, <1>3, BoundedMax, ZenonT(30)
<1>5. /\ NewLastACK(p) \in ids
      /\ \A k \in ids : k <= NewLastACK(p)
  <2>1. NewLastACK(p) = CHOOSE m \in ids : \A k \in ids : k <= m
    BY DEF NewLastACK, ids
  <2>. QED  BY <1>4, <2>1
<1>. QED  BY <1>1, <1>2, <1>5 DEF ids

\* The ring slots of the batches being acknowledged.
AckedSlots == UNION {BatchSlots(b) : b \in ackedBatches}

\* They are the slots of the positions released .. released + ackedCount - 1,
\* and no later event is in one of them.
LEMMA AckedSlotsAre ==
  ASSUME IInv, ackPC = "collect"
  PROVE  /\ \A s \in AckedSlots :
              \E k \in Nat : released <= k /\ k < released + ackedCount /\ s = k % Events
         /\ \A k \in Nat : released <= k /\ k < released + ackedCount =>
              k % Events \in AckedSlots
         /\ \A k \in Nat : released + ackedCount <= k /\ k < Len(log) =>
              k % Events \notin AckedSlots
<1>1. /\ TypeOK /\ BatchInv /\ Events \in Nat \ {0} /\ released \in Nat
      /\ ackedCount \in Nat /\ eventCount \in Nat /\ eventCount <= Events
      /\ Len(log) = released + eventCount /\ CollectedInv
  BY MemQueueAssumption DEF IInv, TypeOK, WindowInv
<1>2. ASSUME NEW b \in ackedBatches
      PROVE  /\ b \in Batch /\ SameSlot(b) /\ b.first \in Nat /\ b.count \in Nat
             /\ released <= b.first /\ b.first + b.count <= released + ackedCount
  <2>1. b \in Batch
    BY <1>1 DEF TypeOK
  <2>2. SameSlot(b) /\ released <= b.first /\ End(b) <= released + ackedCount
    BY <1>1 DEF BatchInv, AckedBatchInv
  <2>. QED  BY <2>1, <2>2 DEF Batch, End
<1>3. ASSUME NEW s \in AckedSlots
      PROVE  \E k \in Nat : released <= k /\ k < released + ackedCount /\ s = k % Events
  <2>1. PICK b \in ackedBatches : s \in BatchSlots(b)
    BY DEF AckedSlots
  <2>2. /\ b \in Batch /\ SameSlot(b) /\ b.first \in Nat /\ b.count \in Nat
        /\ released <= b.first /\ b.first + b.count <= released + ackedCount
    BY <1>2
  <2>3. PICK i \in 0..(b.count - 1) : s = RawIndex(b, i)
    BY <2>1 DEF BatchSlots
  <2>4. i \in Nat /\ i < b.count
    BY <2>2
  <2>5. s = (b.first + i) % Events
    BY <2>2, <2>3, <2>4, BatchSlot
  <2>6. /\ b.first + i \in Nat /\ released <= b.first + i
        /\ b.first + i < released + ackedCount
    <3>. HIDE <2>3
    <3>. QED  BY <1>1, <2>2, <2>4
  <2>. QED  BY <2>5, <2>6
<1>4. ASSUME NEW k \in Nat, released <= k, k < released + ackedCount
      PROVE  k % Events \in AckedSlots
  <2>1. PICK b \in ackedBatches : b.first <= k /\ k < End(b)
    BY <1>1, <1>4 DEF CollectedInv
  <2>2. /\ b \in Batch /\ SameSlot(b) /\ b.first \in Nat /\ b.count \in Nat
    BY <1>2
  <2>3. k - b.first \in 0..(b.count - 1) /\ k - b.first \in Nat
        /\ b.first + (k - b.first) = k
    BY <2>1, <2>2 DEF End
  <2>4. RawIndex(b, k - b.first) = k % Events
    BY <2>2, <2>3, BatchSlot
  <2>. QED  BY <2>3, <2>4 DEF AckedSlots, BatchSlots
<1>5. ASSUME NEW k \in Nat, released + ackedCount <= k, k < Len(log)
      PROVE  k % Events \notin AckedSlots
  <2>1. ASSUME NEW j \in Nat, released <= j, j < released + ackedCount
        PROVE  j % Events # k % Events
    <3>1. j < k /\ k < j + Events
      BY <1>1, <1>5, <2>1
    <3>. QED  BY <1>1, <3>1, ModDistinct, ZenonT(30)
  <2>. QED  BY <1>3, <2>1
<1>. QED  BY <1>3, <1>4, <1>5

\* What AckedIDs reads from those slots is what the log says.
LEMMA AckedIDsAre ==
  ASSUME IInv, ackPC = "collect", NEW p \in AckProducers
  PROVE  /\ \A d \in AckedIDs(p) :
              \E k \in 1..Len(log) :
                /\ released < k /\ k <= released + ackedCount
                /\ log[k] = [from |-> p, n |-> d]
         /\ \A k \in 1..Len(log) :
              (released < k /\ k <= released + ackedCount /\ log[k].from = p)
                => log[k].n \in AckedIDs(p)
<1>1. /\ TypeOK /\ NotifyInv /\ released \in Nat /\ ackedCount \in Nat
      /\ Len(log) \in Nat /\ Notified = released /\ p # NoProducer
      /\ released + ackedCount <= Len(log)
  <2>1. TypeOK /\ NotifyInv /\ WindowInv /\ CopiedInOrder
    BY DEF IInv
  <2>2. released \in Nat /\ ackedCount \in Nat /\ Len(log) \in Nat /\ Len(copied) \in Nat
    BY <2>1, SeqLen DEF TypeOK
  <2>3. Notified = released /\ p # NoProducer
    BY <2>2, MemQueueAssumption DEF Notified, Producers
  <2>4. released + ackedCount <= Len(copied) /\ Len(copied) <= Len(log)
    BY <2>1 DEF WindowInv, CopiedInOrder
  <2>. QED  BY <2>1, <2>2, <2>3, <2>4
<1>2. ASSUME NEW k \in Nat, released <= k, k < released + ackedCount
      PROVE  /\ k + 1 \in 1..Len(log)
             /\ buf[k % Events].producer =
                  IF log[k + 1].from \in AckProducers THEN log[k + 1].from
                  ELSE NoProducer
             /\ log[k + 1].from \in AckProducers =>
                  buf[k % Events].producerID = log[k + 1].n
             /\ log[k + 1] = [from |-> log[k + 1].from, n |-> log[k + 1].n]
  <2>1. k + 1 \in 1..Len(log) /\ k \in Notified..(Len(log) - 1)
    BY <1>1, <1>2
  <2>. QED  BY <1>1, <2>1, LogTyped DEF NotifyInv
<1>3. ASSUME NEW d \in AckedIDs(p)
      PROVE  \E k \in 1..Len(log) :
               /\ released < k /\ k <= released + ackedCount
               /\ log[k] = [from |-> p, n |-> d]
  <2>1. PICK s \in AckedSlots : buf[s].producer = p /\ buf[s].producerID = d
    BY DEF AckedIDs, AckedSlots
  <2>2. PICK k \in Nat : released <= k /\ k < released + ackedCount /\ s = k % Events
    BY AckedSlotsAre
  <2>3. /\ k + 1 \in 1..Len(log)
        /\ log[k + 1].from = p /\ log[k + 1].n = d
        /\ log[k + 1] = [from |-> log[k + 1].from, n |-> log[k + 1].n]
    BY <1>1, <1>2, <2>1, <2>2
  <2>4. released < k + 1 /\ k + 1 <= released + ackedCount
    BY <1>1, <2>2
  <2>. QED  BY <2>3, <2>4
<1>4. ASSUME NEW k \in 1..Len(log), released < k, k <= released + ackedCount,
             log[k].from = p
      PROVE  log[k].n \in AckedIDs(p)
  <2>1. k - 1 \in Nat /\ released <= k - 1 /\ k - 1 < released + ackedCount
        /\ (k - 1) + 1 = k
    <3>1. released \in Nat /\ ackedCount \in Nat /\ k \in Int
      BY <1>1
    <3>. QED  BY <1>4, <3>1
  <2>2. (k - 1) % Events \in AckedSlots
    BY <2>1, AckedSlotsAre
  <2>3. buf[(k - 1) % Events].producer = p /\ buf[(k - 1) % Events].producerID = log[k].n
    BY <1>2, <1>4, <2>1, ZenonT(30)
  <2>. QED  BY <2>2, <2>3 DEF AckedIDs, AckedSlots
<1>. QED  BY <1>3, <1>4

\* lastACK moves exactly over the events being acknowledged.
LEMMA ProcessACKMoves ==
  ASSUME IInv, ackPC = "collect", NEW p \in AckProducers
  PROVE  /\ NewLastACK(p) \in Nat /\ NewLastACK(p) >= lastACK[p]
         /\ \/ NewLastACK(p) = lastACK[p]
            \/ \E k \in 1..Len(log) :
                 /\ k <= released + ackedCount
                 /\ log[k] = [from |-> p, n |-> NewLastACK(p)]
         /\ \A k \in 1..Len(log) :
              (k <= released + ackedCount /\ log[k].from = p)
                => log[k].n <= NewLastACK(p)
         /\ \A k \in 1..Len(log) :
              (released + ackedCount < k /\ log[k].from = p)
                => log[k].n > NewLastACK(p)
<1>. DEFINE m == NewLastACK(p)
<1>1. /\ TypeOK /\ released \in Nat /\ ackedCount \in Nat /\ Len(log) \in Nat
      /\ Notified = released /\ MaxPublish \in Nat /\ lastACK[p] \in Nat
  BY MemQueueAssumption, SeqLen DEF IInv, TypeOK, Notified
<1>2. AckedIDs(p) \subseteq 0..MaxPublish
  <2>. SUFFICES ASSUME NEW d \in AckedIDs(p) PROVE d \in 0..MaxPublish
    OBVIOUS
  <2>1. PICK k \in 1..Len(log) : log[k] = [from |-> p, n |-> d]
    BY AckedIDsAre
  <2>2. log[k] \in Event
    BY <1>1, LogTyped, ZenonT(30)
  <2>. QED  BY <1>1, <2>1, <2>2 DEF Event
<1>3. /\ m \in AckedIDs(p) \cup {lastACK[p]} /\ m \in Nat /\ m >= lastACK[p]
      /\ \A d \in AckedIDs(p) : d <= m
  BY <1>1, <1>2, NewLastACKMax
<1>. HIDE DEF m
<1>4. \/ m = lastACK[p]
      \/ \E k \in 1..Len(log) : /\ released < k /\ k <= released + ackedCount
                                /\ log[k] = [from |-> p, n |-> m]
  BY <1>3, AckedIDsAre
<1>5. ASSUME NEW k \in 1..Len(log), k <= released + ackedCount, log[k].from = p
      PROVE  log[k].n <= m
  <2>1. CASE k <= released
    <3>1. k \in 1..Notified /\ log[k].n \in Nat
      <4>1. k \in 1..released
        BY <1>1, <2>1
      <4>2. log[k].n \in Nat
        BY <1>1, LogTyped, ZenonT(30)
      <4>. QED  BY <1>1, <4>1, <4>2
    <3>2. log[k].n <= lastACK[p]
      BY <1>5, <3>1 DEF IInv, AckInv
    <3>. QED  BY <1>1, <1>3, <3>1, <3>2
  <2>2. CASE ~(k <= released)
    <3>1. released < k
      BY <1>1, <2>2
    <3>. QED  BY <1>3, <1>5, <3>1, AckedIDsAre, ZenonT(30)
  <2>. QED  BY <2>1, <2>2
<1>6. ASSUME NEW k \in 1..Len(log), released + ackedCount < k, log[k].from = p
      PROVE  log[k].n > m
  <2>1. CASE m = lastACK[p]
    <3>1. k \in (Notified + 1)..Len(log)
      BY <1>1, <1>6
    <3>. QED  BY <1>6, <2>1, <3>1 DEF IInv, AckInv
  <2>2. CASE m # lastACK[p]
    <3>1. PICK j \in 1..Len(log) : /\ j <= released + ackedCount
                                   /\ log[j] = [from |-> p, n |-> m]
      BY <1>4, <2>2
    <3>2. j < k
      BY <1>1, <1>6, <3>1
    <3>3. log[j].n < log[k].n
      BY <1>6, <3>1, <3>2 DEF IInv, ProducerOrder
    <3>4. log[k].n \in Nat
      BY <1>1, LogTyped, ZenonT(30)
    <3>. QED  BY <1>3, <3>1, <3>3, <3>4
  <2>. QED  BY <2>1, <2>2
<1>. QED  BY <1>3, <1>4, <1>5, <1>6 DEF m

\* processACK, condensing the callbacks by producerID, keeps the invariant.
LEMMA ProcessACKInv == IInv /\ ProcessACK => IInv'
<1>. SUFFICES ASSUME IInv, ProcessACK PROVE IInv'
  OBVIOUS
<1>0. /\ ackPC = "collect" /\ ackPC' = "delete" /\ ackedBatches' = {}
      /\ lastACK' = [p \in AckProducers |-> NewLastACK(p)]
      /\ callbacks' = [p \in AckProducers |-> NewLastACK(p) - lastACK[p]]
      /\ buf' = [s \in Slot |-> IF s \in AckedSlots
                                THEN [buf[s] EXCEPT !.producer = NoProducer] ELSE buf[s]]
      /\ UNCHANGED <<bufPos, eventCount, consumedCount, consumedBatches, pendingGet,
                     closing, ctxDone, pushChan, prodVars, reader, response, held,
                     doneChan, pendingBatches, ackedCount, log, released, copied, acked>>
  BY DEF ProcessACK, AckedSlots, readVars, histVars
<1>1. /\ TypeOK /\ released \in Nat /\ ackedCount \in Nat /\ Len(log) \in Nat
      /\ Len(copied) \in Nat /\ Events \in Nat \ {0} /\ Notified = released
      /\ Notified' = released + ackedCount /\ released + ackedCount <= Len(copied)
      /\ Len(copied) <= Len(log)
  <2>1. TypeOK /\ released + ackedCount <= Len(copied) /\ Len(copied) <= Len(log)
    BY DEF IInv, WindowInv, CopiedInOrder
  <2>2. /\ released \in Nat /\ ackedCount \in Nat /\ Len(log) \in Nat
        /\ Len(copied) \in Nat /\ Events \in Nat \ {0}
    BY <2>1, MemQueueAssumption, SeqLen DEF TypeOK
  <2>3. Notified = released /\ Notified' = released + ackedCount
    BY <1>0, <2>2 DEF Notified
  <2>. QED  BY <2>1, <2>2, <2>3
<1>2. \A p \in AckProducers :
        /\ lastACK'[p] = NewLastACK(p) /\ callbacks'[p] = NewLastACK(p) - lastACK[p]
        /\ NewLastACK(p) \in Nat /\ NewLastACK(p) >= lastACK[p] /\ lastACK[p] \in Nat
  BY <1>0, <1>1, ProcessACKMoves, ZenonT(30) DEF TypeOK
<1>3. \A s \in Slot : /\ buf'[s].event = buf[s].event
                      /\ buf'[s].producerID = buf[s].producerID
                      /\ buf'[s] \in Entry
                      /\ s \notin AckedSlots => buf'[s] = buf[s]
  BY <1>0, <1>1, ZenonT(30) DEF TypeOK, Entry
<1>4. TypeOK'
  <2>1. buf' \in [Slot -> Entry]
    BY <1>0, <1>3
  <2>2. lastACK' \in [AckProducers -> Nat] /\ callbacks' \in [AckProducers -> Nat]
    BY <1>0, <1>2
  <2>. QED  BY <1>0, <1>1, <2>1, <2>2 DEF TypeOK, prodVars
<1>5. WindowInv' /\ CollectedInv' /\ CollectedOnly' /\ CloseInv'
  BY <1>0 DEF IInv, WindowInv, CollectedInv, CollectedOnly, CloseInv
<1>6. BatchInv'
  <2>1. Outstanding' = Outstanding
    BY <1>0 DEF Outstanding
  <2>2. ChainInv' /\ SlotInv' /\ HolderInv'
    BY <1>0, <2>1 DEF IInv, BatchInv, ChainInv, SlotInv, HolderInv, Chain, SameSlot, End
  <2>3. AckedBatchInv'
    BY <1>0 DEF AckedBatchInv
  <2>4. ReaderInv'
    BY <1>0, <2>1 DEF IInv, BatchInv, ReaderInv
  <2>. QED  BY <2>2, <2>3, <2>4 DEF BatchInv
<1>7. ASSUME NEW k \in Nat PROVE k % Events \in Slot
  BY <1>1, DivMod DEF Slot
<1>8. RingInv'
  <2>. SUFFICES ASSUME NEW k \in Len(copied)..(Len(log) - 1)
                PROVE  buf'[k % Events].event = log[k + 1]
    BY <1>0 DEF RingInv
  <2>1. k \in Nat
    BY <1>1
  <2>. QED  BY <1>3, <1>7, <2>1 DEF IInv, RingInv
<1>9. NotifyInv'
  <2>1. ASSUME NEW k \in (released + ackedCount)..(Len(log) - 1)
        PROVE  buf'[k % Events] = buf[k % Events] /\ k \in Notified..(Len(log) - 1)
    <3>1. k \in Nat /\ released + ackedCount <= k /\ k < Len(log)
      BY <1>1
    <3>2. k % Events \notin AckedSlots
      BY <1>0, <3>1, AckedSlotsAre
    <3>3. k \in Notified..(Len(log) - 1)
      BY <1>1
    <3>. QED  BY <1>3, <1>7, <3>1, <3>2, <3>3
  <2>2. NotifyInv /\ log' = log /\ Notified' = released + ackedCount
    BY <1>0, <1>1 DEF IInv
  <2>. QED  BY <2>1, <2>2 DEF NotifyInv
<1>10. AckInv'
  <2>1. ASSUME NEW k \in 1..(released + ackedCount), log[k].from \in AckProducers
        PROVE  log[k].n <= lastACK'[log[k].from]
    <3>1. k \in 1..Len(log) /\ k <= released + ackedCount
      BY <1>1
    <3>. QED  BY <1>0, <1>2, <2>1, <3>1, ProcessACKMoves, ZenonT(30)
  <2>2. ASSUME NEW k \in (released + ackedCount + 1)..Len(log),
               log[k].from \in AckProducers
        PROVE  log[k].n > lastACK'[log[k].from]
    <3>1. k \in 1..Len(log) /\ released + ackedCount < k
      BY <1>1
    <3>. QED  BY <1>0, <1>2, <2>2, <3>1, ProcessACKMoves, ZenonT(30)
  <2>3. ASSUME NEW p \in AckProducers
        PROVE  acked[p] + callbacks'[p] = lastACK'[p]
    <3>1. callbacks[p] = 0 /\ acked[p] + callbacks[p] = lastACK[p] /\ acked[p] \in Nat
      BY <1>0, <1>1 DEF IInv, AckInv, TypeOK
    <3>2. lastACK'[p] = NewLastACK(p) /\ callbacks'[p] = NewLastACK(p) - lastACK[p]
          /\ NewLastACK(p) \in Nat /\ lastACK[p] \in Nat
      BY <1>2
    <3>. QED  BY <3>1, <3>2
  <2>4. ASSUME NEW p \in AckProducers
        PROVE  \/ lastACK'[p] = 0
               \/ \E k \in 1..Len(log) : log[k] = [from |-> p, n |-> lastACK'[p]]
    <3>1. \/ lastACK'[p] = lastACK[p]
          \/ \E k \in 1..Len(log) : log[k] = [from |-> p, n |-> lastACK'[p]]
      BY <1>0, <1>2, ProcessACKMoves
    <3>2. \/ lastACK[p] = 0
          \/ \E k \in 1..Len(log) : log[k] = [from |-> p, n |-> lastACK[p]]
      BY DEF IInv, AckInv
    <3>. QED  BY <3>1, <3>2
  <2>5. \A k \in (released + 1)..Len(log) :
          log[k].from \in AckProducers => log[k].n > acked[log[k].from]
    BY DEF IInv, AckInv
  <2>. QED  BY <1>0, <1>1, <2>1, <2>2, <2>3, <2>4, <2>5 DEF AckInv
<1>11. ProducerOrder' /\ CopiedInOrder'
  BY <1>0 DEF IInv, ProducerOrder, CopiedInOrder
<1>12. PushInv' /\ ProducerInv'
  BY <1>0, ProducerFrame DEF IInv
<1>. QED
  BY <1>4, <1>5, <1>6, <1>8, <1>9, <1>10, <1>11, <1>12 DEF IInv

-----------------------------------------------------------------------------
(* The theorems                                                            *)

\* Every step preserves the invariant.
LEMMA NextInv == IInv /\ [Next]_vars => IInv'
<1>. SUFFICES ASSUME IInv, [Next]_vars PROVE IInv'
  OBVIOUS
<1>1. ASSUME NEW p \in Producers, Publish(p) PROVE IInv'
  BY <1>1, PublishInv
<1>2. CASE HandleClose
  BY <1>2, HandleCloseInv
<1>3. CASE HandleInsert
  BY <1>3, HandleInsertInv
<1>4. CASE GetTimeout
  BY <1>4, GetTimeoutInv
<1>5. CASE HandleDelete
  BY <1>5, HandleDeleteInv
<1>6. ASSUME NEW n \in GetCounts, HandleGetRequest(n) PROVE IInv'
  BY <1>6, HandleGetRequestInv
<1>7. CASE ReaderReceive
  BY <1>7, ReaderReceiveInv
<1>8. CASE ReaderEOF
  BY <1>8, ReaderEOFInv
<1>9. ASSUME NEW b \in held, BatchDone(b) PROVE IInv'
  BY <1>9, BatchDoneInv
<1>10. CASE AckReceive
  BY <1>10, AckReceiveInv
<1>11. CASE CollectAcked
  BY <1>11, CollectAckedInv
<1>12. CASE ProcessACK
  BY <1>12, ProcessACKInv
<1>13. CASE CallbacksDone
  BY <1>13, CallbacksDoneInv
<1>14. ASSUME NEW p \in AckProducers, RunCallback(p) PROVE IInv'
  BY <1>14, RunCallbackInv
<1>15. CASE UNCHANGED vars
  <2>. USE <1>15 DEF vars
  <2>1. TypeOK'
    BY DEF IInv, TypeOK, runVars, prodVars, readVars, ackVars, histVars
  <2>2. QueueInv'
    BY QueueFrame DEF IInv, QueueInv
  <2>3. PushInv' /\ ProducerInv'
    BY ProducerFrame DEF IInv, runVars, histVars
  <2>. QED  BY <2>1, <2>2, <2>3 DEF IInv, QueueInv
<1>. QED
  BY <1>1, <1>2, <1>3, <1>4, <1>5, <1>6, <1>7, <1>8, <1>9, <1>10, <1>11, <1>12,
     <1>13, <1>14, <1>15 DEF Next, RunLoop, Reader, AckLoop

\* The invariant holds in every reachable state of the memory queue, for
\* every ring size, request size, channel size and set of producers.
THEOREM InductiveInvariant == Spec => []IInv
BY InitInv, NextInv, PTL DEF Spec

\* The variables keep their types; in particular runLoop's counters stay
\* ordered, 0 <= consumedCount <= eventCount <= Events.
THEOREM TypeCorrect == Spec => []TypeOK
<1>1. IInv => TypeOK
  BY DEF IInv
<1>. QED  BY <1>1, InductiveInvariant, PTL

\* The consumer is given the accepted events, in order, without gaps.
THEOREM CopiedInOrderHolds == Spec => []CopiedInOrder
<1>1. IInv => CopiedInOrder
  BY DEF IInv
<1>. QED  BY <1>1, InductiveInvariant, PTL

\* Producer IDs enter the queue in increasing order.
THEOREM ProducerOrderHolds == Spec => []ProducerOrder
<1>1. IInv => ProducerOrder
  BY DEF IInv
<1>. QED  BY <1>1, InductiveInvariant, PTL

\* Copies never run ahead of what runLoop has vended.
LEMMA CopiedBound ==
  ASSUME IInv
  PROVE  Len(copied) <= released + consumedCount
<1>1. /\ TypeOK /\ BatchInv /\ Len(copied) \in Nat /\ released \in Nat
      /\ consumedCount \in Nat
  BY SeqLen, MemQueueAssumption DEF IInv, TypeOK
<1>2. CASE response = NoBatch
  <2>1. Len(copied) = released + consumedCount
    BY <1>1, <1>2 DEF BatchInv, ReaderInv
  <2>. QED  BY <1>1, <2>1
<1>3. CASE response # NoBatch
  <2>1. /\ Outstanding # <<>> /\ response = Outstanding[Len(Outstanding)]
        /\ Len(copied) = response.first
    BY <1>1, <1>3 DEF BatchInv, ReaderInv
  <2>2. End(response) = released + consumedCount
    BY <1>1, <2>1 DEF BatchInv, ChainInv, Chain
  <2>3. response \in Batch
    BY <1>1, <1>3 DEF TypeOK
  <2>. QED  BY <2>1, <2>2, <2>3 DEF End, Batch
<1>. QED  BY <1>2, <1>3

\* insert never overwrites an unread event.
THEOREM UnreadEventsIntactHolds == Spec => []UnreadEventsIntact
<1>1. ASSUME IInv PROVE UnreadEventsIntact
  <2>. SUFFICES ASSUME NEW i \in consumedCount..(eventCount - 1)
                PROVE  buf[(bufPos + i) % Events].event = log[released + i + 1]
    BY DEF UnreadEventsIntact
  <2>1. /\ released \in Nat /\ consumedCount \in Nat /\ eventCount \in Nat
        /\ Len(copied) \in Nat /\ Len(log) \in Nat /\ Events \in Nat \ {0}
    BY <1>1, MemQueueAssumption, SeqLen DEF IInv, TypeOK
  <2>2. Len(log) = released + eventCount /\ bufPos = released % Events
    BY <1>1 DEF IInv, WindowInv
  <2>3. i \in Nat
    BY <2>1
  <2>4. ((released % Events) + i) % Events = (released + i) % Events
    BY <2>1, <2>3, ModAdd, ZenonT(30)
  <2>5. Len(copied) <= released + consumedCount
    BY <1>1, CopiedBound
  <2>6. released + i \in Len(copied)..(Len(log) - 1)
    <3>1. Len(log) = released + eventCount
      BY <2>2
    <3>. QED  BY <2>1, <2>3, <2>5, <3>1
  <2>7. buf[(released + i) % Events].event = log[(released + i) + 1]
    BY <1>1, <2>6 DEF IInv, RingInv
  <2>. QED  BY <2>2, <2>4, <2>7
<1>2. IInv => UnreadEventsIntact
  BY <1>1
<1>. QED  BY <1>2, InductiveInvariant, PTL

\* Events of a batch in flight stay in the ring.
THEOREM HeldIsNotReleasedHolds == Spec => []HeldIsNotReleased
<1>1. ASSUME IInv PROVE HeldIsNotReleased
  <2>. SUFFICES ASSUME NEW b \in held \cup ({response} \ {NoBatch})
                PROVE  b.first >= released
    BY DEF HeldIsNotReleased
  <2>1. TypeOK /\ BatchInv /\ released \in Nat /\ ackedCount \in Nat
    BY <1>1 DEF IInv, TypeOK
  <2>2. \E i \in 1..Len(Outstanding) : b = Outstanding[i]
    <3>1. CASE b \in held
      BY <2>1, <3>1 DEF BatchInv, HolderInv
    <3>2. CASE b = response /\ response # NoBatch
      <4>1. Outstanding # <<>> /\ response = Outstanding[Len(Outstanding)]
        BY <2>1, <3>2 DEF BatchInv, ReaderInv
      <4>2. Len(Outstanding) \in 1..Len(Outstanding)
        BY <2>1, <4>1, OutstandingTyped, SeqEmpty
      <4>. QED  BY <3>2, <4>1, <4>2
    <3>. QED  BY <3>1, <3>2
  <2>3. released + ackedCount <= b.first
    BY <2>1, <2>2 DEF BatchInv, ChainInv, Chain
  <2>4. b.first \in Nat
    BY <2>1, <2>2, OutstandingTyped DEF Batch
  <2>. QED  BY <2>1, <2>3, <2>4
<1>2. IInv => HeldIsNotReleased
  BY <1>1
<1>. QED  BY <1>2, InductiveInvariant, PTL

\* An acknowledged event has left the ring.
THEOREM AckedIsReleasedHolds == Spec => []AckedIsReleased
<1>1. ASSUME IInv PROVE AckedIsReleased
  <2>. SUFFICES ASSUME NEW k \in 1..Len(log), log[k].from \in AckProducers,
                       log[k].n <= acked[log[k].from]
                PROVE  k <= released
    BY DEF AckedIsReleased
  <2>1. TypeOK /\ released \in Nat /\ Len(log) \in Nat /\ acked[log[k].from] \in Nat
        /\ log[k].n \in Nat
    BY <1>1, LogTyped, ZenonT(30) DEF IInv, TypeOK
  <2>2. k \in (released + 1)..Len(log) => log[k].n > acked[log[k].from]
    BY <1>1 DEF IInv, AckInv
  <2>. QED  BY <2>1, <2>2
<1>2. IInv => AckedIsReleased
  BY <1>1
<1>. QED  BY <1>2, InductiveInvariant, PTL

\* Condensed callbacks lose no acknowledgement.
THEOREM ReleasedIsAckedHolds == Spec => []ReleasedIsAcked
<1>1. ASSUME IInv PROVE ReleasedIsAcked
  <2>. SUFFICES ASSUME ackPC = "select", NEW k \in 1..released,
                       log[k].from \in AckProducers
                PROVE  log[k].n <= acked[log[k].from]
    BY DEF ReleasedIsAcked
  <2>1. released \in Nat /\ acked[log[k].from] \in Nat
    BY <1>1 DEF IInv, TypeOK
  <2>2. Notified = released
    BY <2>1 DEF Notified
  <2>3. log[k].n <= lastACK[log[k].from]
    BY <1>1, <2>2 DEF IInv, AckInv
  <2>4. /\ acked[log[k].from] + callbacks[log[k].from] = lastACK[log[k].from]
        /\ callbacks[log[k].from] = 0
    BY <1>1 DEF IInv, AckInv
  <2>. QED  BY <2>1, <2>3, <2>4
<1>2. IInv => ReleasedIsAcked
  BY <1>1
<1>. QED  BY <1>2, InductiveInvariant, PTL

\* A Publish that returned true put its event in the queue.
THEOREM PublishedIsAcceptedHolds == Spec => []PublishedIsAccepted
<1>1. IInv => PublishedIsAccepted
  BY DEF IInv, ProducerInv, ProducedIsLogged, LogBound, PublishedIsAccepted
<1>. QED  BY <1>1, InductiveInvariant, PTL

-----------------------------------------------------------------------------
(* Refinement                                                              *)

\* Answering a Get hands out at least one and at most all unread events.
LEMMA ReplyReads ==
  ASSUME NEW n \in Nat \ {0}, NEW c \in Nat, consumedCount \in Nat, consumedCount < c,
         HandleGetReply(n, c)
  PROVE  consumedCount' \in (consumedCount + 1)..c
<1>1. consumedCount' = consumedCount + BatchSize(n, c - consumedCount)
  BY DEF HandleGetReply
<1>2. BatchSize(n, c - consumedCount) \in 1..(c - consumedCount)
  BY DEF BatchSize
<1>. QED  BY <1>1, <1>2

\* A step that changes nothing the interface shows.
LEMMA HiddenStep ==
  ASSUME UNCHANGED <<log, released, consumedCount, closing, ctxDone>>
  PROVE  UNCHANGED AbstractQueue!vars
BY DEF AbstractQueue!vars

\* A step that answers a Get.
LEMMA ReadStep ==
  ASSUME IInv, consumedCount' \in (consumedCount + 1)..eventCount,
         UNCHANGED <<log, released, closing, ctxDone>>
  PROVE  AbstractQueue!Read
<1>1. /\ released \in Nat /\ consumedCount \in Nat /\ eventCount \in Nat
      /\ Len(log) = released + eventCount
  BY MemQueueAssumption DEF IInv, TypeOK, WindowInv
<1>2. PICK c \in (consumedCount + 1)..eventCount : consumedCount' = c
  OBVIOUS
<1>3. released + c \in (released + consumedCount + 1)..Len(log)
  BY <1>1
<1>. QED  BY <1>2, <1>3 DEF AbstractQueue!Read

\* Each step of the memory queue is a step of the abstract queue or hidden.
LEMMA StepRefines == IInv /\ [Next]_vars => [AbstractQueue!Next]_(AbstractQueue!vars)
<1>. SUFFICES ASSUME IInv, [Next]_vars
              PROVE  AbstractQueue!Next \/ UNCHANGED AbstractQueue!vars
  OBVIOUS
<1>0. /\ TypeOK /\ WindowInv /\ BatchInv
      /\ released \in Nat /\ consumedCount \in Nat /\ eventCount \in Nat
      /\ ackedCount \in Nat /\ Events \in Nat /\ Len(log) = released + eventCount
      /\ consumedCount <= eventCount
  BY MemQueueAssumption DEF IInv, TypeOK, WindowInv
<1>1. ASSUME NEW p \in Producers, Publish(p) PROVE UNCHANGED AbstractQueue!vars
  BY <1>1, HiddenStep DEF Publish, PublishCall, PublishSend, PublishRejected,
     TryPublishSend, TryPublishRejected, PublishAnswered, PublishAborted,
     ProducerClose, runVars, histVars
<1>2. CASE HandleClose
  <2>1. /\ ~closing /\ closing' = TRUE /\ ctxDone' = ctxDone /\ log' = log
        /\ released' = released /\ MaybeUnblockGetRequest(eventCount, TRUE)
    BY <1>2 DEF HandleClose, histVars
  <2>2. consumedCount' \in consumedCount..eventCount
    <3>1. CASE consumedCount' = consumedCount
      BY <1>0, <3>1
    <3>2. CASE consumedCount' # consumedCount
      <4>1. pendingGet # 0 /\ HandleGetReply(pendingGet, eventCount)
        BY <2>1, <3>2, ZenonT(30) DEF MaybeUnblockGetRequest
      <4>2. pendingGet \in Nat \ {0} /\ consumedCount < eventCount
        BY <1>0, <4>1 DEF TypeOK, BatchInv, ReaderInv
      <4>3. consumedCount' \in (consumedCount + 1)..eventCount
        BY <1>0, <4>1, <4>2, ReplyReads
      <4>. QED  BY <1>0, <4>3
    <3>. QED  BY <3>1, <3>2
  <2>3. released' + consumedCount' \in (released + consumedCount)..Len(log)
    <3>1. PICK c \in consumedCount..eventCount : consumedCount' = c
      BY <2>2
    <3>2. released + c \in (released + consumedCount)..Len(log)
      BY <1>0
    <3>. QED  BY <2>1, <3>1, <3>2
  <2>. QED  BY <2>1, <2>3 DEF AbstractQueue!Next, AbstractQueue!Close
<1>3. CASE HandleInsert
  <2>1. /\ ~closing /\ closing' = closing /\ ctxDone' = ctxDone
        /\ pushChan # <<>> /\ eventCount < Events
        /\ log' = Append(log, Head(pushChan).event)
        /\ released' = released /\ MaybeUnblockGetRequest(eventCount + 1, closing)
    BY <1>3 DEF HandleInsert
  <2>2. Head(pushChan).event \in Event
    BY <2>1, HeadRequest
  <2>3. Len(log') = Len(log) + 1
    <3>1. log \in Seq(Event) /\ log' = Append(log, Head(pushChan).event)
      BY <1>0, <2>1 DEF TypeOK
    <3>. QED  BY <2>2, <3>1, SeqAppend
  <2>4. consumedCount' \in consumedCount..(eventCount + 1)
    <3>1. CASE consumedCount' = consumedCount
      BY <1>0, <3>1
    <3>2. CASE consumedCount' # consumedCount
      <4>1. pendingGet # 0 /\ HandleGetReply(pendingGet, eventCount + 1)
        BY <2>1, <3>2 DEF MaybeUnblockGetRequest
      <4>2. pendingGet \in Nat \ {0} /\ consumedCount < eventCount + 1
            /\ eventCount + 1 \in Nat
        BY <1>0, <4>1 DEF TypeOK
      <4>3. consumedCount' \in (consumedCount + 1)..(eventCount + 1)
        BY <1>0, <4>1, <4>2, ReplyReads
      <4>. QED  BY <1>0, <4>3
    <3>. QED  BY <3>1, <3>2
  <2>5. /\ released' + consumedCount' \in (released + consumedCount)..Len(log')
        /\ Len(log) - released < Events
    <3>1. PICK c \in consumedCount..(eventCount + 1) : consumedCount' = c
      BY <2>4
    <3>2. released + c \in (released + consumedCount)..(Len(log) + 1)
      BY <1>0
    <3>3. eventCount < Events
      BY <2>1
    <3>4. Len(log) - released < Events
      BY <1>0, <3>3
    <3>. QED  BY <2>1, <2>3, <3>1, <3>2, <3>4
  <2>6. AbstractQueue!Accept(Head(pushChan).event)
    BY <2>1, <2>5 DEF AbstractQueue!Accept
  <2>. QED  BY <2>2, <2>6 DEF AbstractQueue!Next
<1>4. CASE GetTimeout
  <2>1. /\ pendingGet # 0 /\ HandleGetReply(pendingGet, eventCount)
        /\ UNCHANGED <<log, released, closing, ctxDone>>
    BY <1>4 DEF GetTimeout, histVars
  <2>2. pendingGet \in Nat \ {0} /\ consumedCount < eventCount
    BY <1>0, <2>1 DEF TypeOK, BatchInv, ReaderInv
  <2>3. consumedCount' \in (consumedCount + 1)..eventCount
    BY <1>0, <2>1, <2>2, ReplyReads
  <2>. QED  BY <2>1, <2>3, ReadStep DEF AbstractQueue!Next
<1>5. CASE HandleDelete
  <2>1. /\ ackPC = "delete" /\ eventCount' = eventCount - ackedCount
        /\ consumedCount' = consumedCount - ackedCount
        /\ released' = released + ackedCount
        /\ log' = log /\ closing' = closing
    BY <1>5 DEF HandleDelete
  <2>2. ackedCount # 0
    BY <1>0, <2>1 DEF WindowInv
  <2>3. ackedCount <= consumedCount
    <3>1. released + ackedCount <= Len(copied) /\ Len(copied) <= released + consumedCount
      BY <1>0, CopiedBound DEF WindowInv
    <3>2. Len(copied) \in Nat
      BY <1>0, SeqLen DEF TypeOK
    <3>. QED  BY <1>0, <3>1, <3>2
  <2>4. /\ released' \in (released + 1)..(released + consumedCount)
        /\ released' + consumedCount' = released + consumedCount
        /\ (eventCount' = 0 <=> released' = Len(log))
    BY <1>0, <2>1, <2>2, <2>3
  <2>5. ctxDone' = (closing /\ eventCount' = 0)
    BY <1>5 DEF HandleDelete
  <2>6. ctxDone' = (closing /\ released' = Len(log))
    BY <2>4, <2>5
  <2>. QED  BY <2>1, <2>4, <2>6 DEF AbstractQueue!Next, AbstractQueue!Release
<1>6. ASSUME NEW n \in GetCounts, HandleGetRequest(n)
      PROVE  AbstractQueue!Next \/ UNCHANGED AbstractQueue!vars
  <2>1. UNCHANGED <<log, released, closing, ctxDone>> /\ consumedCount < eventCount
    BY <1>0, <1>6 DEF HandleGetRequest, histVars
  <2>2. CASE GetRequestShouldBlock(GetEntryCount(n), eventCount, closing)
    BY <1>6, <2>1, <2>2, HiddenStep DEF HandleGetRequest
  <2>3. CASE ~GetRequestShouldBlock(GetEntryCount(n), eventCount, closing)
    <3>1. HandleGetReply(GetEntryCount(n), eventCount)
      BY <1>6, <2>3 DEF HandleGetRequest
    <3>2. GetEntryCount(n) \in Nat \ {0}
      BY EntryCountRange, MemQueueAssumption
    <3>3. consumedCount' \in (consumedCount + 1)..eventCount
      BY <1>0, <2>1, <3>1, <3>2, ReplyReads
    <3>. QED  BY <2>1, <3>3, ReadStep DEF AbstractQueue!Next
  <2>. QED  BY <2>2, <2>3
<1>7. CASE ReaderReceive \/ ReaderEOF
  BY <1>7, HiddenStep DEF ReaderReceive, ReaderEOF, runVars, histVars
<1>8. ASSUME NEW b \in held, BatchDone(b) PROVE UNCHANGED AbstractQueue!vars
  BY <1>8, HiddenStep DEF BatchDone, runVars, histVars
<1>9. CASE AckReceive \/ CollectAcked \/ ProcessACK \/ CallbacksDone
  BY <1>9, HiddenStep DEF AckReceive, CollectAcked, ProcessACK, CallbacksDone,
     runVars, histVars
<1>10. ASSUME NEW p \in AckProducers, RunCallback(p) PROVE UNCHANGED AbstractQueue!vars
  BY <1>10, HiddenStep DEF RunCallback, runVars
<1>11. CASE UNCHANGED vars
  BY <1>11, HiddenStep DEF vars, runVars, histVars
<1>. QED
  BY <1>1, <1>2, <1>3, <1>4, <1>5, <1>6, <1>7, <1>8, <1>9, <1>10, <1>11
     DEF Next, RunLoop, Reader, AckLoop

\* The memory queue implements the queue interface: bounded, first in first
\* out, released only after it was read, finished only when drained.
THEOREM Refinement == Spec => ImplementsQueue
<1>1. Init => AbstractQueue!Init
  BY DEF Init, AbstractQueue!Init
<1>. QED
  BY <1>1, StepRefines, InductiveInvariant, PTL DEF Spec, ImplementsQueue, AbstractQueue!Spec

=============================================================================
