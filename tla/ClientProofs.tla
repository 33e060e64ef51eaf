---------------------------- MODULE ClientProofs ----------------------------
(***************************************************************************)
(* What is proved of a pipeline client: its acknowledgement list never     *)
(* panics, the input is told of an event once and when it is finished, and *)
(* a Close that was not hurried returns after the acknowledgements.        *)
(*                                                                         *)
(* The inductive invariant has a part for each of the counters and lists   *)
(* that must agree.  The one about the list of gaps speaks of the totals   *)
(* of the gaps, which are given by two functions that exist in every       *)
(* state, since they cannot be defined by recursion here.                  *)
(***************************************************************************)
EXTENDS Client, DataLemmas

\* The time given to each prover.
USE ZenonT(5), SMTT(20)

Finished == acked \cup filtered \cup failed

\* What the acknowledgement loop has to account for, and what it counted so far.
Counting == IF ack \in {"closing?", "signal", "acker", "list"} THEN ackCount ELSE 0
Counted == IF ack = "list" THEN ackTotal ELSE 0

\* The event that is being published, at its stages.
Fresh == pub \in {"process", "remember"}
Undecided == pub \in {"process", "remember", "track", "push"}
Coming == IF pub \in {"remember", "track", "push"} /\ event \notin filtered THEN 1 ELSE 0
Untracked == IF pub \in {"track", "take"} THEN 1 ELSE 0
Pushing == IF pub = "push" THEN 1 ELSE 0

Distinct(s) == \A i, j \in 1..Len(s) : s[i] = s[j] => i = j
Apart(s, t) == \A i \in 1..Len(s), j \in 1..Len(t) : s[i] # t[j]
Upto(s, n) == \A i \in 1..Len(s) : s[i] <= n

\* The counter of the close waiter covers what is in the queue or comes to it, and the
\* signal is given and received only when what was accepted is acknowledged.
WaiterInv ==
  /\ Len(inQueue) + Coming <= waiterEvents
  /\ acceptedAtClose \subseteq Accepted
  /\ closing <=> closer \in {"load", "wait", "producer", "closed"}
  /\ ~closing => ~signalAll /\ ack # "signal"
  /\ closer \in {"idle", "signal", "load"} => waiterRoutine = "none"
  /\ closer \in {"producer", "closed"} => waiterRoutine = "done"
  /\ (/\ closing /\ ~racing
      /\ \/ ack \in {"closing?", "signal"} \/ signalAll
         \/ waiterRoutine = "done" /\ ~timedOut)
       => acceptedAtClose \subseteq acked

\* Every published event is counted by the wait group until it is reported, and has at
\* most one place in the lists of data.
CountInv ==
  /\ wg + Len(reported) = event
  /\ Len(reported) + Len(pubData) + Len(ackData) + Len(data)
       + (IF Fresh THEN 1 ELSE 0) <= event
  /\ pub # "report" => Len(pubData) = 0
  /\ ack # "report" => Len(ackData) = 0

\* The queue is in order, and an event that is not in it is finished, but for the one that
\* is being published.
Decided == IF Undecided THEN event - 1 ELSE event
Queued(e) == \E i \in 1..Len(inQueue) : inQueue[i] = e
QueueInv ==
  /\ \A i, j \in 1..Len(inQueue) : i < j => inQueue[i] < inQueue[j]
  /\ Upto(inQueue, Decided)
  /\ \A e \in 1..Decided : e \in Finished \/ Queued(e)
  /\ pub # "idle" => event \in Event
  /\ pub = "take" => event \in filtered
  /\ pub = "push" => event \notin filtered

\* No event is twice in the lists of data, and those out of eventDataACKer are finished.
Known == IF Fresh THEN event - 1 ELSE event
Listed(s) == Distinct(s) /\ Upto(s, Known)
DataInv ==
  /\ Listed(reported) /\ Listed(pubData) /\ Listed(ackData) /\ Listed(data)
  /\ Apart(reported, pubData) /\ Apart(reported, ackData) /\ Apart(reported, data)
  /\ Apart(pubData, ackData) /\ Apart(pubData, data) /\ Apart(ackData, data)
ToldInv ==
  /\ \A i \in 1..Len(reported) : reported[i] \in Finished
  /\ \A i \in 1..Len(pubData) : pubData[i] \in Finished
  /\ \A i \in 1..Len(ackData) : ackData[i] \in Finished
  /\ \A i \in 1..Counted : i <= Len(data) => data[i] \in Finished

\* A gap without sends is the only one and has no drops, and the loop that takes the last
\* gap has nothing left to account for.
GapsInv ==
  /\ \A i \in 1..Len(gaps) : gaps[i].send = 0 => Len(gaps) = 1 /\ gaps[i].dropped = 0
  /\ pub = "take" => gaps[1].send = 0
  /\ ack = "list" /\ ackEmpty => ackCount = 0
  /\ ack \in {"closing?", "signal", "acker"} => ackTotal = 0 /\ ~ackEmpty
  /\ pub \in {"track", "take"} => data # <<>> /\ data[Len(data)] = event

\* S and T are totals of the sends, and of sends and drops, up to each gap.
Mono(F, n) == \A i, j \in 0..n : i <= j => F[i] <= F[j]
Sums(S, T) ==
  /\ \A i \in 1..Len(gaps) : /\ S[i] = S[i - 1] + gaps[i].send
                             /\ T[i] = T[i - 1] + gaps[i].send + gaps[i].dropped
  /\ Mono(S, Len(gaps)) /\ Mono(T, Len(gaps))

\* The place of the j-th of gap i by the totals F, and the datum at that place.
Rank(F, i, j) == (F[i - 1] + j) - F[0]
Datum(T, i, j) == data[Counted + Rank(T, i, j)]

\* The data are those counted, those of the gaps and the one being added; the sends of the
\* gaps cover what is acknowledged, queued and pushed.
CoverInv(S, T) ==
  /\ Len(data) = (Counted + T[Len(gaps)] + Untracked) - T[0]
  /\ attached => Counting + Len(inQueue) + Pushing + S[0] <= S[Len(gaps)]
  /\ ack = "list" => Counting + S[0] <= S[Len(gaps)]

\* The sends of the gaps are finished as far as the loop is to account for them, and the
\* m-th after those was published no later than the m-th event of the queue; what the gaps
\* have as dropped was filtered out.
Sent(k, d) ==
  /\ (attached \/ ack = "list") /\ k <= Counting => d \in Finished
  /\ attached => \A m \in 1..Len(inQueue) : k = Counting + m => d <= inQueue[m]
OrderInv(S, T) ==
  \A i \in 1..Len(gaps) :
    /\ \A j \in 1..gaps[i].send : Sent(Rank(S, i, j), Datum(T, i, j))
    /\ \A j \in (gaps[i].send + 1)..(gaps[i].send + gaps[i].dropped) :
         Datum(T, i, j) \in filtered

ListInv ==
  \E S, T \in [0..Len(gaps) -> Int] : Sums(S, T) /\ CoverInv(S, T) /\ OrderInv(S, T)

\* The inductive invariant.
IInv ==
  /\ TypeOK /\ WaiterInv /\ CountInv /\ QueueInv /\ DataInv /\ ToldInv /\ GapsInv
  /\ ListInv

-----------------------------------------------------------------------------
(* Types and frames                                                        *)

\* The types of the sequences of the client.
LEMMA Types ==
  ASSUME TypeOK
  PROVE  /\ pubData \in Seq(Event) /\ ackData \in Seq(Event) /\ data \in Seq(Event)
         /\ inQueue \in Seq(Event) /\ reported \in Seq(Event) /\ gaps \in Seq(Gap)
         /\ Len(pubData) \in Nat /\ Len(ackData) \in Nat /\ Len(data) \in Nat
         /\ Len(inQueue) \in Nat /\ Len(reported) \in Nat /\ Len(gaps) \in Nat \ {0}
         /\ 1 \in 1..Len(gaps) /\ Len(gaps) \in 1..Len(gaps)
         /\ \A i \in 1..Len(gaps) : /\ gaps[i] = [send |-> gaps[i].send,
                                                  dropped |-> gaps[i].dropped]
                                    /\ gaps[i].send \in Nat /\ gaps[i].dropped \in Nat
<1>1. /\ pubData \in Seq(Event) /\ ackData \in Seq(Event) /\ data \in Seq(Event)
      /\ inQueue \in Seq(Event) /\ reported \in Seq(Event) /\ gaps \in Seq(Gap) /\ gaps # <<>>
  BY DEF TypeOK
<1>2. \A i \in 1..Len(gaps) : gaps[i] \in Gap
  BY <1>1, SeqElem
<1>3. Len(gaps) \in Nat /\ Len(gaps) # 0
  BY <1>1, SeqEmpty
<1>4. 1 \in 1..Len(gaps) /\ Len(gaps) \in 1..Len(gaps)
  BY <1>3
<1>. QED  BY <1>1, <1>2, <1>3, <1>4, SeqLen DEF Gap

\* The events of the queue are the acknowledged ones and the others before and after an
\* acknowledgement.
LEMMA AckEventsFacts ==
  ASSUME TypeOK, NEW n \in 1..MaxEvents, AckEvents(n)
  PROVE  /\ n \in 1..Len(inQueue) /\ n \in Nat
         /\ inQueue' \in Seq(Event) /\ Len(inQueue') = Len(inQueue) - n
         /\ \A i \in 1..Len(inQueue') : inQueue'[i] = inQueue[i + n]
         /\ acked' = acked \cup {inQueue[i] : i \in 1..n}
         /\ acked' \subseteq Event
         /\ Accepted' = Accepted
<1>1. n \in 1..Len(inQueue) /\ n \in Nat /\ Len(inQueue) \in Nat /\ inQueue \in Seq(Event)
  BY Types, ClientAssumption DEF AckEvents
<1>2. inQueue' = SubSeq(inQueue, n + 1, Len(inQueue))
      /\ acked' = acked \cup {inQueue[i] : i \in 1..n}
  BY DEF AckEvents
<1>3. /\ inQueue' \in Seq(Event) /\ Len(inQueue') = Len(inQueue) - n
      /\ \A i \in 1..Len(inQueue') : inQueue'[i] = inQueue[i + n]
  BY <1>1, <1>2
<1>4. acked' \subseteq Event
  <2>1. \A i \in 1..n : inQueue[i] \in Event
    BY <1>1, SeqElem
  <2>. QED  BY <1>2, <2>1 DEF TypeOK
<1>5. \A i \in 1..Len(inQueue) : i \in 1..n \/ (i - n \in 1..Len(inQueue') /\ inQueue'[i - n] = inQueue[i])
  BY <1>1, <1>3
<1>6. \A i \in 1..Len(inQueue') : i + n \in 1..Len(inQueue)
  BY <1>1, <1>3
<1>7. \A i \in 1..n : i \in 1..Len(inQueue)
  BY <1>1
<1>8. Accepted' \subseteq Accepted
  <2>1. ASSUME NEW i \in 1..Len(inQueue') PROVE inQueue'[i] \in Accepted
    BY <1>3, <1>6 DEF Accepted
  <2>2. ASSUME NEW i \in 1..n PROVE inQueue[i] \in Accepted
    BY <1>7 DEF Accepted
  <2>. QED  BY <1>2, <2>1, <2>2 DEF Accepted
<1>9. Accepted \subseteq Accepted'
  <2>1. ASSUME NEW i \in 1..Len(inQueue) PROVE inQueue[i] \in Accepted'
    <3>1. CASE i \in 1..n
      BY <1>2, <3>1 DEF Accepted
    <3>2. CASE i - n \in 1..Len(inQueue') /\ inQueue'[i - n] = inQueue[i]
      BY <3>2, Zenon DEF Accepted
    <3>. QED  BY <1>5, <3>1, <3>2
  <2>. QED  BY <1>2, <2>1 DEF Accepted
<1>. QED  BY <1>1, <1>2, <1>3, <1>4, <1>8, <1>9

-----------------------------------------------------------------------------
(* The close waiter                                                        *)

\* What the waiter sees changes only in the steps below.
LEMMA WaiterFrame ==
  ASSUME WaiterInv, Coming' <= Coming, Coming \in Nat, Coming' \in Nat,
         UNCHANGED <<inQueue, waiterEvents, acked, closeVars, closing, signalAll,
                     waiterRoutine, timedOut>>,
         waiterEvents \in Nat, Len(inQueue) \in Nat,
         ack' \in {"closing?", "signal"} => ack \in {"closing?", "signal"},
         ack' = "signal" => closing
  PROVE  WaiterInv'
BY DEF WaiterInv, Accepted, closeVars

\* Every step of the client keeps the invariant of the close waiter.
LEMMA WaiterStep ==
  ASSUME TypeOK, WaiterInv, QueueInv, [Next]_vars
  PROVE  WaiterInv'
<1>. USE DEF closeVars, pubVars, ackVars, waiterVars, listVars, clientOnlyVars, queueVars, endVars
<1>0. /\ Coming \in {0, 1} /\ Coming' \in {0, 1} /\ waiterEvents \in Nat /\ Len(inQueue) \in Nat
      /\ inQueue \in Seq(Event)
  BY Types DEF Coming, TypeOK
<1>1. CASE PublishBegin
  BY <1>0, <1>1, WaiterFrame DEF PublishBegin, Coming, WaiterInv
<1>2. ASSUME NEW keep \in BOOLEAN, Process(keep) PROVE WaiterInv'
  <2>1. Len(inQueue) + Coming' <= waiterEvents'
    BY <1>0, <1>2 DEF Process, Coming, WaiterInv
  <2>. QED  BY <1>2, <2>1 DEF Process, WaiterInv, Accepted
<1>3. CASE Remember \/ Track \/ PublisherTake \/ PublisherReport
  <2>1. Coming' <= Coming
    BY <1>0, <1>3 DEF Remember, Track, PublisherTake, PublisherReport, Coming, AfterAddEvent
  <2>. QED  BY <1>0, <1>3, <2>1, WaiterFrame
            DEF Remember, Track, PublisherTake, PublisherReport, WaiterInv
<1>4. CASE PushAccepted
  <2>1. /\ Len(inQueue') = Len(inQueue) + 1 /\ Accepted \subseteq Accepted'
    <3>1. inQueue' = Append(inQueue, event) /\ event \in Event
      BY <1>4 DEF PushAccepted, QueueInv
    <3>. QED  BY <1>0, <1>4, <3>1 DEF PushAccepted, Accepted
  <2>2. Coming' = 0 /\ Coming = 1
    BY <1>4 DEF PushAccepted, Coming, QueueInv
  <2>. QED  BY <1>0, <1>4, <2>1, <2>2 DEF PushAccepted, WaiterInv
<1>5. CASE PushRejected
  BY <1>0, <1>5, WaiterFrame DEF PushRejected, Coming, WaiterInv
<1>6. ASSUME NEW n \in 1..MaxEvents, AckEvents(n) PROVE WaiterInv'
  <2>1. /\ n \in 1..Len(inQueue) /\ n \in Nat /\ Len(inQueue') = Len(inQueue) - n
        /\ acked \subseteq acked' /\ Accepted' = Accepted
    BY <1>6, AckEventsFacts
  <2>2. Coming' = Coming
    BY <1>6 DEF AckEvents, Coming
  <2>3. Len(inQueue') + Coming' <= waiterEvents'
    BY <1>0, <1>6, <2>1, <2>2 DEF AckEvents, WaiterInv
  <2>4. waiterEvents' = 0 => Accepted' = acked'
    <3>. SUFFICES ASSUME waiterEvents' = 0 PROVE Accepted' = acked'
      OBVIOUS
    <3>1. Len(inQueue') = 0
      BY <1>0, <2>1, <2>3
    <3>. QED  BY <3>1 DEF Accepted
  <2>5. ack' \in {"closing?", "signal"} => acceptedAtClose' \subseteq acked'
    BY <1>6, <2>1, <2>4 DEF AckEvents, WaiterInv
  <2>. QED  BY <1>6, <2>1, <2>3, <2>5 DEF AckEvents, WaiterInv
<1>7. CASE AckTestClosing \/ AckListener \/ AckList \/ AckTake \/ AckReport
  <2>1. Coming' = Coming
    BY <1>7 DEF AckTestClosing, AckListener, AckList, AckTake, AckReport, Coming
  <2>. QED  BY <1>0, <1>7, <2>1, WaiterFrame
            DEF AckTestClosing, AckListener, AckList, AckTake, AckReport, WaiterInv
<1>8. CASE AckSignal
  BY <1>0, <1>8 DEF AckSignal, WaiterInv, Accepted, Coming
<1>9. CASE CloseBegin
  BY <1>0, <1>9 DEF CloseBegin, WaiterInv, Accepted, Coming
<1>10. CASE SignalClose
  BY <1>0, <1>10 DEF SignalClose, WaiterInv, Accepted, Coming
<1>11. CASE LoadEvents
  <2>1. waiterEvents = 0 => Accepted = acked
    <3>. SUFFICES ASSUME waiterEvents = 0 PROVE Accepted = acked
      OBVIOUS
    <3>1. Len(inQueue) = 0
      BY <1>0 DEF WaiterInv
    <3>. QED  BY <3>1 DEF Accepted
  <2>2. Accepted' = Accepted /\ Coming' = Coming
    BY <1>11 DEF LoadEvents, Accepted, Coming
  <2>. QED  BY <1>0, <1>11, <2>1, <2>2 DEF LoadEvents, WaiterInv
<1>12. CASE WaiterSignalled \/ WaiterTimeout
  BY <1>0, <1>12 DEF WaiterSignalled, WaiterTimeout, WaiterInv, Accepted, Coming
<1>13. CASE CloseListener \/ CloseProducer
  BY <1>0, <1>13 DEF CloseListener, CloseProducer, WaiterInv, Accepted, Coming
<1>14. CASE UNCHANGED vars
  BY <1>14 DEF vars, WaiterInv, Accepted, Coming
<1>. QED
  BY <1>1, <1>2, <1>3, <1>4, <1>5, <1>6, <1>7, <1>8, <1>9, <1>10, <1>11, <1>12, <1>13, <1>14
  DEF Next, Publisher, AckLoop, Closer, Waiter

-----------------------------------------------------------------------------
(* The list of gaps                                                        *)

\* addPublishedEvent adds a gap of one send, or a send to the last gap.
LEMMA PublishedFacts ==
  ASSUME TypeOK, AddPublished
  PROVE  /\ gaps' \in Seq(Gap) /\ gaps' # <<>>
         /\ \/ /\ gaps[Len(gaps)].dropped > 0 /\ Len(gaps') = Len(gaps) + 1
               /\ \A i \in 1..Len(gaps) : gaps'[i] = gaps[i]
               /\ gaps'[Len(gaps) + 1].send = 1 /\ gaps'[Len(gaps) + 1].dropped = 0
            \/ /\ gaps[Len(gaps)].dropped = 0 /\ Len(gaps') = Len(gaps)
               /\ \A i \in 1..(Len(gaps) - 1) : gaps'[i] = gaps[i]
               /\ gaps'[Len(gaps)].send = gaps[Len(gaps)].send + 1
               /\ gaps'[Len(gaps)].dropped = 0
<1>. DEFINE n == Len(gaps)
<1>1. /\ n \in Nat \ {0} /\ n \in 1..n /\ gaps \in Seq(Gap)
      /\ gaps[n] = [send |-> gaps[n].send, dropped |-> gaps[n].dropped]
      /\ gaps[n].send \in Nat /\ gaps[n].dropped \in Nat
  BY Types
<1>2. CASE gaps[n].dropped > 0
  <2>1. gaps' = Append(gaps, [send |-> 1, dropped |-> 0]) /\ [send |-> 1, dropped |-> 0] \in Gap
    BY <1>2 DEF AddPublished, LastGap, Gap
  <2>. QED  BY <1>1, <1>2, <2>1, SeqAppend
<1>3. CASE gaps[n].dropped = 0
  <2>. DEFINE r == [send |-> gaps[n].send + 1, dropped |-> gaps[n].dropped]
  <2>1. r \in Gap
    BY <1>1 DEF Gap
  <2>2. r = [gaps[n] EXCEPT !.send = @ + 1]
    BY <1>1
  <2>3. gaps' = [gaps EXCEPT ![n] = r]
    <3>1. ~(gaps[n].dropped > 0)
      BY <1>3
    <3>. HIDE DEF r
    <3>. QED  BY <2>2, <3>1, Zenon DEF AddPublished, LastGap
  <2>4. r.send = gaps[n].send + 1 /\ r.dropped = 0
    BY <1>3
  <2>. HIDE DEF r
  <2>. QED  BY <1>1, <1>3, <2>1, <2>3, <2>4, SeqExcept, SeqEmpty
<1>. QED  BY <1>1, <1>2, <1>3

\* addDropEvent adds a drop to the last gap.
LEMMA DroppedFacts ==
  ASSUME TypeOK, AddDropped
  PROVE  /\ gaps' \in Seq(Gap) /\ gaps' # <<>> /\ Len(gaps') = Len(gaps)
         /\ \A i \in 1..(Len(gaps) - 1) : gaps'[i] = gaps[i]
         /\ gaps'[Len(gaps)].send = gaps[Len(gaps)].send
         /\ gaps'[Len(gaps)].dropped = gaps[Len(gaps)].dropped + 1
<1>. DEFINE n == Len(gaps)
            r == [send |-> gaps[n].send, dropped |-> gaps[n].dropped + 1]
<1>1. /\ n \in Nat \ {0} /\ n \in 1..n /\ gaps \in Seq(Gap)
      /\ gaps[n] = [send |-> gaps[n].send, dropped |-> gaps[n].dropped]
      /\ gaps[n].send \in Nat /\ gaps[n].dropped \in Nat
  BY Types
<1>2. r \in Gap /\ r = [gaps[n] EXCEPT !.dropped = @ + 1]
  BY <1>1 DEF Gap
<1>3. gaps' = [gaps EXCEPT ![n] = r]
  BY <1>2 DEF AddDropped
<1>4. r.send = gaps[n].send /\ r.dropped = gaps[n].dropped + 1
  OBVIOUS
<1>. HIDE DEF r
<1>. QED  BY <1>1, <1>2, <1>3, <1>4, SeqExcept, SeqEmpty

\* A turn of the loop of ACKEvents takes a part of the first gap, or the gap.
LEMMA AckListFacts ==
  ASSUME TypeOK, AckList
  PROVE  /\ gaps' \in Seq(Gap) /\ gaps' # <<>>
         /\ \/ /\ ackCount < gaps[1].send /\ Len(gaps') = Len(gaps)
               /\ gaps'[1].send = gaps[1].send - ackCount
               /\ gaps'[1].dropped = gaps[1].dropped
               /\ \A i \in 2..Len(gaps) : gaps'[i] = gaps[i]
               /\ ackTotal' = ackTotal + ackCount /\ ackCount' = 0 /\ UNCHANGED ackEmpty
            \/ /\ ackCount >= gaps[1].send
               /\ \/ /\ Len(gaps) > 1 /\ Len(gaps') = Len(gaps) - 1 /\ ~ackEmpty'
                     /\ \A i \in 1..(Len(gaps) - 1) : gaps'[i] = gaps[i + 1]
                  \/ /\ Len(gaps) = 1 /\ Len(gaps') = 1 /\ ackEmpty'
                     /\ gaps'[1].send = 0 /\ gaps'[1].dropped = 0
               /\ ackTotal' = ackTotal + gaps[1].send + gaps[1].dropped
               /\ ackCount' = ackCount - gaps[1].send
<1>0. PICK n \in Nat : n = Len(gaps) /\ n # 0
  BY Types
<1>1. /\ Len(gaps) \in Nat \ {0} /\ 1 \in 1..Len(gaps) /\ gaps \in Seq(Gap) /\ gaps # <<>>
      /\ gaps[1] = [send |-> gaps[1].send, dropped |-> gaps[1].dropped]
      /\ gaps[1].send \in Nat /\ gaps[1].dropped \in Nat /\ ackCount \in Nat
      /\ Head(gaps) = gaps[1]
  BY Types, SeqHeadTail DEF TypeOK
<1>2. CASE ackCount < gaps[1].send
  <2>. DEFINE r == [send |-> gaps[1].send - ackCount, dropped |-> gaps[1].dropped]
  <2>1. r \in Gap
    BY <1>1, <1>2 DEF Gap
  <2>7. r = [gaps[1] EXCEPT !.send = @ - ackCount]
    BY <1>1
  <2>2. gaps' = [gaps EXCEPT ![1] = r]
    BY <1>1, <1>2, <2>7 DEF AckList
  <2>3. r.send = gaps[1].send - ackCount /\ r.dropped = gaps[1].dropped
    OBVIOUS
  <2>. HIDE DEF r
  <2>4. /\ gaps' \in Seq(Gap) /\ Len(gaps') = Len(gaps) /\ gaps'[1] = r
        /\ \A i \in 2..Len(gaps) : gaps'[i] = gaps[i]
    BY <1>1, <2>1, <2>2, SeqExcept
  <2>5. gaps' # <<>>
    BY <1>1, <2>4, SeqEmpty
  <2>6. ackTotal' = ackTotal + ackCount /\ ackCount' = 0 /\ UNCHANGED ackEmpty
    BY <1>1, <1>2 DEF AckList
  <2>. QED  BY <1>2, <2>3, <2>4, <2>5, <2>6
<1>3. CASE ackCount >= gaps[1].send
  <2>1. /\ gaps' = (IF Len(gaps) > 1 THEN Tail(gaps) ELSE <<EmptyGap>>)
        /\ ackEmpty' = (Len(gaps) = 1)
        /\ ackTotal' = ackTotal + gaps[1].send + gaps[1].dropped
        /\ ackCount' = ackCount - gaps[1].send
    BY <1>1, <1>3 DEF AckList
  <2>2. CASE Len(gaps) > 1
    <3>4. n # 1
      BY <1>0, <2>2
    <3>5. ackEmpty' = FALSE
      BY <1>0, <2>1, <3>4
    <3>1. gaps' = Tail(gaps) /\ ~ackEmpty'
      BY <2>1, <2>2, <3>5
    <3>2. /\ gaps' \in Seq(Gap) /\ Len(gaps') = Len(gaps) - 1
          /\ \A i \in 1..(Len(gaps) - 1) : gaps'[i] = gaps[i + 1]
      BY <1>1, <3>1, SeqHeadTail
    <3>3. gaps' # <<>>
      BY <1>1, <2>2, <3>2, SeqEmpty
    <3>. QED  BY <1>3, <2>1, <2>2, <3>1, <3>2, <3>3
  <2>3. CASE Len(gaps) = 1
    <3>4. ~(n > 1)
      BY <1>0, <2>3
    <3>1. gaps' = <<EmptyGap>> /\ ackEmpty'
      BY <1>0, <2>1, <2>3, <3>4, Zenon
    <3>2. EmptyGap \in Gap /\ EmptyGap.send = 0 /\ EmptyGap.dropped = 0
      BY DEF EmptyGap, Gap
    <3>3. gaps' \in Seq(Gap) /\ gaps' # <<>> /\ Len(gaps') = 1 /\ gaps'[1] = EmptyGap
      BY <3>1, <3>2
    <3>. QED  BY <1>3, <2>1, <2>3, <3>1, <3>2, <3>3
  <2>4. n > 1 \/ n = 1
    BY <1>0
  <2>. QED  BY <1>0, <2>2, <2>3, <2>4, Zenon
<1>. QED  BY <1>1, <1>2, <1>3
-----------------------------------------------------------------------------
(* The lists of data                                                       *)

\* eventDataACKer.AddEvent adds the event, if there is a listener.
LEMMA RememberFacts ==
  ASSUME TypeOK, QueueInv, Remember
  PROVE  /\ data' \in Seq(Event)
         /\ \/ /\ attached /\ pub' = "track" /\ Len(data') = Len(data) + 1
               /\ \A i \in 1..Len(data) : data'[i] = data[i]
               /\ data'[Len(data) + 1] = event
            \/ ~attached /\ UNCHANGED data /\ pub' = AfterAddEvent
<1>1. data \in Seq(Event) /\ event \in Event
  BY Types DEF QueueInv, Remember
<1>2. CASE attached
  <2>1. data' = Append(data, event) /\ pub' = "track"
    BY <1>2 DEF Remember
  <2>. QED  BY <1>1, <1>2, <2>1, SeqAppend
<1>3. CASE ~attached
  BY <1>1, <1>3 DEF Remember
<1>. QED  BY <1>2, <1>3

\* The publisher takes the first datum to report it.
LEMMA PublisherTakeFacts ==
  ASSUME TypeOK, GapsInv, PublisherTake
  PROVE  /\ pubData' \in Seq(Event) /\ Len(pubData') = 1 /\ pubData'[1] = data[1]
         /\ data' \in Seq(Event) /\ Len(data) > 0 /\ Len(data') = Len(data) - 1
         /\ \A i \in 1..Len(data') : data'[i] = data[i + 1]
<1>1. data \in Seq(Event) /\ data # <<>> /\ Len(data) \in Nat \ {0}
  BY Types, SeqEmpty DEF GapsInv, PublisherTake
<1>2. pubData' = SubSeq(data, 1, 1) /\ data' = Tail(data)
  BY DEF PublisherTake
<1>. QED  BY <1>1, <1>2, SeqSplit, SeqHeadTail

\* The loop takes as many data as it counted.
LEMMA AckTakeFacts ==
  ASSUME TypeOK, AckTake
  PROVE  /\ ackData' \in Seq(Event) /\ Len(ackData') = ackTotal
         /\ \A i \in 1..ackTotal : ackData'[i] = data[i]
         /\ data' \in Seq(Event) /\ Len(data') = Len(data) - ackTotal
         /\ \A i \in 1..Len(data') : data'[i] = data[ackTotal + i]
<1>1. data \in Seq(Event) /\ ackTotal \in Nat /\ ackTotal <= Len(data)
  BY Types DEF AckTake, TypeOK
<1>2. ackData' = SubSeq(data, 1, ackTotal) /\ data' = SubSeq(data, ackTotal + 1, Len(data))
  BY DEF AckTake
<1>. QED  BY <1>1, <1>2, SeqSplit

\* What is reported is added to the reports.
LEMMA ReportFacts ==
  ASSUME TypeOK, NEW s \in Seq(Event), reported' = reported \o s
  PROVE  /\ reported' \in Seq(Event) /\ Len(reported') = Len(reported) + Len(s)
         /\ \A i \in 1..Len(reported) : reported'[i] = reported[i]
         /\ \A i \in 1..Len(s) : reported'[Len(reported) + i] = s[i]
         /\ \A i \in 1..Len(reported') :
              i \in 1..Len(reported) \/ i - Len(reported) \in 1..Len(s)
<1>1. reported \in Seq(Event) /\ Len(reported) \in Nat /\ Len(s) \in Nat
  BY Types, SeqLen
<1>2. /\ reported' \in Seq(Event) /\ Len(reported') = Len(reported) + Len(s)
      /\ \A i \in 1..(Len(reported) + Len(s)) :
           reported'[i] = IF i <= Len(reported) THEN reported[i] ELSE s[i - Len(reported)]
  BY <1>1, SeqConcat
<1>. QED  BY <1>1, <1>2

\* The queue gets the event.
LEMMA PushFacts ==
  ASSUME TypeOK, QueueInv, PushAccepted
  PROVE  /\ inQueue' \in Seq(Event) /\ Len(inQueue') = Len(inQueue) + 1
         /\ \A i \in 1..Len(inQueue) : inQueue'[i] = inQueue[i]
         /\ inQueue'[Len(inQueue) + 1] = event
<1>1. inQueue \in Seq(Event) /\ event \in Event /\ inQueue' = Append(inQueue, event)
  BY Types DEF QueueInv, PushAccepted
<1>. QED  BY <1>1, SeqAppend

-----------------------------------------------------------------------------
(* Types                                                                   *)

\* What the types say, one variable at a time.
Typed ==
  /\ pub \in {"idle", "process", "remember", "track", "take", "report", "push"}
  /\ event \in 0..MaxEvents
  /\ ack \in {"idle", "closing?", "signal", "acker", "list", "report"}
  /\ ackCount \in Nat /\ ackTotal \in Nat /\ ackEmpty \in BOOLEAN
  /\ pubData \in Seq(Event) /\ ackData \in Seq(Event) /\ data \in Seq(Event)
  /\ inQueue \in Seq(Event) /\ reported \in Seq(Event)
  /\ closer \in {"idle", "signal", "load", "wait", "producer", "closed"}
  /\ waiterRoutine \in {"none", "select", "done"}
  /\ isOpen \in BOOLEAN /\ closing \in BOOLEAN /\ signalAll \in BOOLEAN
  /\ timedOut \in BOOLEAN /\ attached \in BOOLEAN /\ connectionOnly \in BOOLEAN
  /\ racing \in BOOLEAN /\ producerClosed \in BOOLEAN
  /\ waiterEvents \in Nat /\ wg \in Nat
  /\ gaps \in Seq(Gap) /\ gaps # <<>>
  /\ acceptedAtClose \subseteq Event /\ acked \subseteq Event
  /\ filtered \subseteq Event /\ failed \subseteq Event

\* The two ways to state the types agree.
LEMMA TypedIs == TypeOK <=> Typed
BY Zenon DEF TypeOK, Typed

\* They agree after a step.
LEMMA TypedIsNext == (TypeOK <=> Typed)'
BY TypedIs, PTL

\* Every step of the client keeps the types.
LEMMA TypeStep ==
  ASSUME TypeOK, WaiterInv, CountInv, QueueInv, GapsInv, ListInv, [Next]_vars
  PROVE  TypeOK'
<1>. SUFFICES Typed'
  BY TypedIsNext
<1>. Typed
  BY TypedIs
<1>. USE DEF closeVars, pubVars, ackVars, waiterVars, listVars, clientOnlyVars, queueVars, endVars
<1>0. /\ waiterEvents \in Nat /\ wg \in Nat /\ Len(reported) \in Nat /\ Len(pubData) \in Nat
      /\ Len(ackData) \in Nat /\ Len(data) \in Nat /\ event \in Nat /\ Len(inQueue) \in Nat
      /\ pubData \in Seq(Event) /\ ackData \in Seq(Event) /\ ackCount \in Nat /\ ackTotal \in Nat
      /\ Coming \in Nat
  BY Types, ClientAssumption DEF TypeOK, Coming
<1>00. gaps[1].send \in Nat /\ gaps[1].dropped \in Nat
  BY Types
<1>1. CASE PublishBegin
  <2>1. event' \in 0..MaxEvents /\ wg' \in Nat /\ failed' \subseteq Event
    BY <1>0, <1>1, ClientAssumption DEF PublishBegin, TypeOK, Event
  <2>2. pub' \in {"idle", "process"}
    BY <1>1 DEF PublishBegin
  <2>. QED  BY <1>1, <2>1, <2>2 DEF PublishBegin, Typed
<1>2. ASSUME NEW keep \in BOOLEAN, Process(keep) PROVE Typed'
  <2>1. waiterEvents' \in Nat
    BY <1>0, <1>2 DEF Process
  <2>2. filtered' \subseteq Event
    BY <1>2 DEF Process, TypeOK, QueueInv
  <2>. QED  BY <1>2, <2>1, <2>2 DEF Process, Typed
<1>3. CASE Remember
  <2>1. data' \in Seq(Event) /\ pub' \in {"track", "idle", "push"}
    BY <1>3, RememberFacts DEF AfterAddEvent
  <2>. QED  BY <1>3, <2>1 DEF Remember, Typed
<1>4. CASE Track
  <2>1. pub' \in {"push", "idle", "take"}
    BY <1>4 DEF Track
  <2>2. gaps' \in Seq(Gap) /\ gaps' # <<>>
    BY <1>4, PublishedFacts, DroppedFacts, Zenon DEF Track, Typed
  <2>. QED  BY <1>4, <2>1, <2>2 DEF Track, Typed
<1>5. CASE PublisherTake
  <2>1. pubData' \in Seq(Event) /\ data' \in Seq(Event)
    BY <1>5, PublisherTakeFacts
  <2>. QED  BY <1>5, <2>1 DEF PublisherTake, Typed
<1>6. CASE PublisherReport
  <2>1. reported' \in Seq(Event)
    BY <1>0, <1>6, ReportFacts DEF PublisherReport
  <2>3. pubData' \in Seq(Event)
    BY <1>6, SeqEmpty DEF PublisherReport
  <2>2. wg' \in Nat
    BY <1>0, <1>6 DEF PublisherReport, CountInv, Fresh
  <2>. QED  BY <1>6, <2>1, <2>2, <2>3 DEF PublisherReport, Typed
<1>7. CASE PushAccepted
  <2>1. inQueue' \in Seq(Event)
    BY <1>7, PushFacts
  <2>. QED  BY <1>7, <2>1 DEF PushAccepted, Typed
<1>8. CASE PushRejected
  <2>1. failed' \subseteq Event
    BY <1>8 DEF PushRejected, TypeOK, QueueInv
  <2>. QED  BY <1>8, <2>1 DEF PushRejected, Typed
<1>9. ASSUME NEW n \in 1..MaxEvents, AckEvents(n) PROVE Typed'
  <2>1. /\ inQueue' \in Seq(Event) /\ acked' \subseteq Event
        /\ n \in Nat /\ n <= Len(inQueue)
    BY <1>9, AckEventsFacts, Types
  <2>2. waiterEvents' \in Nat /\ ackCount' \in Nat /\ ackTotal' \in Nat
    BY <1>0, <1>9, <2>1 DEF AckEvents, WaiterInv
  <2>3. ack' \in {"closing?", "acker"} /\ ackEmpty' \in BOOLEAN
    BY <1>9 DEF AckEvents
  <2>. QED  BY <1>9, <2>1, <2>2, <2>3 DEF AckEvents, Typed
<1>10. CASE AckTestClosing \/ AckListener
  <2>1. ack' \in {"signal", "acker", "list", "idle"}
    BY <1>10 DEF AckTestClosing, AckListener
  <2>. QED  BY <1>10, <2>1 DEF AckTestClosing, AckListener, Typed
<1>11. CASE AckSignal
  BY <1>11 DEF AckSignal, Typed
<1>12. CASE AckList
  <2>1. gaps' \in Seq(Gap) /\ gaps' # <<>>
    BY <1>12, AckListFacts, Zenon
  <2>3. ackEmpty' \in BOOLEAN
    BY <1>12 DEF AckList, Typed
  <2>2. ackTotal' \in Nat /\ ackCount' \in Nat
    <3>1. Head(gaps) = gaps[1]
      BY SeqHeadTail DEF Typed
    <3>2. \/ ackTotal' = ackTotal + ackCount /\ ackCount' = 0
          \/ /\ ~(ackCount < gaps[1].send)
             /\ ackTotal' = ackTotal + gaps[1].send + gaps[1].dropped
             /\ ackCount' = ackCount - gaps[1].send
      BY <1>12, <3>1, Zenon DEF AckList
    <3>3. PICK n \in Nat, d \in Nat : n = gaps[1].send /\ d = gaps[1].dropped
      BY <1>00
    <3>4. \/ ackTotal' = ackTotal + ackCount /\ ackCount' = 0
          \/ ~(ackCount < n) /\ ackTotal' = ackTotal + n + d /\ ackCount' = ackCount - n
      BY <3>2, <3>3, Zenon
    <3>. QED  BY <1>0, <3>4
  <2>. QED  BY <1>12, <2>1, <2>2, <2>3 DEF AckList, Typed
<1>13. CASE AckTake
  <2>1. ackData' \in Seq(Event) /\ data' \in Seq(Event)
    BY <1>13, AckTakeFacts
  <2>. QED  BY <1>13, <2>1 DEF AckTake, Typed
<1>14. CASE AckReport
  <2>1. reported' \in Seq(Event)
    BY <1>0, <1>14, ReportFacts DEF AckReport
  <2>3. ackData' \in Seq(Event)
    BY <1>14, SeqEmpty DEF AckReport
  <2>2. wg' \in Nat
    BY <1>0, <1>14 DEF AckReport, CountInv, Fresh
  <2>. QED  BY <1>14, <2>1, <2>2, <2>3 DEF AckReport, Typed
<1>15. CASE CloseBegin
  <2>1. acceptedAtClose' \subseteq Event
    BY <1>15, Types, SeqElem DEF CloseBegin, Accepted, Typed
  <2>2. closer' \in {"idle", "signal", "load", "wait", "producer", "closed"} /\ isOpen' \in BOOLEAN
    BY <1>15 DEF CloseBegin
  <2>. QED  BY <1>15, <2>1, <2>2 DEF CloseBegin, Typed
<1>16. CASE SignalClose
  <2>1. /\ closer' \in {"idle", "signal", "load", "wait", "producer", "closed"}
        /\ racing' \in BOOLEAN /\ closing' \in BOOLEAN
    BY <1>16 DEF SignalClose
  <2>. QED  BY <1>16, <2>1 DEF SignalClose, Typed
<1>21. CASE LoadEvents
  <2>1. /\ closer' \in {"idle", "signal", "load", "wait", "producer", "closed"}
        /\ waiterRoutine' \in {"none", "select", "done"}
    BY <1>21 DEF LoadEvents
  <2>. QED  BY <1>21, <2>1 DEF LoadEvents, Typed
<1>17. CASE CloseListener
  <2>1. attached' \in BOOLEAN
    BY <1>17 DEF CloseListener
  <2>. QED  BY <1>17, <2>1 DEF CloseListener, Typed
<1>18. CASE CloseProducer
  BY <1>18 DEF CloseProducer, Typed
<1>19. CASE WaiterSignalled
  <2>1. waiterRoutine' \in {"none", "select", "done"} /\ signalAll' \in BOOLEAN
    BY <1>19 DEF WaiterSignalled
  <2>. QED  BY <1>19, <2>1 DEF WaiterSignalled, Typed
<1>22. CASE WaiterTimeout
  <2>1. waiterRoutine' \in {"none", "select", "done"} /\ timedOut' \in BOOLEAN
    BY <1>22 DEF WaiterTimeout
  <2>. QED  BY <1>22, <2>1 DEF WaiterTimeout, Typed
<1>20. CASE UNCHANGED vars
  BY <1>20 DEF vars, Typed
<1>. QED
  BY <1>1, <1>2, <1>3, <1>4, <1>5, <1>6, <1>7, <1>8, <1>9, <1>10, <1>11, <1>12, <1>13,
     <1>14, <1>15, <1>16, <1>17, <1>18, <1>19, <1>20, <1>21, <1>22
  DEF Next, Publisher, AckLoop, Closer, Waiter

-----------------------------------------------------------------------------
(* Counting                                                                *)

\* Every step keeps the counts of events.
LEMMA CountStep ==
  ASSUME TypeOK, CountInv, QueueInv, GapsInv, [Next]_vars
  PROVE  CountInv'
<1>. USE DEF closeVars, pubVars, ackVars, waiterVars, listVars, clientOnlyVars, queueVars, endVars
<1>0. /\ wg \in Nat /\ Len(reported) \in Nat /\ Len(pubData) \in Nat
      /\ Len(ackData) \in Nat /\ Len(data) \in Nat /\ event \in Nat
      /\ pubData \in Seq(Event) /\ ackData \in Seq(Event) /\ ackTotal \in Nat
      /\ Len(<<>>) = 0
  BY Types, ClientAssumption, SeqEmpty DEF TypeOK
<1>1. CASE PublishBegin
  BY <1>0, <1>1 DEF PublishBegin, CountInv, Fresh
<1>2. ASSUME NEW keep \in BOOLEAN, Process(keep) PROVE CountInv'
  BY <1>0, <1>2 DEF Process, CountInv, Fresh
<1>3. CASE Remember
  <2>1. pub = "remember" /\ (Len(data') = Len(data) + 1 \/ Len(data') = Len(data))
        /\ pub' \in {"track", "idle", "push"}
    BY <1>3, RememberFacts DEF AfterAddEvent, Remember
  <2>. QED  BY <1>0, <1>3, <2>1 DEF Remember, CountInv, Fresh
<1>4. CASE Track
  <2>1. pub' \in {"push", "idle", "take"}
    BY <1>4 DEF Track
  <2>. QED  BY <1>0, <1>4, <2>1 DEF Track, CountInv, Fresh
<1>5. CASE PublisherTake
  <2>1. Len(pubData') = 1 /\ Len(data') = Len(data) - 1
    BY <1>5, PublisherTakeFacts
  <2>2. pub = "take" /\ pub' = "report" /\ UNCHANGED <<wg, reported, ackData, event, ack>>
    BY <1>5 DEF PublisherTake
  <2>. QED  BY <1>0, <2>1, <2>2 DEF CountInv, Fresh
<1>6. CASE PublisherReport
  <2>1. Len(reported') = Len(reported) + Len(pubData)
    BY <1>0, <1>6, ReportFacts DEF PublisherReport
  <2>2. Len(pubData') = 0
    BY <1>6 DEF PublisherReport
  <2>3. /\ pub = "report" /\ pub' = "idle" /\ UNCHANGED <<data, ackData, event, ack>>
        /\ wg' = wg - Len(pubData)
    BY <1>6 DEF PublisherReport
  <2>. QED  BY <1>0, <2>1, <2>2, <2>3 DEF CountInv, Fresh
<1>7. CASE PushAccepted \/ PushRejected
  BY <1>0, <1>7 DEF PushAccepted, PushRejected, CountInv, Fresh
<1>8. ASSUME NEW n \in 1..MaxEvents, AckEvents(n) PROVE CountInv'
  BY <1>0, <1>8 DEF AckEvents, CountInv, Fresh
<1>9. CASE AckTestClosing \/ AckSignal \/ AckListener \/ AckList
  BY <1>0, <1>9 DEF AckTestClosing, AckSignal, AckListener, AckList, CountInv, Fresh
<1>10. CASE AckTake
  <2>1. Len(ackData') = ackTotal /\ Len(data') = Len(data) - ackTotal
    BY <1>10, AckTakeFacts
  <2>2. ack = "list" /\ ack' = "report" /\ UNCHANGED <<wg, reported, pubData, event, pub>>
    BY <1>10 DEF AckTake
  <2>. QED  BY <1>0, <2>1, <2>2 DEF CountInv, Fresh
<1>11. CASE AckReport
  <2>1. Len(reported') = Len(reported) + Len(ackData)
    BY <1>0, <1>11, ReportFacts DEF AckReport
  <2>2. Len(ackData') = 0
    BY <1>11 DEF AckReport
  <2>3. /\ ack = "report" /\ ack' = "idle" /\ UNCHANGED <<data, pubData, event, pub>>
        /\ wg' = wg - Len(ackData)
    BY <1>11 DEF AckReport
  <2>. QED  BY <1>0, <2>1, <2>2, <2>3 DEF CountInv, Fresh
<1>12. CASE Closer \/ Waiter
  BY <1>12 DEF Closer, Waiter, CloseBegin, SignalClose, LoadEvents, CloseListener,
               CloseProducer, WaiterSignalled, WaiterTimeout, CountInv, Fresh
<1>13. CASE UNCHANGED vars
  BY <1>13 DEF vars, CountInv, Fresh
<1>. QED
  BY <1>1, <1>2, <1>3, <1>4, <1>5, <1>6, <1>7, <1>8, <1>9, <1>10, <1>11, <1>12, <1>13
  DEF Next, Publisher, AckLoop

-----------------------------------------------------------------------------
(* The queue                                                               *)

\* The queue and what is finished change only in the steps below.
LEMMA QueueFrame ==
  ASSUME QueueInv, UNCHANGED <<inQueue, event, pub, acked, filtered, failed>>
  PROVE  QueueInv'
BY DEF QueueInv, Upto, Undecided, Decided, Finished, Queued

\* A step that takes nothing from the queue and decides at most one event, which it
\* finishes, keeps the order.
LEMMA QueueSame ==
  ASSUME TypeOK, QueueInv, UNCHANGED inQueue, Finished \subseteq Finished',
         \/ Decided' = Decided
         \/ Decided' = Decided + 1 /\ Decided + 1 \in Finished',
         pub' # "idle" => event' \in Event,
         pub' = "take" => event' \in filtered',
         pub' = "push" => event' \notin filtered'
  PROVE  QueueInv'
<1>0. /\ Decided \in Int /\ Len(inQueue) \in Nat
      /\ \A i \in 1..Len(inQueue) : inQueue[i] \in Nat
  BY Types, SeqElem, ClientAssumption DEF TypeOK, Event, Decided
<1>1. Upto(inQueue', Decided')
  BY <1>0 DEF QueueInv, Upto
<1>2. ASSUME NEW e \in 1..Decided' PROVE e \in Finished' \/ Queued(e)'
  <2>1. CASE e \in 1..Decided
    <3>1. e \in Finished \/ Queued(e)
      BY <2>1 DEF QueueInv
    <3>. QED  BY <3>1 DEF Queued
  <2>2. CASE e = Decided + 1 /\ Decided + 1 \in Finished'
    BY <2>2
  <2>. QED  BY <1>0, <2>1, <2>2
<1>3. \A i, j \in 1..Len(inQueue') : i < j => inQueue'[i] < inQueue'[j]
  BY DEF QueueInv
<1>. QED  BY <1>1, <1>2, <1>3 DEF QueueInv

\* Every step keeps the order of the queue, and loses no event.
LEMMA QueueStep ==
  ASSUME TypeOK, QueueInv, [Next]_vars
  PROVE  QueueInv'
<1>. USE DEF closeVars, pubVars, ackVars, waiterVars, listVars, clientOnlyVars, queueVars, endVars
<1>0. /\ event \in Nat /\ Len(inQueue) \in Nat /\ MaxEvents \in Nat
      /\ \A i \in 1..Len(inQueue) : inQueue[i] \in Nat
  BY Types, SeqElem, ClientAssumption DEF TypeOK, Event
<1>1. CASE PublishBegin
  <2>1. /\ pub = "idle" /\ event' = event + 1 /\ event < MaxEvents
        /\ UNCHANGED <<inQueue, acked, filtered>>
        /\ \/ pub' = "process" /\ failed' = failed
           \/ pub' = "idle" /\ failed' = failed \cup {event + 1}
    BY <1>1 DEF PublishBegin
  <2>2. Decided = event /\ Finished \subseteq Finished'
    BY <2>1 DEF Decided, Undecided, Finished
  <2>3. \/ Decided' = Decided
        \/ Decided' = Decided + 1 /\ Decided + 1 \in Finished'
    <3>1. CASE pub' = "process"
      <4>1. Decided' = event' - 1
        BY <3>1 DEF Decided, Undecided
      <4>2. Decided' = Decided
        BY <1>0, <2>1, <2>2, <4>1
      <4>. QED  BY <4>2
    <3>2. CASE pub' = "idle" /\ failed' = failed \cup {event + 1}
      <4>1. Decided' = event'
        BY <3>2 DEF Decided, Undecided
      <4>. QED  BY <1>0, <2>1, <2>2, <3>2, <4>1 DEF Finished
    <3>. QED  BY <2>1, <3>1, <3>2
  <2>4. event' \in Event /\ pub' # "take" /\ pub' # "push"
    BY <1>0, <2>1 DEF Event
  <2>. QED  BY <2>1, <2>2, <2>3, <2>4, QueueSame
<1>2. ASSUME NEW keep \in BOOLEAN, Process(keep) PROVE QueueInv'
  <2>1. /\ pub = "process" /\ pub' = "remember" /\ UNCHANGED <<event, inQueue, acked, failed>>
        /\ filtered \subseteq filtered'
    BY <1>2 DEF Process
  <2>2. Decided' = Decided /\ Finished \subseteq Finished'
    BY <2>1 DEF Decided, Undecided, Finished
  <2>. QED  BY <2>1, <2>2, QueueSame DEF QueueInv
<1>3. CASE Remember \/ Track
  <2>0. \/ pub' = "track"
        \/ pub' = "push" /\ event \notin filtered
        \/ pub' \in {"idle", "take"} /\ event \in filtered
    <3>1. CASE Remember
      <4>1. pub' = "track" \/ pub' = AfterAddEvent
        BY <3>1 DEF Remember
      <4>2. \/ AfterAddEvent = "idle" /\ event \in filtered
            \/ AfterAddEvent = "push" /\ event \notin filtered
        BY DEF AfterAddEvent
      <4>. QED  BY <4>1, <4>2
    <3>2. CASE Track
      BY <3>2 DEF Track
    <3>. QED  BY <1>3, <3>1, <3>2
  <2>1. pub \in {"remember", "track"} /\ UNCHANGED <<event, inQueue, acked, filtered, failed>>
    BY <1>3 DEF Remember, Track
  <2>2. Decided = event - 1 /\ Finished' = Finished
    BY <2>1 DEF Decided, Undecided, Finished
  <2>3. \/ Decided' = Decided
        \/ Decided' = Decided + 1 /\ Decided + 1 \in Finished'
    <3>1. CASE pub' \in {"track", "push"}
      <4>1. Decided' = event' - 1
        BY <3>1 DEF Decided, Undecided
      <4>2. Decided' = Decided
        BY <1>0, <2>1, <2>2, <4>1
      <4>. QED  BY <4>2
    <3>2. CASE pub' \in {"idle", "take"} /\ event \in filtered
      <4>1. Decided' = event /\ event \in Finished'
        BY <2>1, <3>2 DEF Decided, Undecided, Finished
      <4>. QED  BY <1>0, <2>2, <4>1
    <3>. QED  BY <2>0, <3>1, <3>2
  <2>4. /\ pub' # "idle" => event' \in Event
        /\ pub' = "take" => event' \in filtered'
        /\ pub' = "push" => event' \notin filtered'
    BY <2>0, <2>1 DEF QueueInv
  <2>. QED  BY <2>1, <2>2, <2>3, <2>4, QueueSame
<1>4. CASE PublisherTake \/ PublisherReport
  <2>1. /\ pub \in {"take", "report"} /\ UNCHANGED <<event, inQueue, acked, filtered, failed>>
        /\ pub' \in {"report", "idle"}
    BY <1>4 DEF PublisherTake, PublisherReport
  <2>2. Decided' = Decided /\ Finished' = Finished
    BY <2>1 DEF Decided, Undecided, Finished
  <2>. QED  BY <2>1, <2>2, QueueSame DEF QueueInv
<1>5. CASE PushAccepted
  <2>1. /\ Len(inQueue') = Len(inQueue) + 1
        /\ \A i \in 1..Len(inQueue) : inQueue'[i] = inQueue[i]
        /\ inQueue'[Len(inQueue) + 1] = event
    BY <1>5, PushFacts
  <2>2. pub = "push" /\ pub' = "idle" /\ UNCHANGED <<event, acked, filtered, failed>>
    BY <1>5 DEF PushAccepted
  <2>3. Decided = event - 1 /\ Decided' = event /\ Finished' = Finished
    BY <2>2 DEF Decided, Undecided, Finished
  <2>7. \A i \in 1..Len(inQueue) : inQueue[i] <= event - 1
    BY <2>3 DEF QueueInv, Upto
  <2>4. \A i, j \in 1..Len(inQueue') : i < j => inQueue'[i] < inQueue'[j]
    BY <1>0, <2>1, <2>7 DEF QueueInv
  <2>5. Upto(inQueue', Decided')
    BY <1>0, <2>1, <2>3, <2>7 DEF Upto
  <2>6. ASSUME NEW e \in 1..Decided' PROVE e \in Finished' \/ Queued(e)'
    <3>1. CASE e \in 1..Decided
      <4>1. e \in Finished \/ Queued(e)
        BY <3>1 DEF QueueInv
      <4>. QED  BY <1>0, <2>1, <2>3, <4>1 DEF Queued
    <3>2. CASE e = event
      BY <1>0, <2>1, <3>2 DEF Queued
    <3>. QED  BY <1>0, <2>3, <3>1, <3>2
  <2>. QED  BY <2>2, <2>4, <2>5, <2>6 DEF QueueInv
<1>6. CASE PushRejected
  <2>1. /\ pub = "push" /\ pub' = "idle" /\ UNCHANGED <<event, inQueue, acked, filtered>>
        /\ failed' = failed \cup {event}
    BY <1>6 DEF PushRejected
  <2>2. /\ Decided = event - 1 /\ Decided' = event /\ Finished \subseteq Finished'
        /\ event \in Finished'
    BY <2>1 DEF Decided, Undecided, Finished
  <2>3. Decided' = Decided + 1 /\ Decided + 1 \in Finished'
    BY <1>0, <2>2
  <2>. QED  BY <2>1, <2>2, <2>3, QueueSame DEF QueueInv
<1>7. ASSUME NEW n \in 1..MaxEvents, AckEvents(n) PROVE QueueInv'
  <2>1. /\ n \in 1..Len(inQueue) /\ n \in Nat
        /\ Len(inQueue') = Len(inQueue) - n
        /\ \A i \in 1..Len(inQueue') : inQueue'[i] = inQueue[i + n]
    BY <1>7, AckEventsFacts
  <2>2. UNCHANGED <<event, pub, filtered, failed>>
    BY <1>7 DEF AckEvents
  <2>6. acked \subseteq acked' /\ \A i \in 1..n : inQueue[i] \in acked'
    BY <1>7, AckEventsFacts
  <2>7. Decided' = Decided /\ Finished \subseteq Finished'
    BY <2>2, <2>6 DEF Decided, Undecided, Finished
  <2>8. ASSUME NEW i \in 1..Len(inQueue') PROVE i + n \in 1..Len(inQueue)
    BY <1>0, <2>1
  <2>3. ASSUME NEW i \in 1..Len(inQueue'), NEW j \in 1..Len(inQueue'), i < j
        PROVE  inQueue'[i] < inQueue'[j]
    <3>1. i + n < j + n
      BY <1>0, <2>1, <2>3
    <3>. QED  BY <2>1, <2>8, <3>1 DEF QueueInv
  <2>4. Upto(inQueue', Decided)
    BY <2>1, <2>8 DEF QueueInv, Upto
  <2>5. ASSUME NEW e \in 1..Decided PROVE e \in Finished' \/ Queued(e)'
    <3>1. CASE e \in Finished
      BY <2>7, <3>1
    <3>2. ASSUME NEW i \in 1..Len(inQueue), inQueue[i] = e
          PROVE  e \in Finished' \/ Queued(e)'
      <4>1. CASE i \in 1..n
        BY <2>6, <3>2, <4>1 DEF Finished
      <4>2. CASE i \notin 1..n
        <5>1. i - n \in 1..Len(inQueue') /\ (i - n) + n = i
          BY <1>0, <2>1, <4>2
        <5>. QED  BY <2>1, <3>2, <5>1 DEF Queued
      <4>. QED  BY <4>1, <4>2
    <3>. QED  BY <3>1, <3>2 DEF QueueInv, Queued
  <2>. QED  BY <2>2, <2>3, <2>4, <2>5, <2>7 DEF QueueInv
<1>8. CASE AckTestClosing \/ AckSignal \/ AckListener \/ AckList \/ AckTake \/ AckReport
  BY <1>8, QueueFrame DEF AckTestClosing, AckSignal, AckListener, AckList, AckTake, AckReport
<1>9. CASE Closer \/ Waiter
  BY <1>9, QueueFrame
     DEF Closer, Waiter, CloseBegin, SignalClose, LoadEvents, CloseListener, CloseProducer,
         WaiterSignalled, WaiterTimeout
<1>10. CASE UNCHANGED vars
  BY <1>10, QueueFrame DEF vars
<1>. QED
  BY <1>1, <1>2, <1>3, <1>4, <1>5, <1>6, <1>7, <1>8, <1>9, <1>10 DEF Next, Publisher, AckLoop

-----------------------------------------------------------------------------
(* Each event is in one list                                               *)

\* Lists have no event in common whichever is named first.
LEMMA ApartSym ==
  ASSUME NEW s, NEW t, Apart(s, t)
  PROVE  Apart(t, s)
BY Zenon DEF Apart

\* There is nothing in the empty list.
LEMMA EmptyList ==
  ASSUME NEW n, NEW s
  PROVE  Distinct(<<>>) /\ Upto(<<>>, n) /\ Apart(<<>>, s) /\ Apart(s, <<>>)
<1>1. 1..Len(<<>>) = {}
  OBVIOUS
<1>. QED  BY <1>1, Zenon DEF Distinct, Upto, Apart

\* Lists without events in common make one list.
LEMMA JoinLists ==
  ASSUME NEW r \in Seq(Event), NEW s \in Seq(Event), NEW n \in Int,
         Distinct(r), Distinct(s), Apart(r, s), Upto(r, n), Upto(s, n)
  PROVE  /\ Distinct(r \o s) /\ Upto(r \o s, n)
         /\ \A t : Apart(r, t) /\ Apart(s, t) => Apart(r \o s, t)
<1>. DEFINE u == r \o s
<1>1. /\ Len(r) \in Nat /\ Len(s) \in Nat /\ Len(u) = Len(r) + Len(s)
      /\ \A i \in 1..(Len(r) + Len(s)) : u[i] = IF i <= Len(r) THEN r[i] ELSE s[i - Len(r)]
  BY SeqConcat, SeqLen
<1>. HIDE DEF u
<1>2. ASSUME NEW i \in 1..Len(u)
      PROVE  \/ i \in 1..Len(r) /\ u[i] = r[i]
             \/ i - Len(r) \in 1..Len(s) /\ u[i] = s[i - Len(r)]
  BY <1>1
<1>3. Distinct(u)
  <2>. SUFFICES ASSUME NEW i \in 1..Len(u), NEW j \in 1..Len(u), u[i] = u[j]
                PROVE  i = j
    BY DEF Distinct
  <2>0. i \in Int /\ j \in Int
    BY <1>1
  <2>1. CASE i \in 1..Len(r) /\ u[i] = r[i] /\ j \in 1..Len(r) /\ u[j] = r[j]
    BY <2>1 DEF Distinct
  <2>2. CASE i \in 1..Len(r) /\ u[i] = r[i] /\ j - Len(r) \in 1..Len(s) /\ u[j] = s[j - Len(r)]
    BY <2>2 DEF Apart
  <2>3. CASE j \in 1..Len(r) /\ u[j] = r[j] /\ i - Len(r) \in 1..Len(s) /\ u[i] = s[i - Len(r)]
    BY <2>3 DEF Apart
  <2>4. CASE /\ i - Len(r) \in 1..Len(s) /\ u[i] = s[i - Len(r)]
             /\ j - Len(r) \in 1..Len(s) /\ u[j] = s[j - Len(r)]
    <3>1. i - Len(r) = j - Len(r)
      BY <2>4 DEF Distinct
    <3>. QED  BY <1>1, <2>0, <3>1
  <2>. QED  BY <1>2, <2>1, <2>2, <2>3, <2>4
<1>4. Upto(u, n)
  BY <1>2 DEF Upto
<1>5. ASSUME NEW t, Apart(r, t), Apart(s, t) PROVE Apart(u, t)
  BY <1>2, <1>5, ZenonT(30) DEF Apart
<1>. QED  BY <1>3, <1>4, <1>5 DEF u

\* The parts of a list have no event in common.
Parts(d, p, q) ==
  /\ Len(q) = Len(d) - Len(p)
  /\ \A i \in 1..Len(p) : p[i] = d[i]
  /\ \A i \in 1..Len(q) : q[i] = d[Len(p) + i]
LEMMA SplitList ==
  ASSUME NEW d \in Seq(Event), NEW p \in Seq(Event), NEW q \in Seq(Event), NEW n,
         Parts(d, p, q), Distinct(d), Upto(d, n)
  PROVE  /\ Distinct(p) /\ Distinct(q) /\ Apart(p, q) /\ Upto(p, n) /\ Upto(q, n)
         /\ \A t : Apart(t, d) => Apart(t, p) /\ Apart(t, q)
<1>1. Len(d) \in Nat /\ Len(p) \in Nat /\ Len(q) \in Nat
  BY SeqLen
<1>2. \A i \in 1..Len(p) : i \in 1..Len(d) /\ p[i] = d[i]
  BY <1>1 DEF Parts
<1>3. \A i \in 1..Len(q) : Len(p) + i \in 1..Len(d) /\ q[i] = d[Len(p) + i]
  BY <1>1 DEF Parts
<1>4. Distinct(p)
  BY <1>2, Zenon DEF Distinct
<1>5. Distinct(q)
  <2>. SUFFICES ASSUME NEW i \in 1..Len(q), NEW j \in 1..Len(q), q[i] = q[j]
                PROVE  i = j
    BY DEF Distinct
  <2>0. d[Len(p) + i] = d[Len(p) + j] /\ Len(p) + i \in 1..Len(d) /\ Len(p) + j \in 1..Len(d)
    BY <1>3
  <2>1. Len(p) + i = Len(p) + j
    BY <2>0, Zenon DEF Distinct
  <2>. QED  BY <1>1, <2>1
<1>6. Apart(p, q)
  <2>. SUFFICES ASSUME NEW i \in 1..Len(p), NEW j \in 1..Len(q), p[i] = q[j]
                PROVE  FALSE
    BY DEF Apart
  <2>1. i = Len(p) + j
    BY <1>2, <1>3 DEF Distinct
  <2>. QED  BY <1>1, <2>1
<1>7. Upto(p, n) /\ Upto(q, n)
  BY <1>2, <1>3, Zenon DEF Upto
<1>8. ASSUME NEW t, Apart(t, d) PROVE Apart(t, p) /\ Apart(t, q)
  BY <1>2, <1>3, <1>8, Zenon DEF Apart
<1>. QED  BY <1>4, <1>5, <1>6, <1>7, <1>8

\* The events of a list are numbers.
LEMMA EventInts ==
  ASSUME NEW s \in Seq(Event)
  PROVE  Len(s) \in Nat /\ \A i \in 1..Len(s) : s[i] \in Int
<1>1. Len(s) \in Nat /\ \A i \in 1..Len(s) : s[i] \in Event
  BY SeqLen, SeqElem
<1>2. Event \subseteq Int
  BY ClientAssumption DEF Event
<1>. QED  BY <1>1, <1>2

\* The lists stay as they are, and no event is forgotten.
LEMMA DataFrame ==
  ASSUME TypeOK, DataInv, UNCHANGED <<reported, pubData, ackData, data>>,
         Known' \in Int, Known <= Known'
  PROVE  DataInv'
<1>1. /\ Known \in Int
      /\ \A i \in 1..Len(reported) : reported[i] \in Int
      /\ \A i \in 1..Len(pubData) : pubData[i] \in Int
      /\ \A i \in 1..Len(ackData) : ackData[i] \in Int
      /\ \A i \in 1..Len(data) : data[i] \in Int
  <2>1. Known \in Int
    BY ClientAssumption DEF TypeOK, Known
  <2>. QED  BY <2>1, Types, EventInts
<1>2. Upto(reported, Known') /\ Upto(pubData, Known')
  BY <1>1 DEF DataInv, Listed, Upto
<1>3. Upto(ackData, Known') /\ Upto(data, Known')
  BY <1>1 DEF DataInv, Listed, Upto
<1>. QED  BY <1>2, <1>3 DEF DataInv, Listed

\* Every step of the client keeps each event in one list.
LEMMA DataStep ==
  ASSUME TypeOK, CountInv, QueueInv, GapsInv, DataInv, [Next]_vars
  PROVE  DataInv'
<1>. USE DEF closeVars, pubVars, ackVars, waiterVars, listVars, clientOnlyVars, queueVars, endVars
<1>0. /\ event \in Nat /\ Known \in Int
      /\ reported \in Seq(Event) /\ pubData \in Seq(Event) /\ ackData \in Seq(Event)
      /\ data \in Seq(Event)
  BY Types, ClientAssumption DEF TypeOK, Known
<1>1. CASE PublishBegin
  <2>1. pub = "idle" /\ event' = event + 1 /\ UNCHANGED <<reported, pubData, ackData, data>>
    BY <1>1 DEF PublishBegin
  <2>2. Known = event /\ (Known' = event' \/ Known' = event' - 1)
    BY <2>1 DEF Known, Fresh
  <2>. QED  BY <1>0, <2>1, <2>2, DataFrame
<1>2. ASSUME NEW keep \in BOOLEAN, Process(keep) PROVE DataInv'
  <2>1. /\ pub = "process" /\ pub' = "remember"
        /\ UNCHANGED <<event, reported, pubData, ackData, data>>
    BY <1>2 DEF Process
  <2>2. Known' = Known
    BY <2>1 DEF Known, Fresh
  <2>. QED  BY <1>0, <2>1, <2>2, DataFrame
<1>3. CASE Remember
  <2>1. pub = "remember" /\ UNCHANGED <<event, reported, pubData, ackData>>
    BY <1>3 DEF Remember
  <2>2. pub' \in {"track", "idle", "push"}
    BY <1>3, RememberFacts DEF AfterAddEvent
  <2>3. Known = event - 1 /\ Known' = event
    BY <2>1, <2>2 DEF Known, Fresh
  <2>4. CASE UNCHANGED data
    BY <1>0, <2>1, <2>3, <2>4, DataFrame
  <2>5. CASE /\ Len(data') = Len(data) + 1 /\ data'[Len(data) + 1] = event
             /\ \A i \in 1..Len(data) : data'[i] = data[i]
    <3>0. /\ \A i \in 1..Len(reported) : reported[i] \in Int
          /\ \A i \in 1..Len(pubData) : pubData[i] \in Int
          /\ \A i \in 1..Len(ackData) : ackData[i] \in Int
          /\ \A i \in 1..Len(data) : data[i] \in Int
          /\ Len(data) \in Nat
      BY <1>0, EventInts
    <3>1. /\ \A i \in 1..Len(reported) : reported[i] <= event - 1
          /\ \A i \in 1..Len(pubData) : pubData[i] <= event - 1
          /\ \A i \in 1..Len(ackData) : ackData[i] <= event - 1
          /\ \A i \in 1..Len(data) : data[i] <= event - 1
      BY <2>3 DEF DataInv, Listed, Upto
    <3>2. Upto(reported, event) /\ Upto(pubData, event) /\ Upto(ackData, event)
      BY <1>0, <3>0, <3>1 DEF Upto
    <3>7. ASSUME NEW i \in 1..Len(data')
          PROVE  \/ i \in 1..Len(data) /\ data'[i] = data[i] /\ data[i] <= event /\ data[i] # event
                 \/ i = Len(data) + 1 /\ data'[i] = event /\ event <= event
      <4>1. CASE i \in 1..Len(data)
        BY <1>0, <2>5, <3>0, <3>1, <4>1
      <4>2. CASE i = Len(data) + 1
        BY <1>0, <2>5, <4>2
      <4>. QED  BY <2>5, <3>0, <4>1, <4>2
    <3>8. /\ \A i \in 1..Len(reported) : reported[i] # event
          /\ \A i \in 1..Len(pubData) : pubData[i] # event
          /\ \A i \in 1..Len(ackData) : ackData[i] # event
      BY <1>0, <3>0, <3>1
    <3>3. Upto(data', event) /\ Distinct(data')
      BY <3>7, Zenon DEF Upto, Distinct, DataInv, Listed
    <3>4. Apart(reported, data')
      BY <3>7, <3>8, Zenon DEF Apart, DataInv
    <3>5. Apart(pubData, data')
      BY <3>7, <3>8, Zenon DEF Apart, DataInv
    <3>6. Apart(ackData, data')
      BY <3>7, <3>8, Zenon DEF Apart, DataInv
    <3>. QED  BY <2>1, <2>3, <3>2, <3>3, <3>4, <3>5, <3>6 DEF DataInv, Listed
  <2>. QED  BY <1>3, <2>4, <2>5, RememberFacts
<1>4. CASE Track \/ PushAccepted \/ PushRejected
  <2>1. /\ pub \in {"track", "push"} /\ pub' \in {"push", "idle", "take"}
        /\ UNCHANGED <<event, reported, pubData, ackData, data>>
    BY <1>4 DEF Track, PushAccepted, PushRejected
  <2>2. Known' = Known
    BY <2>1 DEF Known, Fresh
  <2>. QED  BY <1>0, <2>1, <2>2, DataFrame
<1>5. CASE PublisherTake
  <2>1. /\ pubData' \in Seq(Event) /\ Len(pubData') = 1 /\ pubData'[1] = data[1]
        /\ data' \in Seq(Event) /\ Len(data') = Len(data) - 1
        /\ \A i \in 1..Len(data') : data'[i] = data[i + 1]
    BY <1>5, PublisherTakeFacts
  <2>2. pub = "take" /\ pub' = "report" /\ UNCHANGED <<event, reported, ackData>>
    BY <1>5 DEF PublisherTake
  <2>3. Known' = Known
    BY <2>2 DEF Known, Fresh
  <2>4. Parts(data, pubData', data')
    BY <1>0, <2>1 DEF Parts
  <2>5. /\ Distinct(pubData') /\ Distinct(data') /\ Apart(pubData', data')
        /\ Upto(pubData', Known) /\ Upto(data', Known)
        /\ \A t : Apart(t, data) => Apart(t, pubData') /\ Apart(t, data')
    <3>1. Distinct(data) /\ Upto(data, Known)
      BY DEF DataInv, Listed
    <3>. QED  BY <1>0, <2>1, <2>4, <3>1, SplitList
  <2>6. Apart(pubData', ackData)
    BY <2>5, ApartSym DEF DataInv
  <2>. QED  BY <2>2, <2>3, <2>5, <2>6 DEF DataInv, Listed
<1>6. CASE PublisherReport
  <2>1. /\ pub = "report" /\ pub' = "idle" /\ UNCHANGED <<event, ackData, data>>
        /\ reported' = reported \o pubData /\ pubData' = <<>>
    BY <1>6 DEF PublisherReport
  <2>2. Known' = Known
    BY <2>1 DEF Known, Fresh
  <2>3. /\ Distinct(reported') /\ Upto(reported', Known)
        /\ Apart(reported', ackData) /\ Apart(reported', data)
    BY <1>0, <2>1, JoinLists DEF DataInv, Listed
  <2>. QED  BY <2>1, <2>2, <2>3, EmptyList DEF DataInv, Listed
<1>7. CASE AckTake
  <2>1. /\ ackData' \in Seq(Event) /\ Len(ackData') = ackTotal
        /\ \A i \in 1..ackTotal : ackData'[i] = data[i]
        /\ data' \in Seq(Event) /\ Len(data') = Len(data) - ackTotal
        /\ \A i \in 1..Len(data') : data'[i] = data[ackTotal + i]
    BY <1>7, AckTakeFacts
  <2>2. UNCHANGED <<event, pub, reported, pubData>>
    BY <1>7 DEF AckTake
  <2>3. Known' = Known
    BY <2>2 DEF Known, Fresh
  <2>5. /\ Distinct(ackData') /\ Distinct(data') /\ Apart(ackData', data')
        /\ Upto(ackData', Known) /\ Upto(data', Known)
        /\ \A t : Apart(t, data) => Apart(t, ackData') /\ Apart(t, data')
    <3>1. Distinct(data) /\ Upto(data, Known)
      BY DEF DataInv, Listed
    <3>2. Parts(data, ackData', data')
      BY <2>1, Zenon DEF Parts
    <3>. QED  BY <1>0, <2>1, <3>1, <3>2, SplitList
  <2>. QED  BY <2>2, <2>3, <2>5 DEF DataInv, Listed
<1>8. CASE AckReport
  <2>1. /\ UNCHANGED <<event, pub, pubData, data>>
        /\ reported' = reported \o ackData /\ ackData' = <<>>
    BY <1>8 DEF AckReport
  <2>2. Known' = Known
    BY <2>1 DEF Known, Fresh
  <2>3. /\ Distinct(reported') /\ Upto(reported', Known)
        /\ Apart(reported', pubData) /\ Apart(reported', data)
    BY <1>0, <2>1, JoinLists, ApartSym DEF DataInv, Listed
  <2>. QED  BY <2>1, <2>2, <2>3, EmptyList DEF DataInv, Listed
<1>9. CASE /\ UNCHANGED <<event, pub, reported, pubData, ackData, data>>
  BY <1>0, <1>9, DataFrame DEF Known, Fresh
<1>10. ASSUME NEW n \in 1..MaxEvents, AckEvents(n) PROVE DataInv'
  BY <1>9, <1>10 DEF AckEvents
<1>11. CASE AckTestClosing \/ AckSignal \/ AckListener \/ AckList
  BY <1>9, <1>11 DEF AckTestClosing, AckSignal, AckListener, AckList
<1>12. CASE Closer \/ Waiter
  BY <1>9, <1>12
     DEF Closer, Waiter, CloseBegin, SignalClose, LoadEvents, CloseListener, CloseProducer,
         WaiterSignalled, WaiterTimeout
<1>13. CASE UNCHANGED vars
  BY <1>9, <1>13 DEF vars
<1>. QED
  BY <1>1, <1>2, <1>3, <1>4, <1>5, <1>6, <1>7, <1>8, <1>10, <1>11, <1>12, <1>13
  DEF Next, Publisher, AckLoop

=============================================================================
