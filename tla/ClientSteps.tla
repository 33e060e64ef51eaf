---------------------------- MODULE ClientSteps -----------------------------
(* What was told stays finished, the gaps stay well formed, and the totals *)
(* of the gaps survive the steps that leave the list alone: the lemmas on  *)
(* the list that ClientTheorems needs.                                     *)
EXTENDS ClientProofs

\* The time given to each prover.
USE ZenonT(5), SMTT(20)

-----------------------------------------------------------------------------
(* What the list says of the data                                          *)

\* The places of the first gap.
LEMMA FirstRank ==
  ASSUME NEW F, F[0] \in Int, NEW j \in Int
  PROVE  Rank(F, 1, j) = j
BY DEF Rank

\* There are data for what was counted, for the first gap and for the event being added;
\* the first gap covers what it must, and its data are finished.
LEMMA ListFacts ==
  ASSUME TypeOK, ListInv
  PROVE  /\ Counted \in Nat /\ Len(data) >= Counted + Untracked
         /\ Len(gaps) = 1 => Len(data) = Counted + gaps[1].send + gaps[1].dropped + Untracked
         /\ ack = "list" /\ Len(gaps) = 1 => ackCount <= gaps[1].send
         /\ ack = "list" => \A j \in 1..gaps[1].send :
                              j <= ackCount => data[Counted + j] \in Finished
         /\ \A j \in (gaps[1].send + 1)..(gaps[1].send + gaps[1].dropped) :
              data[Counted + j] \in filtered
<1>1. PICK S \in [0..Len(gaps) -> Int], T \in [0..Len(gaps) -> Int] :
        Sums(S, T) /\ CoverInv(S, T) /\ OrderInv(S, T)
  BY DEF ListInv
<1>2. /\ Len(gaps) \in Nat \ {0} /\ 1 \in 1..Len(gaps) /\ Len(data) \in Nat
      /\ gaps[1].send \in Nat /\ gaps[1].dropped \in Nat
      /\ ackCount \in Nat /\ Counted \in Nat /\ Untracked \in {0, 1}
  BY Types DEF Counted, Untracked, TypeOK
<1>3. /\ 0 \in 0..Len(gaps) /\ 1 \in 0..Len(gaps) /\ Len(gaps) \in 0..Len(gaps)
      /\ S[0] \in Int /\ S[1] \in Int /\ T[0] \in Int /\ T[1] \in Int /\ T[Len(gaps)] \in Int
  BY <1>2
<1>4. S[1] = S[0] + gaps[1].send /\ T[1] = T[0] + gaps[1].send + gaps[1].dropped
  <2>1. S[1] = S[1 - 1] + gaps[1].send /\ T[1] = T[1 - 1] + gaps[1].send + gaps[1].dropped
    BY <1>1, <1>2, Zenon DEF Sums
  <2>2. 1 - 1 = 0
    OBVIOUS
  <2>. QED  BY <2>1, <2>2
<1>5. T[0] <= T[Len(gaps)]
  BY <1>1, <1>2, <1>3 DEF Sums, Mono
<1>6. Len(data) = (Counted + T[Len(gaps)] + Untracked) - T[0]
  BY <1>1 DEF CoverInv
<1>7. ack = "list" /\ Len(gaps) = 1 => ackCount <= gaps[1].send
  <2>. SUFFICES ASSUME ack = "list", Len(gaps) = 1 PROVE ackCount <= gaps[1].send
    OBVIOUS
  <2>1. ackCount + S[0] <= S[1]
    BY <1>1 DEF CoverInv, Counting
  <2>. QED  BY <1>2, <1>3, <1>4, <2>1
<1>8. ASSUME ack = "list", NEW j \in 1..gaps[1].send, j <= ackCount
      PROVE  data[Counted + j] \in Finished
  <2>1. Rank(S, 1, j) = j /\ Rank(T, 1, j) = j
    BY <1>2, <1>3, FirstRank
  <2>2. Sent(Rank(S, 1, j), Datum(T, 1, j))
    BY <1>1, <1>2, <1>8 DEF OrderInv
  <2>3. Datum(T, 1, j) \in Finished
    BY <1>8, <2>1, <2>2 DEF Sent, Counting
  <2>. QED  BY <2>1, <2>3 DEF Datum
<1>9. ASSUME NEW j \in (gaps[1].send + 1)..(gaps[1].send + gaps[1].dropped)
      PROVE  data[Counted + j] \in filtered
  <2>1. Datum(T, 1, j) \in filtered
    BY <1>1, <1>2, <1>9 DEF OrderInv
  <2>0. j \in Int
    BY <1>2
  <2>2. Rank(T, 1, j) = j
    BY <1>3, <2>0, FirstRank, Zenon
  <2>. QED  BY <2>1, <2>2 DEF Datum
<1>10. Len(data) >= Counted + Untracked
  BY <1>2, <1>3, <1>5, <1>6
<1>11. ASSUME Len(gaps) = 1
       PROVE  Len(data) = Counted + gaps[1].send + gaps[1].dropped + Untracked
  <2>1. Len(data) = (Counted + T[1] + Untracked) - T[0]
    BY <1>6, <1>11
  <2>2. PICK a \in Nat, b \in Nat : a = gaps[1].send /\ b = gaps[1].dropped
    BY <1>2
  <2>3. PICK z \in Int, c \in Nat, u \in Int : z = T[0] /\ c = Counted /\ u = Untracked
    BY <1>2, <1>3
  <2>5. T[1] = z + a + b /\ Len(data) = (c + T[1] + u) - z
    BY <1>4, <2>1, <2>2, <2>3, Zenon
  <2>6. Len(data) = c + a + b + u
    BY <2>5
  <2>4. Len(data) = Counted + a + b + Untracked
    BY <2>3, <2>6
  <2>. QED  BY <2>2, <2>4
<1>. QED  BY <1>2, <1>7, <1>8, <1>9, <1>10, <1>11

\* What is finished stays finished.
LEMMA FinishedGrows ==
  ASSUME [Next]_vars
  PROVE  acked \subseteq acked' /\ filtered \subseteq filtered' /\ failed \subseteq failed'
         /\ Finished \subseteq Finished'
<1>. USE DEF closeVars, pubVars, ackVars, waiterVars, listVars, clientOnlyVars, queueVars, endVars
<1>1. acked \subseteq acked' /\ filtered \subseteq filtered' /\ failed \subseteq failed'
  <2>1. CASE PublishBegin
    BY <2>1 DEF PublishBegin
  <2>2. CASE \E keep \in BOOLEAN : Process(keep)
    BY <2>2 DEF Process
  <2>3. CASE Remember \/ Track \/ PublisherTake \/ PublisherReport
    BY <2>3 DEF Remember, Track, PublisherTake, PublisherReport
  <2>4. CASE PushAccepted \/ PushRejected
    BY <2>4 DEF PushAccepted, PushRejected
  <2>5. ASSUME NEW n \in 1..MaxEvents, AckEvents(n)
        PROVE  acked \subseteq acked' /\ filtered \subseteq filtered' /\ failed \subseteq failed'
    <3>1. acked' = acked \cup {inQueue[i] : i \in 1..n} /\ UNCHANGED <<filtered, failed>>
      BY <2>5 DEF AckEvents
    <3>. QED  BY <3>1
  <2>6. CASE AckTestClosing \/ AckSignal \/ AckListener \/ AckList \/ AckTake \/ AckReport
    BY <2>6 DEF AckTestClosing, AckSignal, AckListener, AckList, AckTake, AckReport
  <2>7. CASE Closer \/ Waiter
    BY <2>7 DEF Closer, Waiter, CloseBegin, SignalClose, LoadEvents, CloseListener,
                CloseProducer, WaiterSignalled, WaiterTimeout
  <2>8. CASE UNCHANGED vars
    BY <2>8 DEF vars
  <2>. QED
    BY <2>1, <2>2, <2>3, <2>4, <2>5, <2>6, <2>7, <2>8 DEF Next, Publisher, AckLoop
<1>. QED  BY <1>1 DEF Finished

\* Every step keeps what was told, or is about to be told, finished.
LEMMA ToldStep ==
  ASSUME TypeOK, CountInv, QueueInv, GapsInv, ToldInv, ListInv, [Next]_vars
  PROVE  ToldInv'
<1>. USE DEF closeVars, pubVars, ackVars, waiterVars, listVars, clientOnlyVars, queueVars, endVars
<1>0. /\ Len(data) \in Nat /\ ackCount \in Nat /\ ackTotal \in Nat /\ Counted \in Nat
      /\ pubData \in Seq(Event) /\ ackData \in Seq(Event) /\ Finished \subseteq Finished'
      /\ gaps[1].send \in Nat /\ gaps[1].dropped \in Nat
      /\ Len(reported) \in Nat /\ Len(pubData) \in Nat /\ Len(ackData) \in Nat
  BY Types, ListFacts, FinishedGrows DEF TypeOK
<1>1. ASSUME UNCHANGED <<reported, pubData, ackData, data>>, Counted' = 0 \/ Counted' = Counted
      PROVE  ToldInv'
  BY <1>0, <1>1 DEF ToldInv
<1>2. CASE Remember
  <2>1. \A i \in 1..Len(data) : data'[i] = data[i]
    BY <1>2, RememberFacts
  <2>2. UNCHANGED <<ack, ackTotal, reported, pubData, ackData>>
    BY <1>2 DEF Remember
  <2>3. Counted' = Counted
    BY <2>2 DEF Counted
  <2>4. Counted <= Len(data)
    BY <1>0, ListFacts DEF Untracked
  <2>5. ASSUME NEW i \in 1..Counted PROVE data'[i] \in Finished'
    BY <1>0, <2>1, <2>4, <2>5 DEF ToldInv
  <2>. QED  BY <1>0, <2>2, <2>3, <2>5 DEF ToldInv
<1>3. CASE PublisherTake
  <2>1. /\ Len(pubData') = 1 /\ pubData'[1] = data[1] /\ Len(data') = Len(data) - 1
        /\ \A i \in 1..Len(data') : data'[i] = data[i + 1]
    BY <1>3, PublisherTakeFacts
  <2>2. pub = "take" /\ UNCHANGED <<ack, ackTotal, reported, ackData>>
    BY <1>3 DEF PublisherTake
  <2>3. Counted' = Counted /\ Untracked = 1
    BY <2>2 DEF Counted, Untracked
  <2>4. Len(gaps) = 1 /\ gaps[1].send = 0 /\ gaps[1].dropped = 0 /\ data[Len(data)] = event
        /\ event \in Finished
    BY <2>2, Types DEF GapsInv, QueueInv, Finished
  <2>5. Len(data) = Counted + 1
    <3>1. Len(data) = Counted + gaps[1].send + gaps[1].dropped + Untracked
      BY <2>4, ListFacts
    <3>. QED  BY <1>0, <2>3, <2>4, <3>1
  <2>6. ASSUME NEW i \in 1..Len(data) PROVE data[i] \in Finished
    <3>1. CASE i = Len(data)
      BY <2>4, <3>1
    <3>2. CASE i \in 1..Counted
      BY <2>6, <3>2, <1>0 DEF ToldInv
    <3>. QED  BY <1>0, <2>5, <3>1, <3>2
  <2>7. pubData'[1] \in Finished'
    BY <1>0, <2>1, <2>5, <2>6
  <2>8. ASSUME NEW i \in 1..Len(data') PROVE data'[i] \in Finished'
    <3>1. i + 1 \in 1..Len(data)
      BY <1>0, <2>1
    <3>. QED  BY <1>0, <2>1, <2>6, <3>1
  <2>9. \A i \in 1..Len(pubData') : pubData'[i] \in Finished'
    BY <2>1, <2>7
  <2>10. \A i \in 1..Counted' : i <= Len(data') => data'[i] \in Finished'
    BY <1>0, <2>1, <2>3, <2>8
  <2>. QED  BY <1>0, <2>2, <2>9, <2>10 DEF ToldInv
<1>4. CASE PublisherReport
  <2>1. /\ reported' = reported \o pubData /\ pubData' = <<>>
        /\ UNCHANGED <<ack, ackTotal, ackData, data>>
    BY <1>4 DEF PublisherReport
  <2>2. /\ \A i \in 1..Len(reported) : reported'[i] = reported[i]
        /\ \A i \in 1..Len(pubData) : reported'[Len(reported) + i] = pubData[i]
        /\ \A i \in 1..Len(reported') :
             i \in 1..Len(reported) \/ i - Len(reported) \in 1..Len(pubData)
    BY <1>0, <2>1, ReportFacts
  <2>3. ASSUME NEW i \in 1..Len(reported') PROVE reported'[i] \in Finished'
    <3>1. CASE i \in 1..Len(reported)
      BY <1>0, <2>2, <3>1 DEF ToldInv
    <3>2. CASE i - Len(reported) \in 1..Len(pubData)
      <4>1. Len(reported) + (i - Len(reported)) = i
        BY <1>0
      <4>2. reported'[i] = pubData[i - Len(reported)]
        BY <2>2, <3>2, <4>1
      <4>. QED  BY <1>0, <3>2, <4>2 DEF ToldInv
    <3>. QED  BY <2>2, <3>1, <3>2
  <2>4. Counted' = Counted /\ 1..Len(pubData') = {}
    BY <2>1 DEF Counted
  <2>. QED  BY <1>0, <2>1, <2>3, <2>4 DEF ToldInv
<1>5. CASE AckReport
  <2>1. /\ reported' = reported \o ackData /\ ackData' = <<>> /\ ack' = "idle"
        /\ UNCHANGED <<pubData, data>>
    BY <1>5 DEF AckReport
  <2>2. /\ \A i \in 1..Len(reported) : reported'[i] = reported[i]
        /\ \A i \in 1..Len(ackData) : reported'[Len(reported) + i] = ackData[i]
        /\ \A i \in 1..Len(reported') :
             i \in 1..Len(reported) \/ i - Len(reported) \in 1..Len(ackData)
    BY <1>0, <2>1, ReportFacts
  <2>3. ASSUME NEW i \in 1..Len(reported') PROVE reported'[i] \in Finished'
    <3>1. CASE i \in 1..Len(reported)
      BY <1>0, <2>2, <3>1 DEF ToldInv
    <3>2. CASE i - Len(reported) \in 1..Len(ackData)
      <4>1. Len(reported) + (i - Len(reported)) = i
        BY <1>0
      <4>2. reported'[i] = ackData[i - Len(reported)]
        BY <2>2, <3>2, <4>1
      <4>. QED  BY <1>0, <3>2, <4>2 DEF ToldInv
    <3>. QED  BY <2>2, <3>1, <3>2
  <2>4. 1..Counted' = {} /\ 1..Len(ackData') = {}
    BY <2>1 DEF Counted
  <2>. QED  BY <1>0, <2>1, <2>3, <2>4 DEF ToldInv
<1>6. CASE AckTake
  <2>1. /\ Len(ackData') = ackTotal /\ \A i \in 1..ackTotal : ackData'[i] = data[i]
    BY <1>6, AckTakeFacts
  <2>2. /\ ack = "list" /\ ack' = "report" /\ ackTotal <= Len(data)
        /\ UNCHANGED <<reported, pubData>>
    BY <1>6 DEF AckTake
  <2>3. Counted = ackTotal /\ 1..Counted' = {}
    BY <2>2 DEF Counted
  <2>4. ASSUME NEW i \in 1..Len(ackData') PROVE ackData'[i] \in Finished'
    <3>1. i \in 1..Counted /\ i <= Len(data) /\ ackData'[i] = data[i]
      BY <1>0, <2>1, <2>2, <2>3
    <3>. QED  BY <1>0, <3>1 DEF ToldInv
  <2>. QED  BY <1>0, <2>2, <2>3, <2>4 DEF ToldInv
<1>7. CASE AckList
  <2>1. /\ ack = "list" /\ ack' = "list" /\ UNCHANGED <<reported, pubData, ackData, data>>
    BY <1>7 DEF AckList
  <2>2. Counted = ackTotal /\ Counted' = ackTotal'
    BY <2>1 DEF Counted
  <2>3. \/ ackTotal' = ackTotal + ackCount /\ ackCount < gaps[1].send
        \/ ackTotal' = ackTotal + gaps[1].send + gaps[1].dropped /\ gaps[1].send <= ackCount
    BY <1>7, AckListFacts
  <2>4. ASSUME NEW i \in 1..ackTotal', i <= Len(data) PROVE data[i] \in Finished
    <3>1. CASE i \in 1..ackTotal
      BY <2>2, <2>4, <3>1 DEF ToldInv
    <3>2. CASE i \notin 1..ackTotal
      <4>1. PICK j \in Int : j = i - ackTotal /\ j >= 1
        BY <1>0, <2>3, <3>2
      <4>2. data[i] = data[Counted + j]
        BY <1>0, <2>2, <4>1
      <4>3. CASE j \in 1..gaps[1].send /\ j <= ackCount
        BY <2>1, <4>2, <4>3, ListFacts
      <4>4. CASE j \in (gaps[1].send + 1)..(gaps[1].send + gaps[1].dropped)
        BY <4>2, <4>4, ListFacts DEF Finished
      <4>5. PICK a \in Nat, b \in Nat : a = gaps[1].send /\ b = gaps[1].dropped
        BY <1>0
      <4>6. (j <= ackCount /\ ackCount < a) \/ (j <= a + b /\ a <= ackCount)
        <5>1. \/ ackTotal' = ackTotal + ackCount /\ ackCount < a
              \/ ackTotal' = ackTotal + a + b /\ a <= ackCount
          BY <2>3, <4>5, Zenon
        <5>. QED  BY <1>0, <4>1, <5>1
      <4>7. (j \in 1..a /\ j <= ackCount) \/ j \in (a + 1)..(a + b)
        BY <1>0, <4>1, <4>6
      <4>. QED  BY <4>3, <4>4, <4>5, <4>7
    <3>. QED  BY <3>1, <3>2
  <2>. QED  BY <1>0, <2>1, <2>2, <2>4 DEF ToldInv
<1>8. CASE AckListener
  <2>1. ack = "acker" /\ UNCHANGED <<ackTotal, reported, pubData, ackData, data>>
    BY <1>8 DEF AckListener
  <2>2. Counted' = 0
    BY <2>1 DEF Counted, GapsInv
  <2>. QED  BY <1>1, <2>1, <2>2
<1>9. ASSUME NEW n \in 1..MaxEvents, AckEvents(n) PROVE ToldInv'
  BY <1>1, <1>9 DEF AckEvents, Counted
<1>10. CASE PublishBegin \/ Track \/ PushAccepted \/ PushRejected
  BY <1>1, <1>10 DEF PublishBegin, Track, PushAccepted, PushRejected, Counted
<1>11. ASSUME NEW keep \in BOOLEAN, Process(keep) PROVE ToldInv'
  BY <1>1, <1>11 DEF Process, Counted
<1>12. CASE AckTestClosing \/ AckSignal
  BY <1>1, <1>12 DEF AckTestClosing, AckSignal, Counted
<1>13. CASE Closer \/ Waiter
  BY <1>1, <1>13
     DEF Closer, Waiter, CloseBegin, SignalClose, LoadEvents, CloseListener, CloseProducer,
         WaiterSignalled, WaiterTimeout, Counted
<1>14. CASE UNCHANGED vars
  BY <1>1, <1>14 DEF vars, Counted
<1>. QED
  BY <1>2, <1>3, <1>4, <1>5, <1>6, <1>7, <1>8, <1>9, <1>10, <1>11, <1>12, <1>13, <1>14
  DEF Next, Publisher, AckLoop

\* Every step keeps the list of gaps well-formed.
LEMMA GapsStep ==
  ASSUME TypeOK, QueueInv, GapsInv, ListInv, [Next]_vars
  PROVE  GapsInv'
<1>. USE DEF closeVars, pubVars, ackVars, waiterVars, listVars, clientOnlyVars, queueVars, endVars
<1>0. PICK n \in Nat \ {0} : n = Len(gaps)
  BY Types
<1>1. /\ Len(data) \in Nat /\ ackCount \in Nat /\ ackTotal \in Nat /\ Counted \in Nat
      /\ \A i \in 1..n : gaps[i].send \in Nat /\ gaps[i].dropped \in Nat
      /\ 1 \in 1..n /\ n \in 1..n /\ data \in Seq(Event)
  BY <1>0, Types, ListFacts, Zenon DEF TypeOK
<1>2. \A i \in 1..n : gaps[i].send = 0 => n = 1 /\ gaps[i].dropped = 0
  BY <1>0 DEF GapsInv
<1>3. CASE PublishBegin
  BY <1>3 DEF PublishBegin, GapsInv
<1>4. ASSUME NEW keep \in BOOLEAN, Process(keep) PROVE GapsInv'
  BY <1>4 DEF Process, GapsInv
<1>5. CASE Remember
  <2>1. pub' = "track" \/ pub' \in {"idle", "push"}
    BY <1>5, RememberFacts DEF AfterAddEvent
  <2>2. pub' = "track" => data' # <<>> /\ data'[Len(data')] = event
    BY <1>1, <1>5, RememberFacts, SeqEmpty DEF AfterAddEvent
  <2>3. UNCHANGED <<event, gaps, ack, ackEmpty, ackCount, ackTotal>>
    BY <1>5 DEF Remember
  <2>. QED  BY <2>1, <2>2, <2>3 DEF GapsInv
<1>6. CASE Track
  <2>0. /\ pub = "track" /\ pub' \in {"push", "idle", "take"}
        /\ UNCHANGED <<event, data, ack, ackEmpty, ackCount, ackTotal>>
    BY <1>6 DEF Track
  <2>1. CASE AddPublished /\ pub' = "push"
    <3>1. \A i \in 1..Len(gaps') :
             gaps'[i].send = 0 => Len(gaps') = 1 /\ gaps'[i].dropped = 0
      <4>1. CASE /\ gaps[n].dropped > 0 /\ Len(gaps') = n + 1
                 /\ \A i \in 1..n : gaps'[i] = gaps[i]
                 /\ gaps'[n + 1].send = 1
        <5>1. \A i \in 1..n : gaps[i].send # 0
          BY <1>1, <1>2, <4>1
        <5>. QED  BY <1>1, <4>1, <5>1
      <4>2. CASE /\ Len(gaps') = n
                 /\ \A i \in 1..(n - 1) : gaps'[i] = gaps[i]
                 /\ gaps'[n].send = gaps[n].send + 1
        <5>1. \A i \in 1..(n - 1) : gaps[i].send # 0
          BY <1>1, <1>2
        <5>. QED  BY <1>1, <4>2, <5>1
      <4>. QED  BY <1>0, <2>1, <4>1, <4>2, PublishedFacts
    <3>. QED  BY <2>0, <2>1, <3>1 DEF GapsInv
  <2>2. CASE AddDropped /\ LastGap.send > 0 /\ pub' = "idle"
    <3>0. gaps[n].send > 0
      BY <1>0, <2>2 DEF LastGap
    <3>1. \A i \in 1..Len(gaps') :
             gaps'[i].send = 0 => Len(gaps') = 1 /\ gaps'[i].dropped = 0
      <4>1. /\ Len(gaps') = n /\ gaps'[n].send = gaps[n].send
            /\ \A i \in 1..(n - 1) : gaps'[i] = gaps[i]
        BY <1>0, <2>2, DroppedFacts
      <4>2. \A i \in 1..n : gaps[i].send # 0
        BY <1>1, <1>2, <3>0
      <4>. QED  BY <1>1, <4>1, <4>2
    <3>. QED  BY <2>0, <2>2, <3>1 DEF GapsInv
  <2>3. CASE ~(LastGap.send > 0) /\ pub' = "take" /\ UNCHANGED gaps
    <3>1. gaps[n].send = 0
      BY <1>0, <1>1, <2>3 DEF LastGap
    <3>2. gaps[1].send = 0
      BY <1>1, <1>2, <3>1
    <3>. QED  BY <2>0, <2>3, <3>2 DEF GapsInv
  <2>. QED  BY <1>6, <2>1, <2>2, <2>3 DEF Track
<1>7. CASE PublisherTake \/ PublisherReport
  BY <1>7 DEF PublisherTake, PublisherReport, GapsInv
<1>8. CASE PushAccepted \/ PushRejected
  BY <1>8 DEF PushAccepted, PushRejected, GapsInv
<1>9. ASSUME NEW m \in 1..MaxEvents, AckEvents(m) PROVE GapsInv'
  <2>1. /\ ack' \in {"closing?", "acker"} /\ ackTotal' = 0 /\ ackEmpty' = FALSE
        /\ UNCHANGED <<event, data, pub, gaps>>
    BY <1>9 DEF AckEvents
  <2>. QED  BY <2>1 DEF GapsInv
<1>10. CASE AckTestClosing \/ AckSignal \/ AckListener
  <2>1. /\ ack \in {"closing?", "signal", "acker"} /\ ack' \in {"signal", "acker", "list", "idle"}
        /\ UNCHANGED <<event, data, pub, gaps, ackEmpty, ackCount, ackTotal>>
    BY <1>10 DEF AckTestClosing, AckSignal, AckListener
  <2>. QED  BY <2>1 DEF GapsInv
<1>11. CASE AckList
  <2>1. /\ ack = "list" /\ ack' = "list" /\ pub \notin {"take", "report"} /\ ackCount > 0
        /\ ackEmpty = FALSE /\ UNCHANGED <<event, data, pub>>
    BY <1>11 DEF AckList, TypeOK
  <2>2. CASE /\ ackCount < gaps[1].send /\ Len(gaps') = n
             /\ gaps'[1].send = gaps[1].send - ackCount
             /\ \A i \in 2..n : gaps'[i] = gaps[i]
             /\ ackCount' = 0
    <3>1. \A i \in 2..n : i \in 1..n /\ gaps[i].send # 0
      BY <1>1, <1>2
    <3>3. gaps'[1].send # 0
      BY <1>1, <2>2
    <3>2. \A i \in 1..Len(gaps') : gaps'[i].send # 0
      BY <1>1, <2>2, <3>1, <3>3
    <3>. QED  BY <2>1, <2>2, <3>2 DEF GapsInv
  <2>3. CASE /\ n > 1 /\ Len(gaps') = n - 1 /\ ackEmpty' = FALSE
             /\ \A i \in 1..(n - 1) : gaps'[i] = gaps[i + 1]
    <3>1. \A i \in 1..n : gaps[i].send # 0
      BY <1>1, <1>2, <2>3
    <3>2. \A i \in 1..Len(gaps') : gaps'[i].send # 0
      BY <1>1, <2>3, <3>1
    <3>. QED  BY <2>1, <2>3, <3>2 DEF GapsInv
  <2>4. CASE /\ n = 1 /\ Len(gaps') = 1 /\ ackCount >= gaps[1].send
             /\ gaps'[1].send = 0 /\ gaps'[1].dropped = 0
             /\ ackCount' = ackCount - gaps[1].send
    <3>1. ackCount <= gaps[1].send
      BY <1>0, <2>1, <2>4, ListFacts
    <3>2. ackCount' = 0
      BY <1>1, <2>4, <3>1
    <3>3. \A i \in 1..Len(gaps') : gaps'[i].dropped = 0
      BY <2>4
    <3>. QED  BY <2>1, <2>4, <3>2, <3>3 DEF GapsInv
  <2>5. ackEmpty' \in BOOLEAN
    BY <1>11, Zenon DEF AckList, TypeOK
  <2>. QED  BY <1>0, <1>11, <2>2, <2>3, <2>4, <2>5, AckListFacts, Zenon
<1>12. CASE AckTake
  <2>1. /\ data' \in Seq(Event) /\ Len(data') = Len(data) - ackTotal
        /\ \A i \in 1..Len(data') : data'[i] = data[ackTotal + i]
    BY <1>12, AckTakeFacts
  <2>2. /\ ack = "list" /\ ack' = "report" /\ UNCHANGED <<event, pub, gaps>>
    BY <1>12 DEF AckTake
  <2>3. ASSUME pub \in {"track", "take"} PROVE data' # <<>> /\ data'[Len(data')] = event
    <3>1. Counted = ackTotal /\ Untracked = 1
      BY <2>2, <2>3 DEF Counted, Untracked
    <3>2. Len(data) >= ackTotal + 1
      BY <3>1, ListFacts
    <3>3. Len(data') \in 1..Len(data') /\ ackTotal + Len(data') = Len(data)
      BY <1>1, <2>1, <3>2
    <3>4. data'[Len(data')] = data[Len(data)]
      BY <2>1, <3>3
    <3>5. data' # <<>>
      BY <3>3, SeqEmpty
    <3>. QED  BY <2>3, <3>4, <3>5 DEF GapsInv
  <2>. QED  BY <2>2, <2>3 DEF GapsInv
<1>13. CASE AckReport
  BY <1>13 DEF AckReport, GapsInv
<1>14. CASE Closer \/ Waiter
  BY <1>14
     DEF Closer, Waiter, CloseBegin, SignalClose, LoadEvents, CloseListener, CloseProducer,
         WaiterSignalled, WaiterTimeout, GapsInv
<1>15. CASE UNCHANGED vars
  BY <1>15 DEF vars, GapsInv
<1>. QED
  BY <1>3, <1>4, <1>5, <1>6, <1>7, <1>8, <1>9, <1>10, <1>11, <1>12, <1>13, <1>14, <1>15
  DEF Next, Publisher, AckLoop

-----------------------------------------------------------------------------
(* The totals of the gaps                                                  *)

\* The numbers that the totals are about.
LEMMA ListTypes ==
  ASSUME TypeOK
  PROVE  /\ Counted \in Nat /\ Counting \in Nat /\ Untracked \in {0, 1} /\ Pushing \in {0, 1}
         /\ Len(data) \in Nat /\ Len(inQueue) \in Nat
BY Types DEF TypeOK, Counted, Counting, Untracked, Pushing

\* The first and the last total are numbers.
LEMMA EndTotals ==
  ASSUME TypeOK, NEW F \in [0..Len(gaps) -> Int]
  PROVE  F[0] \in Int /\ F[Len(gaps)] \in Int
<1>1. Len(gaps) \in Nat
  BY Types
<1>2. 0 \in 0..Len(gaps) /\ Len(gaps) \in 0..Len(gaps)
  BY <1>1
<1>. QED  BY <1>2

\* A datum of a gap has its place in the data, a send has its place in the sends.
LEMMA Places ==
  ASSUME TypeOK, NEW S \in [0..Len(gaps) -> Int], NEW T \in [0..Len(gaps) -> Int],
         Sums(S, T), CoverInv(S, T), NEW i \in 1..Len(gaps)
  PROVE  /\ \A j \in 1..(gaps[i].send + gaps[i].dropped) :
               Rank(T, i, j) \in Int /\ Rank(T, i, j) >= 1
               /\ Counted + Rank(T, i, j) <= Len(data) - Untracked
         /\ \A j \in 1..gaps[i].send :
               /\ j \in 1..(gaps[i].send + gaps[i].dropped)
               /\ Rank(S, i, j) \in Int /\ Rank(S, i, j) >= 1
               /\ Rank(S, i, j) + S[0] <= S[Len(gaps)]
<1>. DEFINE n == Len(gaps)
<1>1. PICK a \in Nat, b \in Nat : a = gaps[i].send /\ b = gaps[i].dropped
  BY Types
<1>2. n \in Nat /\ 0 \in 0..n /\ i - 1 \in 0..n /\ i \in 0..n /\ n \in 0..n /\ 0 <= i - 1 /\ i <= n
  BY Types
<1>3. /\ S[0] \in Int /\ S[i - 1] \in Int /\ S[i] \in Int /\ S[n] \in Int
      /\ T[0] \in Int /\ T[i - 1] \in Int /\ T[i] \in Int /\ T[n] \in Int
  BY <1>2
<1>4. S[i] = S[i - 1] + a /\ T[i] = T[i - 1] + a + b
  BY <1>1 DEF Sums
<1>5. S[0] <= S[i - 1] /\ S[i] <= S[n] /\ T[0] <= T[i - 1] /\ T[i] <= T[n]
  BY <1>2 DEF Sums, Mono
<1>6. /\ Counted \in Nat /\ Untracked \in {0, 1} /\ Len(data) \in Nat
      /\ Len(data) = (Counted + T[n] + Untracked) - T[0]
  BY ListTypes DEF CoverInv
<1>. HIDE DEF n
<1>7. ASSUME NEW j \in 1..(a + b)
      PROVE  /\ Rank(T, i, j) \in Int /\ Rank(T, i, j) >= 1
             /\ Counted + Rank(T, i, j) <= Len(data) - Untracked
  <2>1. PICK z \in Int, p \in Int, e \in Int : z = T[0] /\ p = T[i - 1] /\ e = T[n]
    BY <1>3
  <2>2. z <= p /\ p + a + b <= e
    BY <1>4, <1>5, <2>1
  <2>3. Rank(T, i, j) = (p + j) - z
    BY <2>1 DEF Rank
  <2>4. Len(data) = (Counted + e + Untracked) - z
    BY <1>6, <2>1
  <2>. QED  BY <1>6, <2>2, <2>3, <2>4
<1>8. ASSUME NEW j \in 1..a
      PROVE  /\ j \in 1..(a + b) /\ Rank(S, i, j) \in Int /\ Rank(S, i, j) >= 1
             /\ Rank(S, i, j) + S[0] <= S[n]
  <2>1. PICK z \in Int, p \in Int, e \in Int : z = S[0] /\ p = S[i - 1] /\ e = S[n]
    BY <1>3
  <2>2. z <= p /\ p + a <= e
    BY <1>4, <1>5, <2>1
  <2>3. Rank(S, i, j) = (p + j) - z
    BY <2>1 DEF Rank
  <2>4. /\ j \in 1..(a + b) /\ Rank(S, i, j) \in Int /\ Rank(S, i, j) >= 1
        /\ Rank(S, i, j) + z <= e
    BY <2>2, <2>3
  <2>. QED  BY <2>1, <2>4
<1>. QED  BY <1>1, <1>7, <1>8 DEF n

\* Numbers with the same difference.
LEMMA MovedTogether ==
  ASSUME NEW k \in Int, NEW k2 \in Int, NEW c \in Int, NEW c2 \in Int, k2 - c2 = k - c
  PROVE  /\ k2 <= c2 => k <= c
         /\ \A m \in Int : k2 = c2 + m => k = c + m
OBVIOUS

\* What is known of a send does not change with the counters that move together.
LEMMA SentSame ==
  ASSUME NEW k \in Int, NEW k2 \in Int, NEW d, Sent(k, d),
         NEW c \in Int, NEW c2 \in Int, Counting = c, Counting' = c2,
         k2 - c2 = k - c, UNCHANGED inQueue, Finished \subseteq Finished',
         attached' => attached, attached' \/ ack' = "list" => attached \/ ack = "list"
  PROVE  Sent(k2, d)'
<1>0. /\ k2 <= c2 => k <= c
      /\ \A m \in Int : k2 = c2 + m => k = c + m
  BY MovedTogether
<1>1. (attached' \/ ack' = "list") /\ k2 <= Counting' => d \in Finished'
  BY <1>0, Zenon DEF Sent
<1>2. ASSUME attached', NEW m \in 1..Len(inQueue'), k2 = Counting' + m PROVE d <= inQueue'[m]
  <2>1. m \in Int
    OBVIOUS
  <2>. QED  BY <1>0, <1>2, <2>1 DEF Sent
<1>. QED  BY <1>1, <1>2 DEF Sent

\* The list is as it was, and so are the counters as far as they matter.
LEMMA ListSame ==
  ASSUME TypeOK, ListInv, UNCHANGED <<data, gaps, inQueue>>,
         filtered \subseteq filtered', Finished \subseteq Finished',
         Counted' = Counted, Untracked' = Untracked, Counting' \in Nat, Pushing' \in {0, 1},
         attached' => attached /\ Counting' = Counting /\ Pushing' <= Pushing,
         ack' = "list" => (attached \/ ack = "list") /\ Counting' = Counting
  PROVE  ListInv'
<1>1. PICK S \in [0..Len(gaps) -> Int], T \in [0..Len(gaps) -> Int] :
        Sums(S, T) /\ CoverInv(S, T) /\ OrderInv(S, T)
  BY DEF ListInv
<1>2. Sums(S, T)'
  BY <1>1 DEF Sums
<1>3. Len(gaps) \in Nat /\ S[0] \in Int /\ S[Len(gaps)] \in Int
  BY Types
<1>4. CoverInv(S, T)'
  <2>1. Len(data') = (Counted' + T[Len(gaps')] + Untracked') - T[0]
    BY <1>1 DEF CoverInv
  <2>2. attached' => Counting' + Len(inQueue') + Pushing' + S[0] <= S[Len(gaps')]
    BY <1>1, <1>3, ListTypes DEF CoverInv
  <2>3. ack' = "list" => Counting' + S[0] <= S[Len(gaps')]
    BY <1>1, <1>3, ListTypes DEF CoverInv
  <2>. QED  BY <2>1, <2>2, <2>3 DEF CoverInv
<1>5. ASSUME NEW k \in Int, NEW d, Sent(k, d) PROVE Sent(k, d)'
  <2>1. CASE attached' \/ ack' = "list"
    BY <1>5, <2>1, SentSame, ListTypes
  <2>2. CASE ~(attached' \/ ack' = "list")
    BY <2>2 DEF Sent
  <2>. QED  BY <2>1, <2>2
<1>6. OrderInv(S, T)'
  <2>1. ASSUME NEW i \in 1..Len(gaps), NEW j \in 1..gaps[i].send
        PROVE  Sent(Rank(S, i, j), Datum(T, i, j))'
    <3>1. Sent(Rank(S, i, j), Datum(T, i, j)) /\ Rank(S, i, j) \in Int
      BY <1>1, Places DEF OrderInv
    <3>2. Datum(T, i, j)' = Datum(T, i, j)
      BY DEF Datum
    <3>3. Sent(Rank(S, i, j), Datum(T, i, j)') = Sent(Rank(S, i, j), Datum(T, i, j))
      BY <3>2
    <3>. QED  BY <1>5, <3>1, <3>2
  <2>2. ASSUME NEW i \in 1..Len(gaps),
               NEW j \in (gaps[i].send + 1)..(gaps[i].send + gaps[i].dropped)
        PROVE  Datum(T, i, j)' \in filtered'
    BY <1>1 DEF OrderInv, Datum
  <2>. QED  BY <2>1, <2>2 DEF OrderInv
<1>. QED  BY <1>2, <1>4, <1>6 DEF ListInv

\* The queue accepts the event that was added to the list last.
LEMMA ListPush ==
  ASSUME TypeOK, QueueInv, DataInv, ListInv, PushAccepted
  PROVE  ListInv'
<1>. USE DEF closeVars, pubVars, ackVars, waiterVars, listVars, clientOnlyVars, queueVars, endVars
<1>1. PICK S \in [0..Len(gaps) -> Int], T \in [0..Len(gaps) -> Int] :
        Sums(S, T) /\ CoverInv(S, T) /\ OrderInv(S, T)
  BY DEF ListInv
<1>2. /\ pub = "push" /\ pub' = "idle"
      /\ UNCHANGED <<data, gaps, attached, ack, ackCount, ackTotal, acked, filtered, failed, event>>
  BY DEF PushAccepted
<1>3. /\ Counted' = Counted /\ Counting' = Counting /\ Untracked' = Untracked
      /\ Pushing = 1 /\ Pushing' = 0 /\ Known = event /\ Finished' = Finished
  BY <1>2 DEF Counted, Counting, Untracked, Pushing, Known, Fresh, Finished
<1>4. /\ Len(inQueue') = Len(inQueue) + 1
      /\ \A i \in 1..Len(inQueue) : inQueue'[i] = inQueue[i]
      /\ inQueue'[Len(inQueue) + 1] = event
  BY PushFacts
<1>5. Sums(S, T)'
  BY <1>1, <1>2 DEF Sums
<1>6. PICK q \in Nat, c \in Nat : q = Len(inQueue) /\ c = Counting
  BY ListTypes
<1>7. CoverInv(S, T)'
  <2>1. Len(data') = (Counted' + T[Len(gaps')] + Untracked') - T[0]
    BY <1>1, <1>2, <1>3 DEF CoverInv
  <2>2. PICK z \in Int, e \in Int : z = S[0] /\ e = S[Len(gaps)]
    BY EndTotals
  <2>3. attached => c + q + 1 + z <= e
    BY <1>1, <1>3, <1>6, <2>2, Zenon DEF CoverInv
  <2>4. attached => c + (q + 1) + 0 + z <= e
    BY <2>3
  <2>5. attached' => Counting' + Len(inQueue') + Pushing' + S[0] <= S[Len(gaps')]
    BY <1>2, <1>3, <1>4, <1>6, <2>2, <2>4, Zenon
  <2>6. ack' = "list" => Counting' + S[0] <= S[Len(gaps')]
    BY <1>1, <1>2, <1>3 DEF CoverInv
  <2>. QED  BY <2>1, <2>5, <2>6 DEF CoverInv
<1>8. ASSUME NEW k \in Int, NEW d \in Int, d <= event, Sent(k, d) PROVE Sent(k, d)'
  <2>1. (attached' \/ ack' = "list") /\ k <= Counting' => d \in Finished'
    BY <1>2, <1>3, <1>8 DEF Sent
  <2>2. ASSUME attached', NEW m \in 1..Len(inQueue'), k = Counting' + m PROVE d <= inQueue'[m]
    <3>1. CASE m \in 1..Len(inQueue)
      BY <1>2, <1>3, <1>4, <1>8, <2>2, <3>1 DEF Sent
    <3>2. CASE m = Len(inQueue) + 1
      BY <1>4, <1>8, <3>2
    <3>. QED  BY <1>4, <1>6, <3>1, <3>2
  <2>. QED  BY <2>1, <2>2 DEF Sent
<1>9. OrderInv(S, T)'
  <2>1. ASSUME NEW i \in 1..Len(gaps), NEW j \in 1..gaps[i].send
        PROVE  Sent(Rank(S, i, j), Datum(T, i, j))'
    <3>1. Sent(Rank(S, i, j), Datum(T, i, j)) /\ Rank(S, i, j) \in Int
      BY <1>1, Places DEF OrderInv
    <3>2. Counted + Rank(T, i, j) \in 1..Len(data)
      <4>1. /\ Rank(T, i, j) \in Int /\ Rank(T, i, j) >= 1
            /\ Counted + Rank(T, i, j) <= Len(data) - Untracked
        BY <1>1, Places
      <4>. QED  BY <4>1, ListTypes
    <3>3. Datum(T, i, j) \in Int /\ Datum(T, i, j) <= event
      <4>1. Upto(data, event)
        BY <1>3 DEF DataInv, Listed
      <4>2. \A x \in 1..Len(data) : data[x] \in Int
        BY Types, EventInts
      <4>. QED  BY <3>2, <4>1, <4>2 DEF Upto, Datum
    <3>4. Datum(T, i, j)' = Datum(T, i, j)
      BY <1>2, <1>3 DEF Datum
    <3>. QED  BY <1>8, <3>1, <3>3, <3>4
  <2>2. ASSUME NEW i \in 1..Len(gaps),
               NEW j \in (gaps[i].send + 1)..(gaps[i].send + gaps[i].dropped)
        PROVE  Datum(T, i, j)' \in filtered'
    BY <1>1, <1>2, <1>3 DEF OrderInv, Datum
  <2>. QED  BY <1>2, <2>1, <2>2 DEF OrderInv
<1>. QED  BY <1>2, <1>5, <1>7, <1>9 DEF ListInv

\* The queue acknowledges events, and the loop begins to account for them.
LEMMA ListAckEvents ==
  ASSUME TypeOK, QueueInv, ListInv, NEW n \in 1..MaxEvents, AckEvents(n)
  PROVE  ListInv'
<1>. USE DEF closeVars, pubVars, ackVars, waiterVars, listVars, clientOnlyVars, queueVars, endVars
<1>1. PICK S \in [0..Len(gaps) -> Int], T \in [0..Len(gaps) -> Int] :
        Sums(S, T) /\ CoverInv(S, T) /\ OrderInv(S, T)
  BY DEF ListInv
<1>2. /\ ack = "idle" /\ ack' \in {"closing?", "acker"} /\ ackCount' = n
      /\ UNCHANGED <<data, gaps, attached, pub, event, filtered, failed>>
  BY DEF AckEvents
<1>3. /\ Counted' = Counted /\ Counting = 0 /\ Counting' = n /\ Untracked' = Untracked
      /\ Pushing' = Pushing
  BY <1>2 DEF Counted, Counting, Untracked, Pushing
<1>4. /\ n \in 1..Len(inQueue) /\ n \in Nat /\ Len(inQueue') = Len(inQueue) - n
      /\ \A i \in 1..Len(inQueue') : inQueue'[i] = inQueue[i + n]
  BY AckEventsFacts
<1>5. acked \subseteq acked' /\ \A i \in 1..n : inQueue[i] \in acked'
  BY AckEventsFacts
<1>6. Finished \subseteq Finished' /\ acked' \subseteq Finished'
  BY <1>2, <1>5 DEF Finished
<1>7. Sums(S, T)'
  BY <1>1, <1>2 DEF Sums
<1>8. PICK q \in Nat, p \in Nat : q = Len(inQueue) /\ p = Pushing
  BY ListTypes
<1>9. CoverInv(S, T)'
  <2>1. Len(data') = (Counted' + T[Len(gaps')] + Untracked') - T[0]
    BY <1>1, <1>2, <1>3 DEF CoverInv
  <2>2. PICK z \in Int, e \in Int : z = S[0] /\ e = S[Len(gaps)]
    BY EndTotals
  <2>3. attached => 0 + q + p + z <= e
    BY <1>1, <1>3, <1>8, <2>2, Zenon DEF CoverInv
  <2>4. attached => n + (q - n) + p + z <= e
    BY <1>4, <2>3
  <2>5. attached' => Counting' + Len(inQueue') + Pushing' + S[0] <= S[Len(gaps')]
    BY <1>2, <1>3, <1>4, <1>8, <2>2, <2>4, Zenon
  <2>. QED  BY <1>2, <2>1, <2>5 DEF CoverInv
<1>10. ASSUME NEW k \in Int, k >= 1, NEW d \in Event, Sent(k, d) PROVE Sent(k, d)'
  <2>0. \A x \in 1..q : inQueue[x] \in Int
    BY <1>8, Types, EventInts
  <2>1. ASSUME attached, k <= n PROVE d \in Finished'
    <3>1. k \in 1..q
      BY <1>4, <1>8, <1>10, <2>1
    <3>2. d <= inQueue[k]
      BY <1>3, <1>8, <1>10, <2>1, <3>1 DEF Sent
    <3>3. d \in 1..Decided
      <4>1. inQueue[k] <= Decided /\ Decided \in Int
        BY <1>8, <3>1, ClientAssumption DEF QueueInv, Upto, Decided, TypeOK
      <4>2. d \in Nat /\ d >= 1
        BY ClientAssumption DEF Event
      <4>. QED  BY <2>0, <3>1, <3>2, <4>1, <4>2
    <3>4. CASE d \in Finished
      BY <1>6, <3>4
    <3>5. ASSUME NEW x \in 1..q, inQueue[x] = d PROVE d \in Finished'
      <4>1. ~(k < x)
        <5>. SUFFICES ASSUME k < x PROVE FALSE
          OBVIOUS
        <5>1. inQueue[k] < inQueue[x]
          BY <1>8, <3>1 DEF QueueInv
        <5>. QED  BY <2>0, <3>1, <3>2, <3>5, <5>1
      <4>2. x \in 1..n
        BY <1>4, <1>8, <2>1, <4>1
      <4>. QED  BY <1>5, <1>6, <3>5, <4>2
    <3>. QED  BY <1>8, <3>3, <3>4, <3>5 DEF QueueInv, Queued
  <2>2. ASSUME attached, NEW m \in 1..Len(inQueue'), k = n + m PROVE d <= inQueue'[m]
    <3>1. m + n \in 1..Len(inQueue) /\ k = 0 + (m + n)
      BY <1>4, <1>8, <2>2
    <3>. QED  BY <1>3, <1>4, <1>10, <2>2, <3>1 DEF Sent
  <2>. QED  BY <1>2, <1>3, <2>1, <2>2 DEF Sent
<1>11. OrderInv(S, T)'
  <2>1. ASSUME NEW i \in 1..Len(gaps), NEW j \in 1..gaps[i].send
        PROVE  Sent(Rank(S, i, j), Datum(T, i, j))'
    <3>1. /\ Sent(Rank(S, i, j), Datum(T, i, j)) /\ Rank(S, i, j) \in Int
          /\ Rank(S, i, j) >= 1
      BY <1>1, Places DEF OrderInv
    <3>2. Counted + Rank(T, i, j) \in 1..Len(data)
      <4>1. /\ Rank(T, i, j) \in Int /\ Rank(T, i, j) >= 1
            /\ Counted + Rank(T, i, j) <= Len(data) - Untracked
        BY <1>1, Places
      <4>. QED  BY <4>1, ListTypes
    <3>3. Datum(T, i, j) \in Event
      BY <3>2, Types, SeqElem DEF Datum
    <3>4. Datum(T, i, j)' = Datum(T, i, j)
      BY <1>2, <1>3 DEF Datum
    <3>. QED  BY <1>10, <3>1, <3>3, <3>4
  <2>2. ASSUME NEW i \in 1..Len(gaps),
               NEW j \in (gaps[i].send + 1)..(gaps[i].send + gaps[i].dropped)
        PROVE  Datum(T, i, j)' \in filtered'
    BY <1>1, <1>2, <1>3 DEF OrderInv, Datum
  <2>. QED  BY <1>2, <2>1, <2>2 DEF OrderInv
<1>. QED  BY <1>2, <1>7, <1>9, <1>11 DEF ListInv

\* The datum of the event is added.
LEMMA ListRemember ==
  ASSUME TypeOK, QueueInv, ListInv, Remember, attached
  PROVE  ListInv'
<1>. USE DEF closeVars, pubVars, ackVars, waiterVars, listVars, clientOnlyVars, queueVars, endVars
<1>1. PICK S \in [0..Len(gaps) -> Int], T \in [0..Len(gaps) -> Int] :
        Sums(S, T) /\ CoverInv(S, T) /\ OrderInv(S, T)
  BY DEF ListInv
<1>2. /\ pub = "remember"
      /\ UNCHANGED <<gaps, attached, ack, ackCount, ackTotal, acked, filtered, failed, inQueue>>
  BY DEF Remember
<1>3. /\ pub' = "track" /\ Len(data') = Len(data) + 1
      /\ \A i \in 1..Len(data) : data'[i] = data[i]
  BY RememberFacts
<1>4. /\ Counted' = Counted /\ Counting' = Counting /\ Untracked = 0 /\ Untracked' = 1
      /\ Pushing = 0 /\ Pushing' = 0 /\ Finished' = Finished
  BY <1>2, <1>3 DEF Counted, Counting, Untracked, Pushing, Finished
<1>5. Sums(S, T)'
  BY <1>1, <1>2 DEF Sums
<1>6. PICK c \in Int : c = Counting /\ c = Counting'
  BY <1>4, ListTypes
<1>7. CoverInv(S, T)'
  <2>1. PICK z \in Int, e \in Int, b \in Int : z = T[0] /\ e = T[Len(gaps)] /\ b = Counted
    BY EndTotals, ListTypes
  <2>2. Len(data) = (b + e + 0) - z
    BY <1>1, <1>4, <2>1, Zenon DEF CoverInv
  <2>3. Len(data) + 1 = (b + e + 1) - z
    BY <2>2
  <2>4. Len(data') = (Counted' + T[Len(gaps')] + Untracked') - T[0]
    BY <1>2, <1>3, <1>4, <2>1, <2>3, Zenon
  <2>. QED  BY <1>1, <1>2, <1>4, <2>4 DEF CoverInv
<1>8. OrderInv(S, T)'
  <2>0. ASSUME NEW i \in 1..Len(gaps), NEW j \in 1..(gaps[i].send + gaps[i].dropped)
        PROVE  Datum(T, i, j)' = Datum(T, i, j)
    <3>1. /\ Rank(T, i, j) \in Int /\ Rank(T, i, j) >= 1
          /\ Counted + Rank(T, i, j) <= Len(data) - Untracked
      BY <1>1, Places
    <3>2. Counted + Rank(T, i, j) \in 1..Len(data)
      BY <3>1, ListTypes
    <3>. QED  BY <1>3, <1>4, <3>2 DEF Datum
  <2>1. ASSUME NEW i \in 1..Len(gaps), NEW j \in 1..gaps[i].send
        PROVE  Sent(Rank(S, i, j), Datum(T, i, j))'
    <3>1. /\ Sent(Rank(S, i, j), Datum(T, i, j)) /\ Rank(S, i, j) \in Int
          /\ j \in 1..(gaps[i].send + gaps[i].dropped)
      BY <1>1, Places DEF OrderInv
    <3>2. Datum(T, i, j)' = Datum(T, i, j)
      BY <2>0, <3>1
    <3>. QED  BY <1>2, <1>4, <1>6, <3>1, <3>2, SentSame
  <2>2. ASSUME NEW i \in 1..Len(gaps),
               NEW j \in (gaps[i].send + 1)..(gaps[i].send + gaps[i].dropped)
        PROVE  Datum(T, i, j)' \in filtered'
    <3>1. gaps[i].send \in Nat /\ gaps[i].dropped \in Nat
      BY Types
    <3>2. j \in 1..(gaps[i].send + gaps[i].dropped)
      BY <3>1
    <3>. QED  BY <1>1, <1>2, <2>0, <3>2 DEF OrderInv
  <2>. QED  BY <1>2, <2>1, <2>2 DEF OrderInv
<1>. QED  BY <1>2, <1>5, <1>7, <1>8 DEF ListInv

\* The loop takes the data that it counted.
LEMMA ListAckTake ==
  ASSUME TypeOK, ListInv, AckTake
  PROVE  ListInv'
<1>. USE DEF closeVars, pubVars, ackVars, waiterVars, listVars, clientOnlyVars, queueVars, endVars
<1>1. PICK S \in [0..Len(gaps) -> Int], T \in [0..Len(gaps) -> Int] :
        Sums(S, T) /\ CoverInv(S, T) /\ OrderInv(S, T)
  BY DEF ListInv
<1>2. /\ ack = "list" /\ ackCount = 0 /\ ack' = "report"
      /\ UNCHANGED <<gaps, attached, pub, acked, filtered, failed, inQueue>>
  BY DEF AckTake
<1>3. /\ Len(data') = Len(data) - ackTotal
      /\ \A i \in 1..Len(data') : data'[i] = data[ackTotal + i]
  BY AckTakeFacts
<1>4. /\ Counted = ackTotal /\ Counted' = 0 /\ Counting = 0 /\ Counting' = 0
      /\ Untracked' = Untracked /\ Pushing' = Pushing /\ Finished' = Finished
  BY <1>2 DEF Counted, Counting, Untracked, Pushing, Finished
<1>5. Sums(S, T)'
  BY <1>1, <1>2 DEF Sums
<1>6. PICK b \in Nat, u \in Nat, l \in Nat : b = ackTotal /\ u = Untracked /\ l = Len(data)
  BY <1>4, ListTypes
<1>7. CoverInv(S, T)'
  <2>1. PICK z \in Int, e \in Int : z = T[0] /\ e = T[Len(gaps)]
    BY EndTotals
  <2>2. l = (b + e + u) - z
    BY <1>1, <1>4, <1>6, <2>1, Zenon DEF CoverInv
  <2>3. l - b = (0 + e + u) - z
    BY <2>2
  <2>4. Len(data') = (Counted' + T[Len(gaps')] + Untracked') - T[0]
    BY <1>2, <1>3, <1>4, <1>6, <2>1, <2>3, Zenon
  <2>. QED  BY <1>1, <1>2, <1>4, <2>4 DEF CoverInv
<1>8. OrderInv(S, T)'
  <2>0. ASSUME NEW i \in 1..Len(gaps), NEW j \in 1..(gaps[i].send + gaps[i].dropped)
        PROVE  Datum(T, i, j)' = Datum(T, i, j)
    <3>1. PICK r \in Int : r = Rank(T, i, j) /\ r >= 1 /\ b + r <= l - u
      BY <1>1, <1>4, <1>6, Places
    <3>2. r \in 1..Len(data') /\ 0 + r = r
      BY <1>3, <1>6, <3>1
    <3>3. data'[0 + r] = data[ackTotal + r]
      BY <1>3, <3>2
    <3>. QED  BY <1>4, <3>1, <3>3 DEF Datum
  <2>1. ASSUME NEW i \in 1..Len(gaps), NEW j \in 1..gaps[i].send
        PROVE  Sent(Rank(S, i, j), Datum(T, i, j))'
    <3>1. /\ Sent(Rank(S, i, j), Datum(T, i, j)) /\ Rank(S, i, j) \in Int
          /\ j \in 1..(gaps[i].send + gaps[i].dropped)
      BY <1>1, Places DEF OrderInv
    <3>2. Datum(T, i, j)' = Datum(T, i, j)
      BY <2>0, <3>1
    <3>. QED  BY <1>2, <1>4, <3>1, <3>2, SentSame
  <2>2. ASSUME NEW i \in 1..Len(gaps),
               NEW j \in (gaps[i].send + 1)..(gaps[i].send + gaps[i].dropped)
        PROVE  Datum(T, i, j)' \in filtered'
    <3>1. gaps[i].send \in Nat /\ gaps[i].dropped \in Nat
      BY Types
    <3>2. j \in 1..(gaps[i].send + gaps[i].dropped)
      BY <3>1
    <3>. QED  BY <1>1, <1>2, <2>0, <3>2 DEF OrderInv
  <2>. QED  BY <1>2, <2>1, <2>2 DEF OrderInv
<1>. QED  BY <1>2, <1>5, <1>7, <1>8 DEF ListInv

\* The publisher takes the datum of the event that was dropped.
LEMMA ListPublisherTake ==
  ASSUME TypeOK, GapsInv, ListInv, PublisherTake
  PROVE  ListInv'
<1>. USE DEF closeVars, pubVars, ackVars, waiterVars, listVars, clientOnlyVars, queueVars, endVars
<1>1. PICK S \in [0..Len(gaps) -> Int], T \in [0..Len(gaps) -> Int] :
        Sums(S, T) /\ CoverInv(S, T) /\ OrderInv(S, T)
  BY DEF ListInv
<1>2. /\ pub = "take" /\ pub' = "report"
      /\ UNCHANGED <<gaps, attached, ack, ackCount, ackTotal, inQueue>>
  BY DEF PublisherTake
<1>3. Len(data') = Len(data) - 1
  BY PublisherTakeFacts
<1>4. /\ Counted' = Counted /\ Counting' = Counting /\ Untracked = 1 /\ Untracked' = 0
      /\ Pushing = 0 /\ Pushing' = 0
  BY <1>2 DEF Counted, Counting, Untracked, Pushing
<1>5. Sums(S, T)'
  BY <1>1, <1>2 DEF Sums
<1>6. CoverInv(S, T)'
  <2>1. PICK z \in Int, e \in Int, b \in Int, l \in Nat :
          z = T[0] /\ e = T[Len(gaps)] /\ b = Counted /\ l = Len(data)
    BY EndTotals, ListTypes
  <2>2. l = (b + e + 1) - z
    BY <1>1, <1>4, <2>1, Zenon DEF CoverInv
  <2>3. l - 1 = (b + e + 0) - z
    BY <2>2
  <2>4. Len(data') = (Counted' + T[Len(gaps')] + Untracked') - T[0]
    BY <1>2, <1>3, <1>4, <2>1, <2>3, Zenon
  <2>. QED  BY <1>1, <1>2, <1>4, <2>4 DEF CoverInv
<1>7. OrderInv(S, T)'
  <2>1. Len(gaps) = 1 /\ gaps[1].send = 0 /\ gaps[1].dropped = 0
    BY <1>2, Types DEF GapsInv
  <2>2. ASSUME NEW i \in 1..Len(gaps)
        PROVE  1..gaps[i].send = {} /\ (gaps[i].send + 1)..(gaps[i].send + gaps[i].dropped) = {}
    <3>1. gaps[i].send = 0 /\ gaps[i].dropped = 0
      BY <2>1
    <3>2. 1..0 = {} /\ (0 + 1)..(0 + 0) = {}
      OBVIOUS
    <3>. QED  BY <3>1, <3>2, Zenon
  <2>. QED  BY <1>2, <2>2, Zenon DEF OrderInv
<1>. QED  BY <1>2, <1>5, <1>6, <1>7 DEF ListInv

\* Totals with one more at the end are totals.
LEMMA MonoExtend ==
  ASSUME NEW n \in Nat, NEW F \in [0..n -> Int], NEW G, Mono(F, n),
         \A i \in 0..n : G[i] = F[i], G[n + 1] \in Int, F[n] <= G[n + 1]
  PROVE  Mono(G, n + 1)
<1>. SUFFICES ASSUME NEW i \in 0..(n + 1), NEW j \in 0..(n + 1), i <= j
              PROVE  G[i] <= G[j]
  BY DEF Mono
<1>1. CASE j \in 0..n
  BY <1>1 DEF Mono
<1>2. CASE j = n + 1 /\ i \in 0..n
  <2>1. F[i] <= F[n] /\ F[i] \in Int /\ F[n] \in Int
    BY <1>2 DEF Mono
  <2>. QED  BY <1>2, <2>1
<1>3. CASE j = n + 1 /\ i = n + 1
  BY <1>3
<1>. QED  BY <1>1, <1>2, <1>3

\* The same with the last total raised.
LEMMA MonoRaise ==
  ASSUME NEW n \in Nat \ {0}, NEW F \in [0..n -> Int], NEW G, Mono(F, n),
         \A i \in 0..(n - 1) : G[i] = F[i], G[n] \in Int, F[n] <= G[n]
  PROVE  Mono(G, n)
<1>. SUFFICES ASSUME NEW i \in 0..n, NEW j \in 0..n, i <= j
              PROVE  G[i] <= G[j]
  BY DEF Mono
<1>1. CASE j \in 0..(n - 1)
  BY <1>1 DEF Mono
<1>2. CASE j = n /\ i \in 0..(n - 1)
  <2>1. F[i] <= F[n] /\ F[i] \in Int /\ F[n] \in Int
    BY <1>2 DEF Mono
  <2>. QED  BY <1>2, <2>1
<1>3. CASE j = n /\ i = n
  BY <1>3
<1>. QED  BY <1>1, <1>2, <1>3

\* There are totals with one more at the end.
LEMMA Extended ==
  ASSUME NEW n \in Nat, NEW F \in [0..n -> Int], Mono(F, n)
  PROVE  \E G \in [0..(n + 1) -> Int] :
           Mono(G, n + 1) /\ G[n + 1] = F[n] + 1 /\ \A i \in 0..n : G[i] = F[i]
<1>. DEFINE G == [i \in 0..(n + 1) |-> IF i = n + 1 THEN F[n] + 1 ELSE F[i]]
<1>1. G \in [0..(n + 1) -> Int] /\ G[n + 1] = F[n] + 1 /\ F[n] \in Int
  OBVIOUS
<1>2. ASSUME NEW i \in 0..n PROVE G[i] = F[i]
  OBVIOUS
<1>. HIDE DEF G
<1>3. G[n + 1] \in Int /\ F[n] <= G[n + 1]
  BY <1>1
<1>4. Mono(G, n + 1)
  BY <1>2, <1>3, MonoExtend, Zenon
<1>. QED  BY <1>1, <1>2, <1>4

\* There are totals with the last one raised.
LEMMA Raised ==
  ASSUME NEW n \in Nat \ {0}, NEW F \in [0..n -> Int], Mono(F, n)
  PROVE  \E G \in [0..n -> Int] : /\ Mono(G, n) /\ G[n] = F[n] + 1
                                  /\ \A i \in 0..(n - 1) : G[i] = F[i]
<1>. DEFINE G == [i \in 0..n |-> IF i = n THEN F[n] + 1 ELSE F[i]]
<1>1. G \in [0..n -> Int] /\ G[n] = F[n] + 1 /\ F[n] \in Int
  OBVIOUS
<1>2. ASSUME NEW i \in 0..(n - 1) PROVE G[i] = F[i]
  OBVIOUS
<1>. HIDE DEF G
<1>3. G[n] \in Int /\ F[n] <= G[n]
  BY <1>1
<1>4. Mono(G, n)
  BY <1>2, <1>3, MonoRaise, Zenon
<1>. QED  BY <1>1, <1>2, <1>4

\* A send after everything that is acknowledged or in the queue.
LEMMA SentNew ==
  ASSUME NEW k \in Int, NEW d, NEW c \in Int, NEW q \in Nat,
         Counting' = c, Len(inQueue') = q,
         attached' => k > c + q, ack' = "list" => k > c
  PROVE  Sent(k, d)'
<1>1. ASSUME attached' \/ ack' = "list" PROVE ~(k <= c)
  BY <1>1
<1>2. ASSUME attached', NEW m \in 1..q PROVE k # c + m
  BY <1>2
<1>. QED  BY <1>1, <1>2, Zenon DEF Sent

\* The event is added to the list as sent: what it changes, whichever gap it is added to.
LEMMA PublishedFrame ==
  ASSUME TypeOK, Track, event \notin filtered
  PROVE  /\ AddPublished /\ pub = "track" /\ pub' = "push"
         /\ UNCHANGED <<data, inQueue, attached, ack, filtered>>
         /\ Counted' = Counted /\ Counting' = Counting /\ Finished' = Finished
         /\ Untracked = 1 /\ Untracked' = 0 /\ Pushing = 0 /\ Pushing' = 1
<1>1. /\ AddPublished /\ pub = "track" /\ pub' = "push"
      /\ UNCHANGED <<data, inQueue, attached, ack, ackCount, ackTotal, acked, filtered, failed>>
  BY DEF Track, ackVars, clientOnlyVars, queueVars, endVars
<1>. QED  BY <1>1 DEF Counted, Counting, Untracked, Pushing, Finished

\* The event is added as sent to totals that have one more at the end.
LEMMA PublishedCover ==
  ASSUME TypeOK, Track, event \notin filtered,
         NEW S \in [0..Len(gaps) -> Int], NEW T \in [0..Len(gaps) -> Int], CoverInv(S, T),
         NEW S2, NEW T2, S2[0] = S[0], T2[0] = T[0],
         S2[Len(gaps')] = S[Len(gaps)] + 1, T2[Len(gaps')] = T[Len(gaps)] + 1
  PROVE  /\ CoverInv(S2, T2)'
         /\ \A k \in Int : k + S[0] = S[Len(gaps)] + 1 => \A d : Sent(k, d)'
<1>7. PICK z \in Int, e \in Int, y \in Int, f \in Int :
        z = T[0] /\ e = T[Len(gaps)] /\ y = S[0] /\ f = S[Len(gaps)]
  BY EndTotals
<1>8. PICK b \in Int, c \in Int, q \in Nat, l \in Nat :
        b = Counted /\ l = Len(data) /\ c = Counting /\ q = Len(inQueue)
  BY ListTypes
<1>1. /\ z = T[0] /\ e = T[Len(gaps)] /\ b = Counted /\ l = Len(data)
      /\ y = S[0] /\ f = S[Len(gaps)] /\ c = Counting /\ q = Len(inQueue)
  BY <1>7, <1>8
<1>2. l = (b + e + 1) - z /\ (attached => c + q + 0 + y <= f) /\ (ack = "list" => c + y <= f)
  BY <1>1, PublishedFrame, Zenon DEF CoverInv
<1>3. l = (b + (e + 1) + 0) - z /\ (attached => c + q + 1 + y <= f + 1)
      /\ (ack = "list" => c + y <= f + 1)
  BY <1>2
<1>4. CoverInv(S2, T2)'
  <2>1. Len(data') = (Counted' + T2[Len(gaps')] + Untracked') - T2[0]
    BY <1>1, <1>3, PublishedFrame, Zenon
  <2>2. attached' => Counting' + Len(inQueue') + Pushing' + S2[0] <= S2[Len(gaps')]
    BY <1>1, <1>3, PublishedFrame, Zenon
  <2>3. ack' = "list" => Counting' + S2[0] <= S2[Len(gaps')]
    BY <1>1, <1>3, PublishedFrame, Zenon
  <2>. QED  BY <2>1, <2>2, <2>3 DEF CoverInv
<1>5. ASSUME NEW k \in Int, k + y = f + 1, NEW d PROVE Sent(k, d)'
  <2>1. (attached => k > c + q) /\ (ack = "list" => k > c)
    BY <1>2, <1>5
  <2>2. (attached' => k > c + q) /\ (ack' = "list" => k > c) /\ Counting' = c /\ Len(inQueue') = q
    BY <1>1, <2>1, PublishedFrame
  <2>. QED  BY <2>2, SentNew
<1>. QED  BY <1>1, <1>4, <1>5

=============================================================================
