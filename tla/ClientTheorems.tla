--------------------------- MODULE ClientTheorems ---------------------------
(* The steps that change the list of gaps keep their totals; the theorems  *)
(* follow.                                                                 *)
EXTENDS ClientSteps

\* The time given to each prover.
USE ZenonT(5), SMTT(20)

\* The event is added to the list as sent.
LEMMA ListPublished ==
  ASSUME TypeOK, ListInv, Track, event \notin filtered
  PROVE  ListInv'
<1>1. PICK S \in [0..Len(gaps) -> Int], T \in [0..Len(gaps) -> Int] :
        Sums(S, T) /\ CoverInv(S, T) /\ OrderInv(S, T)
  BY DEF ListInv
<1>2. PICK n \in Nat \ {0} : n = Len(gaps)
  BY Types
<1>3. /\ S \in [0..n -> Int] /\ T \in [0..n -> Int] /\ Mono(S, n) /\ Mono(T, n)
      /\ 0 \in 0..n /\ n \in 0..n /\ S[0] \in Int /\ T[0] \in Int /\ S[n] \in Int /\ T[n] \in Int
  BY <1>1, <1>2 DEF Sums
<1>4. \A i \in 1..n : /\ S[i] = S[i - 1] + gaps[i].send
                       /\ T[i] = T[i - 1] + gaps[i].send + gaps[i].dropped
                       /\ gaps[i].send \in Nat /\ gaps[i].dropped \in Nat
                       /\ i - 1 \in 0..n /\ i \in 0..n
  <2>1. \A i \in 1..n : i - 1 \in 0..n /\ i \in 0..n
    OBVIOUS
  <2>2. \A i \in 1..n : gaps[i].send \in Nat /\ gaps[i].dropped \in Nat
    BY <1>2, Types
  <2>. QED  BY <1>1, <1>2, <2>1, <2>2, Zenon DEF Sums
<1>5. PICK c \in Int : c = Counting /\ c = Counting'
  BY ListTypes, PublishedFrame
<1>6. ASSUME NEW i \in 1..n, NEW S2, NEW T2,
             S2[i - 1] = S[i - 1], S2[0] = S[0], T2[i - 1] = T[i - 1], T2[0] = T[0]
      PROVE  /\ \A j \in 1..gaps[i].send : Sent(Rank(S2, i, j), Datum(T2, i, j))'
             /\ \A j \in (gaps[i].send + 1)..(gaps[i].send + gaps[i].dropped) :
                  Datum(T2, i, j)' \in filtered'
  <2>1. ASSUME NEW j PROVE Rank(S2, i, j) = Rank(S, i, j) /\ Datum(T2, i, j)' = Datum(T, i, j)
    BY <1>6, PublishedFrame DEF Rank, Datum
  <2>2. ASSUME NEW j \in 1..gaps[i].send PROVE Sent(Rank(S2, i, j), Datum(T2, i, j))'
    <3>1. Sent(Rank(S, i, j), Datum(T, i, j)) /\ Rank(S, i, j) \in Int
      BY <1>1, <1>2, Places DEF OrderInv
    <3>. QED  BY <1>5, <2>1, <3>1, SentSame, PublishedFrame
  <2>3. ASSUME NEW j \in (gaps[i].send + 1)..(gaps[i].send + gaps[i].dropped)
        PROVE  Datum(T2, i, j)' \in filtered'
    BY <1>1, <1>2, <2>1, PublishedFrame DEF OrderInv
  <2>. QED  BY <2>2, <2>3
<1>7. CASE /\ gaps[n].dropped > 0 /\ Len(gaps') = n + 1
           /\ \A i \in 1..n : gaps'[i] = gaps[i]
           /\ gaps'[n + 1].send = 1 /\ gaps'[n + 1].dropped = 0
  <2>1. PICK S2 \in [0..(n + 1) -> Int] :
          Mono(S2, n + 1) /\ S2[n + 1] = S[n] + 1 /\ \A i \in 0..n : S2[i] = S[i]
    BY <1>3, Extended
  <2>2. PICK T2 \in [0..(n + 1) -> Int] :
          Mono(T2, n + 1) /\ T2[n + 1] = T[n] + 1 /\ \A i \in 0..n : T2[i] = T[i]
    BY <1>3, Extended
  <2>3. Sums(S2, T2)'
    <3>1. ASSUME NEW i \in 1..(n + 1)
          PROVE  /\ S2[i] = S2[i - 1] + gaps'[i].send
                 /\ T2[i] = T2[i - 1] + gaps'[i].send + gaps'[i].dropped
      <4>1. CASE i \in 1..n
        <5>1. gaps'[i] = gaps[i] /\ S2[i] = S[i] /\ S2[i - 1] = S[i - 1] /\ T2[i] = T[i]
              /\ T2[i - 1] = T[i - 1]
          BY <1>4, <1>7, <2>1, <2>2, <4>1, Zenon
        <5>. QED  BY <1>4, <4>1, <5>1, Zenon
      <4>2. CASE i = n + 1
        <5>1. i - 1 = n /\ n \in 0..n
          BY <4>2
        <5>2. S2[i - 1] = S[n] /\ T2[i - 1] = T[n] /\ S2[i] = S[n] + 1 /\ T2[i] = T[n] + 1
              /\ gaps'[i].send = 1 /\ gaps'[i].dropped = 0
          BY <1>7, <2>1, <2>2, <4>2, <5>1, Zenon
        <5>3. \A t \in Int : t + 1 = t + 1 + 0
          OBVIOUS
        <5>. QED  BY <1>3, <5>2, <5>3, Zenon
      <4>. QED  BY <4>1, <4>2
    <3>. QED  BY <1>7, <2>1, <2>2, <3>1, Zenon DEF Sums
  <2>4. /\ CoverInv(S2, T2)'
        /\ \A k \in Int : k + S[0] = S[n] + 1 => \A d : Sent(k, d)'
    <3>1. /\ S2[0] = S[0] /\ T2[0] = T[0]
          /\ S2[Len(gaps')] = S[Len(gaps)] + 1 /\ T2[Len(gaps')] = T[Len(gaps)] + 1
      BY <1>2, <1>3, <1>7, <2>1, <2>2, Zenon
    <3>. QED  BY <1>1, <1>2, <3>1, PublishedCover
  <2>5. OrderInv(S2, T2)'
    <3>1. ASSUME NEW i \in 1..n
          PROVE  /\ \A j \in 1..gaps'[i].send : Sent(Rank(S2, i, j), Datum(T2, i, j))'
                 /\ \A j \in (gaps'[i].send + 1)..(gaps'[i].send + gaps'[i].dropped) :
                      Datum(T2, i, j)' \in filtered'
      <4>1. S2[i - 1] = S[i - 1] /\ S2[0] = S[0] /\ T2[i - 1] = T[i - 1] /\ T2[0] = T[0]
        BY <1>3, <1>4, <2>1, <2>2, Zenon
      <4>. QED  BY <1>6, <1>7, <4>1
    <3>2. ASSUME NEW i \in 1..(n + 1), i = n + 1
          PROVE  /\ \A j \in 1..gaps'[i].send : Sent(Rank(S2, i, j), Datum(T2, i, j))'
                 /\ \A j \in (gaps'[i].send + 1)..(gaps'[i].send + gaps'[i].dropped) :
                      Datum(T2, i, j)' \in filtered'
      <4>1. Rank(S2, i, 1) = (S[n] + 1) - S[0]
        BY <1>3, <2>1, <3>2 DEF Rank
      <4>2. Rank(S2, i, 1) \in Int /\ Rank(S2, i, 1) + S[0] = S[n] + 1
        <5>1. \A x, y \in Int : (x + 1) - y \in Int /\ ((x + 1) - y) + y = x + 1
          OBVIOUS
        <5>2. (S[n] + 1) - S[0] \in Int /\ ((S[n] + 1) - S[0]) + S[0] = S[n] + 1
          BY <1>3, <5>1, Zenon
        <5>. QED  BY <4>1, <5>2
      <4>3. Sent(Rank(S2, i, 1), Datum(T2, i, 1))'
        BY <2>4, <4>2
      <4>. QED  BY <1>7, <3>2, <4>3
    <3>3. ASSUME NEW i \in 1..(n + 1) PROVE i \in 1..n \/ i = n + 1
      OBVIOUS
    <3>. QED  BY <1>7, <3>1, <3>2, <3>3 DEF OrderInv
  <2>. QED  BY <1>7, <2>1, <2>3, <2>4, <2>5 DEF ListInv
<1>8. CASE /\ gaps[n].dropped = 0 /\ Len(gaps') = n
           /\ \A i \in 1..(n - 1) : gaps'[i] = gaps[i]
           /\ gaps'[n].send = gaps[n].send + 1 /\ gaps'[n].dropped = 0
  <2>1. PICK S2 \in [0..n -> Int] :
          Mono(S2, n) /\ S2[n] = S[n] + 1 /\ \A i \in 0..(n - 1) : S2[i] = S[i]
    BY <1>3, Raised
  <2>2. PICK T2 \in [0..n -> Int] :
          Mono(T2, n) /\ T2[n] = T[n] + 1 /\ \A i \in 0..(n - 1) : T2[i] = T[i]
    BY <1>3, Raised
  <2>3. ASSUME NEW i \in 1..n
        PROVE  S2[i - 1] = S[i - 1] /\ S2[0] = S[0] /\ T2[i - 1] = T[i - 1] /\ T2[0] = T[0]
    <3>1. i - 1 \in 0..(n - 1) /\ 0 \in 0..(n - 1)
      OBVIOUS
    <3>. QED  BY <2>1, <2>2, <3>1, Zenon
  <2>4. Sums(S2, T2)'
    <3>1. ASSUME NEW i \in 1..n
          PROVE  /\ S2[i] = S2[i - 1] + gaps'[i].send
                 /\ T2[i] = T2[i - 1] + gaps'[i].send + gaps'[i].dropped
      <4>1. CASE i \in 1..(n - 1)
        <5>1. i \in 0..(n - 1)
          BY <4>1
        <5>2. gaps'[i] = gaps[i] /\ S2[i] = S[i] /\ S2[i - 1] = S[i - 1] /\ T2[i] = T[i]
              /\ T2[i - 1] = T[i - 1]
          BY <1>8, <2>1, <2>2, <2>3, <4>1, <5>1, Zenon
        <5>. QED  BY <1>4, <5>2, Zenon
      <4>2. CASE i = n
        <5>1. PICK a \in Nat, s \in Int, t \in Int :
                a = gaps[n].send /\ s = S[n - 1] /\ t = T[n - 1]
          <6>1. n \in 1..n
            OBVIOUS
          <6>2. gaps[n].send \in Nat /\ S[n - 1] \in Int /\ T[n - 1] \in Int
            BY <1>3, <1>4, <6>1
          <6>. QED  BY <6>2
        <5>2. S[n] = s + a /\ T[n] = t + a + 0
          <6>1. n \in 1..n
            OBVIOUS
          <6>. QED  BY <1>4, <1>8, <5>1, <6>1, Zenon
        <5>3. S[n] + 1 = s + (a + 1) /\ T[n] + 1 = t + (a + 1) + 0
          BY <5>2
        <5>. QED  BY <1>8, <2>1, <2>2, <2>3, <4>2, <5>1, <5>3, Zenon
      <4>. QED  BY <4>1, <4>2
    <3>. QED  BY <1>8, <2>1, <2>2, <3>1, Zenon DEF Sums
  <2>5. /\ CoverInv(S2, T2)'
        /\ \A k \in Int : k + S[0] = S[n] + 1 => \A d : Sent(k, d)'
    <3>1. 1 \in 1..n
      OBVIOUS
    <3>2. /\ S2[0] = S[0] /\ T2[0] = T[0]
          /\ S2[Len(gaps')] = S[Len(gaps)] + 1 /\ T2[Len(gaps')] = T[Len(gaps)] + 1
      BY <1>2, <1>8, <2>1, <2>2, <2>3, <3>1, Zenon
    <3>. QED  BY <1>1, <1>2, <3>2, PublishedCover
  <2>6. OrderInv(S2, T2)'
    <3>1. ASSUME NEW i \in 1..n, i # n
          PROVE  /\ \A j \in 1..gaps'[i].send : Sent(Rank(S2, i, j), Datum(T2, i, j))'
                 /\ \A j \in (gaps'[i].send + 1)..(gaps'[i].send + gaps'[i].dropped) :
                      Datum(T2, i, j)' \in filtered'
      <4>1. gaps'[i] = gaps[i]
        <5>1. i \in 1..(n - 1)
          BY <3>1
        <5>. QED  BY <1>8, <5>1, Zenon
      <4>. QED  BY <1>6, <2>3, <4>1
    <3>2. /\ \A j \in 1..gaps'[n].send : Sent(Rank(S2, n, j), Datum(T2, n, j))'
          /\ \A j \in (gaps'[n].send + 1)..(gaps'[n].send + gaps'[n].dropped) :
               Datum(T2, n, j)' \in filtered'
      <4>1. PICK a \in Nat, s \in Int, z \in Int :
              a = gaps[n].send /\ s = S[n - 1] /\ z = S[0] /\ S[n] = s + a
        <5>1. n \in 1..n
          OBVIOUS
        <5>2. gaps[n].send \in Nat /\ S[n - 1] \in Int /\ S[n] = S[n - 1] + gaps[n].send
          BY <1>3, <1>4, <5>1
        <5>. QED  BY <1>3, <5>2
      <4>2. Rank(S2, n, a + 1) = (s + (a + 1)) - z
        <5>1. n \in 1..n
          OBVIOUS
        <5>. QED  BY <2>3, <4>1, <5>1, Zenon DEF Rank
      <4>3. Rank(S2, n, a + 1) \in Int /\ Rank(S2, n, a + 1) + z = (s + a) + 1
        BY <4>2
      <4>4. Sent(Rank(S2, n, a + 1), Datum(T2, n, a + 1))'
        BY <2>5, <4>1, <4>3
      <4>5. \A j \in 1..a : Sent(Rank(S2, n, j), Datum(T2, n, j))'
        <5>1. n \in 1..n
          OBVIOUS
        <5>. QED  BY <1>6, <2>3, <4>1, <5>1, Zenon
      <4>6. ASSUME NEW j \in 1..(a + 1) PROVE j \in 1..a \/ j = a + 1
        OBVIOUS
      <4>7. (a + 1 + 1)..(a + 1 + 0) = {}
        OBVIOUS
      <4>8. gaps'[n].send = a + 1 /\ gaps'[n].dropped = 0
        BY <1>8, <4>1
      <4>. QED  BY <4>4, <4>5, <4>6, <4>7, <4>8, Zenon
    <3>. QED  BY <1>8, <3>1, <3>2 DEF OrderInv
  <2>. QED  BY <1>8, <2>1, <2>4, <2>5, <2>6 DEF ListInv
<1>. QED  BY <1>2, <1>7, <1>8, PublishedFacts, PublishedFrame

\* A dropped event after sends is added to the last gap.
LEMMA ListDropped ==
  ASSUME TypeOK, GapsInv, ListInv, Track, event \in filtered, LastGap.send > 0
  PROVE  ListInv'
<1>1. PICK S \in [0..Len(gaps) -> Int], T \in [0..Len(gaps) -> Int] :
        Sums(S, T) /\ CoverInv(S, T) /\ OrderInv(S, T)
  BY DEF ListInv
<1>2. PICK n \in Nat \ {0} : n = Len(gaps)
  BY Types
<1>3. /\ S \in [0..n -> Int] /\ T \in [0..n -> Int] /\ Mono(S, n) /\ Mono(T, n)
      /\ 0 \in 0..n /\ n \in 0..n /\ S[0] \in Int /\ T[0] \in Int /\ S[n] \in Int /\ T[n] \in Int
  BY <1>1, <1>2 DEF Sums
<1>4. /\ AddDropped /\ pub = "track" /\ pub' = "idle"
      /\ UNCHANGED <<data, inQueue, attached, ack, ackCount, ackTotal, acked, filtered, failed>>
  BY DEF Track, ackVars, clientOnlyVars, queueVars, endVars
<1>5. /\ Counted' = Counted /\ Counting' = Counting /\ Finished' = Finished
      /\ Untracked = 1 /\ Untracked' = 0 /\ Pushing = 0 /\ Pushing' = 0
  BY <1>4 DEF Counted, Counting, Untracked, Pushing, Finished
<1>6. PICK a \in Nat, d \in Nat, t \in Int, e \in Int :
        a = gaps[n].send /\ d = gaps[n].dropped /\ t = T[n - 1] /\ e = T[n]
  <2>1. gaps[n].send \in Nat /\ gaps[n].dropped \in Nat
    BY <1>2, Types
  <2>2. n - 1 \in 0..n
    OBVIOUS
  <2>3. T[n - 1] \in Int
    BY <1>3, <2>2
  <2>. QED  BY <1>3, <2>1, <2>3
<1>7. e = t + a + d
  <2>1. n \in 1..n
    OBVIOUS
  <2>. QED  BY <1>1, <1>2, <1>6, <2>1, Zenon DEF Sums
<1>8. /\ Len(gaps') = n /\ \A i \in 1..(n - 1) : gaps'[i] = gaps[i]
      /\ gaps'[n].send = a /\ gaps'[n].dropped = d + 1
  BY <1>2, <1>4, <1>6, DroppedFacts, Zenon
<1>9. PICK T2 \in [0..n -> Int] :
        Mono(T2, n) /\ T2[n] = T[n] + 1 /\ \A i \in 0..(n - 1) : T2[i] = T[i]
  BY <1>3, Raised
<1>10. ASSUME NEW i \in 1..n PROVE T2[i - 1] = T[i - 1] /\ T2[0] = T[0]
  <2>1. i - 1 \in 0..(n - 1) /\ 0 \in 0..(n - 1)
    OBVIOUS
  <2>. QED  BY <1>9, <2>1, Zenon
<1>11. n \in 1..n /\ 1 \in 1..n
  OBVIOUS
<1>12. ASSUME NEW i \in 1..n, i # n PROVE gaps'[i] = gaps[i] /\ T2[i] = T[i]
  <2>1. i \in 1..(n - 1) /\ i \in 0..(n - 1)
    BY <1>12
  <2>. QED  BY <1>8, <1>9, <2>1, Zenon
<1>13. Sums(S, T2)'
  <2>1. ASSUME NEW i \in 1..n
        PROVE  /\ S[i] = S[i - 1] + gaps'[i].send
               /\ T2[i] = T2[i - 1] + gaps'[i].send + gaps'[i].dropped
    <3>0. /\ S[i] = S[i - 1] + gaps[i].send
          /\ T[i] = T[i - 1] + gaps[i].send + gaps[i].dropped
      BY <1>1, <1>2 DEF Sums
    <3>1. CASE i # n
      BY <1>10, <1>12, <3>0, <3>1, Zenon
    <3>2. CASE i = n
      <4>1. e + 1 = t + a + (d + 1)
        BY <1>7
      <4>. QED  BY <1>6, <1>8, <1>9, <1>10, <3>0, <3>2, <4>1, Zenon
    <3>. QED  BY <3>1, <3>2
  <2>. QED  BY <1>3, <1>8, <1>9, <2>1, Zenon DEF Sums
<1>14. PICK b \in Int, l \in Int, z \in Int : b = Counted /\ l = Len(data) /\ z = T[0]
  BY <1>3, ListTypes
<1>15. l = (b + e + 1) - z
  BY <1>1, <1>2, <1>5, <1>6, <1>14, Zenon DEF CoverInv
<1>16. CoverInv(S, T2)'
  <2>1. l = (b + (e + 1) + 0) - z
    BY <1>15
  <2>2. Len(data') = (Counted' + T2[Len(gaps')] + Untracked') - T2[0]
    BY <1>4, <1>5, <1>6, <1>8, <1>9, <1>10, <1>11, <1>14, <2>1, Zenon
  <2>3. attached' => Counting' + Len(inQueue') + Pushing' + S[0] <= S[Len(gaps')]
    BY <1>1, <1>2, <1>4, <1>5, <1>8 DEF CoverInv
  <2>4. ack' = "list" => Counting' + S[0] <= S[Len(gaps')]
    BY <1>1, <1>2, <1>4, <1>5, <1>8 DEF CoverInv
  <2>. QED  BY <2>2, <2>3, <2>4 DEF CoverInv
<1>17. PICK c \in Int : c = Counting /\ c = Counting'
  BY <1>5, ListTypes
<1>18. ASSUME NEW i \in 1..n, NEW j PROVE Datum(T2, i, j)' = Datum(T, i, j)
  BY <1>4, <1>5, <1>10 DEF Rank, Datum
<1>19. ASSUME NEW i \in 1..n, NEW j \in 1..gaps[i].send PROVE Sent(Rank(S, i, j), Datum(T2, i, j))'
  <2>1. Sent(Rank(S, i, j), Datum(T, i, j)) /\ Rank(S, i, j) \in Int
    BY <1>1, <1>2, Places DEF OrderInv
  <2>. QED  BY <1>4, <1>5, <1>17, <1>18, <2>1, SentSame
<1>20. ASSUME NEW i \in 1..n, NEW j \in (gaps[i].send + 1)..(gaps[i].send + gaps[i].dropped)
       PROVE  Datum(T2, i, j)' \in filtered'
  BY <1>1, <1>2, <1>4, <1>18 DEF OrderInv
<1>21. Datum(T2, n, a + d + 1)' \in filtered'
  <2>1. Counted + Rank(T, n, a + d + 1) = b + ((t + (a + d + 1)) - z)
    BY <1>6, <1>14, Zenon DEF Rank
  <2>2. b + ((t + (a + d + 1)) - z) = l
    BY <1>7, <1>15
  <2>3. data[Len(data)] = event
    BY <1>4 DEF GapsInv
  <2>4. Datum(T, n, a + d + 1) = event
    BY <1>14, <2>1, <2>2, <2>3, Zenon DEF Datum
  <2>. QED  BY <1>4, <1>11, <1>18, <2>4, Zenon
<1>22. OrderInv(S, T2)'
  <2>1. ASSUME NEW i \in 1..n, i # n
        PROVE  /\ \A j \in 1..gaps'[i].send : Sent(Rank(S, i, j), Datum(T2, i, j))'
               /\ \A j \in (gaps'[i].send + 1)..(gaps'[i].send + gaps'[i].dropped) :
                    Datum(T2, i, j)' \in filtered'
    BY <1>12, <1>19, <1>20, <2>1, Zenon
  <2>2. \A j \in 1..gaps'[n].send : Sent(Rank(S, n, j), Datum(T2, n, j))'
    BY <1>6, <1>8, <1>11, <1>19, Zenon
  <2>3. \A j \in (gaps'[n].send + 1)..(gaps'[n].send + gaps'[n].dropped) :
          Datum(T2, n, j)' \in filtered'
    <3>1. ASSUME NEW j \in (a + 1)..(a + (d + 1))
          PROVE  j \in (a + 1)..(a + d) \/ j = a + d + 1
      OBVIOUS
    <3>2. \A j \in (a + 1)..(a + (d + 1)) : Datum(T2, n, j)' \in filtered'
      BY <1>6, <1>11, <1>20, <1>21, <3>1, Zenon
    <3>. QED  BY <1>8, <3>2, Zenon
  <2>4. ASSUME NEW i \in 1..n
        PROVE  /\ \A j \in 1..gaps'[i].send : Sent(Rank(S, i, j), Datum(T2, i, j))'
               /\ \A j \in (gaps'[i].send + 1)..(gaps'[i].send + gaps'[i].dropped) :
                    Datum(T2, i, j)' \in filtered'
    BY <2>1, <2>2, <2>3, Zenon
  <2>. QED  BY <1>8, <2>4 DEF OrderInv
<1>. QED  BY <1>3, <1>8, <1>9, <1>13, <1>16, <1>22 DEF ListInv

\* A turn of the loop changes only the list of gaps and its own counters.
LEMMA AckListFrame ==
  ASSUME TypeOK, AckList
  PROVE  /\ ack = "list" /\ ack' = "list" /\ UNCHANGED <<data, inQueue, attached, filtered>>
         /\ Counting = ackCount /\ Counting' = ackCount' /\ Counted = ackTotal /\ Counted' = ackTotal'
         /\ Finished' = Finished /\ Untracked' = Untracked /\ Pushing' = Pushing
         /\ ackCount \in Nat /\ ackTotal \in Nat /\ ackCount > 0
<1>1. /\ ack = "list" /\ ack' = "list" /\ ackCount > 0
      /\ UNCHANGED <<data, inQueue, attached, filtered, acked, failed, pub>>
  BY DEF AckList, pubVars, clientOnlyVars, queueVars, endVars
<1>. QED  BY <1>1 DEF Counted, Counting, Untracked, Pushing, Finished, TypeOK

\* A turn of the loop takes x sends, and y data with them, off the list.
Took(x, y) == ackCount' = ackCount - x /\ ackTotal' = ackTotal + y

\* The totals F2 of n2 gaps are x less than the totals F of n gaps.
Less(F, n, F2, n2, x) ==
  F2[0] \in Int /\ F2[n2] \in Int /\ F2[n2] - F2[0] = (F[n] - F[0]) - x

\* The list covers what is left after a turn of the loop.
LEMMA AckCover ==
  ASSUME TypeOK, AckList, NEW S \in [0..Len(gaps) -> Int], NEW T \in [0..Len(gaps) -> Int],
         CoverInv(S, T), NEW x \in Int, NEW y \in Int, NEW S2, NEW T2, Took(x, y),
         Less(S, Len(gaps), S2, Len(gaps'), x), Less(T, Len(gaps), T2, Len(gaps'), y)
  PROVE  CoverInv(S2, T2)'
<1>0. PICK s0 \in Int, sn \in Int, t0 \in Int, tn \in Int :
        S2[0] = s0 /\ S2[Len(gaps')] = sn /\ T2[0] = t0 /\ T2[Len(gaps')] = tn
  BY Zenon DEF Less
<1>1. PICK z \in Int, e \in Int, v \in Int, f \in Int :
        z = T[0] /\ e = T[Len(gaps)] /\ v = S[0] /\ f = S[Len(gaps)]
  BY EndTotals
<1>2. PICK b \in Int, c \in Int, q \in Int, l \in Int :
        b = ackTotal /\ l = Len(data) /\ c = ackCount /\ q = Len(inQueue)
  <2>1. ackTotal \in Int /\ Len(data) \in Int /\ ackCount \in Int /\ Len(inQueue) \in Int
    BY AckListFrame, ListTypes
  <2>. QED  BY <2>1, Zenon
<1>3. PICK u \in Int, p \in Int : u = Untracked /\ p = Pushing
  BY ListTypes
<1>4. l = (b + e + u) - z /\ (attached => c + q + p + v <= f) /\ c + v <= f
  BY <1>1, <1>2, <1>3, AckListFrame, Zenon DEF CoverInv
<1>5. sn - s0 = (f - v) - x /\ tn - t0 = (e - z) - y
  BY <1>0, <1>1, Zenon DEF Less
<1>6. /\ l = ((b + y) + tn + u) - t0 /\ (attached => (c - x) + q + p + s0 <= sn)
      /\ (c - x) + s0 <= sn
  BY <1>4, <1>5
<1>7. Counting' = c - x /\ Counted' = b + y /\ Untracked' = u /\ Pushing' = p
  BY <1>2, <1>3, AckListFrame, Zenon DEF Took
<1>8. Len(data') = (Counted' + T2[Len(gaps')] + Untracked') - T2[0]
  BY <1>0, <1>2, <1>6, <1>7, AckListFrame, Zenon
<1>9. attached' => Counting' + Len(inQueue') + Pushing' + S2[0] <= S2[Len(gaps')]
  BY <1>0, <1>2, <1>6, <1>7, AckListFrame, Zenon
<1>10. Counting' + S2[0] <= S2[Len(gaps')]
  BY <1>0, <1>6, <1>7, Zenon
<1>. QED  BY <1>8, <1>9, <1>10 DEF CoverInv

\* A place that moves with the places of its gap.
LEMMA MovedPlaces ==
  ASSUME NEW a \in Nat, NEW d \in Nat, NEW w \in Nat
  PROVE  /\ \A j \in 1..a : j + w \in 1..(a + w) /\ j \in Int /\ j + w \in 1..(a + w + d)
         /\ \A j \in (a + 1)..(a + d) :
              j + w \in (a + w + 1)..(a + w + d) /\ j \in Int /\ j + w \in 1..(a + w + d)
OBVIOUS

\* The places of gap i by the totals F2 are those of gap h by F, from the w-th on, less x.
Moved(F, F2, i, h, w, x) == \A j \in Int : Rank(F2, i, j) = Rank(F, h, j + w) - x

\* Gap i of the new list is gap h of the list without its first w sends.
Kept(i, h, w) ==
  \E a, d \in Nat : /\ gaps'[i].send = a /\ gaps'[i].dropped = d
                    /\ gaps[h].send = a + w /\ gaps[h].dropped = d

\* A gap that stays on the list, maybe without its first sends.
LEMMA AckStays ==
  ASSUME TypeOK, AckList, NEW S \in [0..Len(gaps) -> Int], NEW T \in [0..Len(gaps) -> Int],
         Sums(S, T), CoverInv(S, T), OrderInv(S, T), NEW x \in Int, NEW y \in Int, NEW S2, NEW T2,
         Took(x, y), NEW i, NEW h \in 1..Len(gaps), NEW w \in Nat, Kept(i, h, w),
         Moved(S, S2, i, h, w, x), Moved(T, T2, i, h, w, y)
  PROVE  /\ \A j \in 1..gaps'[i].send : Sent(Rank(S2, i, j), Datum(T2, i, j))'
         /\ \A j \in (gaps'[i].send + 1)..(gaps'[i].send + gaps'[i].dropped) :
              Datum(T2, i, j)' \in filtered'
<1>0. PICK a \in Nat, d \in Nat : /\ gaps'[i].send = a /\ gaps'[i].dropped = d
                                  /\ gaps[h].send = a + w /\ gaps[h].dropped = d
  BY Zenon DEF Kept
<1>1. PICK b \in Int, c \in Int : b = ackTotal /\ c = ackCount
  BY AckListFrame
<1>2. Counting = c /\ Counting' = c - x /\ Counted = b /\ Counted' = b + y
  BY <1>1, AckListFrame, Zenon DEF Took
<1>3. ASSUME NEW j \in Int, Rank(T, h, j + w) \in Int PROVE Datum(T2, i, j)' = Datum(T, h, j + w)
  <2>1. PICK r \in Int : r = Rank(T, h, j + w)
    BY <1>3
  <2>2. Rank(T2, i, j) = r - y
    BY <2>1, Zenon DEF Moved
  <2>3. (b + y) + (r - y) = b + r
    OBVIOUS
  <2>. QED  BY <1>2, <2>1, <2>2, <2>3, AckListFrame, Zenon DEF Datum
<1>4. ASSUME NEW j \in 1..a PROVE Sent(Rank(S2, i, j), Datum(T2, i, j))'
  <2>1. j + w \in 1..(a + w) /\ j \in Int /\ j + w \in 1..(a + w + d)
    BY MovedPlaces, Zenon
  <2>2. /\ Sent(Rank(S, h, j + w), Datum(T, h, j + w)) /\ Rank(S, h, j + w) \in Int
        /\ Rank(T, h, j + w) \in Int
    BY <1>0, <2>1, Places, Zenon DEF OrderInv
  <2>3. PICK r \in Int, g \in {Datum(T, h, j + w)} : r = Rank(S, h, j + w) /\ g = Datum(T, h, j + w)
    BY <2>2
  <2>4. PICK k \in Int, c2 \in Int : k = r - x /\ c2 = c - x /\ k - c2 = r - c
    <3>1. r - x \in Int /\ c - x \in Int /\ (r - x) - (c - x) = r - c
      OBVIOUS
    <3>. QED  BY <3>1, Zenon
  <2>5. k = Rank(S2, i, j) /\ g = Datum(T2, i, j)'
    BY <1>3, <2>1, <2>2, <2>3, <2>4, Zenon DEF Moved
  <2>6. /\ UNCHANGED inQueue /\ Finished \subseteq Finished'
        /\ (attached' => attached) /\ (attached' \/ ack' = "list" => attached \/ ack = "list")
    BY AckListFrame
  <2>7. Sent(r, g) /\ Counting = c /\ Counting' = c2
    BY <1>2, <2>2, <2>3, <2>4, Zenon
  <2>8. Sent(k, g)'
    BY <2>4, <2>6, <2>7, SentSame
  <2>. QED  BY <2>5, <2>8
<1>5. ASSUME NEW j \in (a + 1)..(a + d) PROVE Datum(T2, i, j)' \in filtered'
  <2>1. j + w \in (a + w + 1)..(a + w + d) /\ j \in Int /\ j + w \in 1..(a + w + d)
    BY MovedPlaces, Zenon
  <2>2. Datum(T, h, j + w) \in filtered /\ Rank(T, h, j + w) \in Int
    BY <1>0, <2>1, Places, Zenon DEF OrderInv
  <2>. QED  BY <1>3, <2>1, <2>2, AckListFrame
<1>. QED  BY <1>0, <1>4, <1>5, Zenon

\* There are totals that begin later, at the same end.
LEMMA Lowered ==
  ASSUME NEW n \in Nat \ {0}, NEW F \in [0..n -> Int], Mono(F, n), NEW c \in Nat, F[0] + c <= F[1]
  PROVE  \E G \in [0..n -> Int] : /\ Mono(G, n) /\ G[0] = F[0] + c
                                  /\ \A i \in 1..n : G[i] = F[i]
<1>. DEFINE G == [i \in 0..n |-> IF i = 0 THEN F[0] + c ELSE F[i]]
<1>1. G \in [0..n -> Int] /\ G[0] = F[0] + c /\ F[0] \in Int /\ F[1] \in Int
  OBVIOUS
<1>2. ASSUME NEW i \in 1..n PROVE G[i] = F[i]
  OBVIOUS
<1>. HIDE DEF G
<1>3. ASSUME NEW i \in 0..n, NEW j \in 0..n, i <= j PROVE G[i] <= G[j]
  <2>1. CASE i \in 1..n
    <3>1. j \in 1..n
      BY <1>3, <2>1
    <3>2. F[i] <= F[j]
      BY <1>3 DEF Mono
    <3>. QED  BY <1>2, <2>1, <3>1, <3>2, Zenon
  <2>2. CASE i = 0 /\ j = 0
    BY <1>1, <2>2
  <2>3. CASE i = 0 /\ j \in 1..n
    <3>1. 1 \in 0..n /\ j \in 0..n /\ 1 <= j
      BY <2>3
    <3>2. F[1] <= F[j] /\ F[j] \in Int /\ F[1] \in Int
      BY <3>1 DEF Mono
    <3>3. F[0] + c <= F[j]
      BY <1>1, <3>2
    <3>. QED  BY <1>1, <1>2, <2>3, <3>3, Zenon
  <2>. QED  BY <1>3, <2>1, <2>2, <2>3
<1>4. Mono(G, n)
  BY <1>3 DEF Mono
<1>. QED  BY <1>1, <1>2, <1>4

\* There are totals without the first one.
LEMMA Shifted ==
  ASSUME NEW n \in Nat, NEW F \in [0..(n + 1) -> Int], Mono(F, n + 1)
  PROVE  \E G \in [0..n -> Int] : Mono(G, n) /\ \A i \in 0..n : G[i] = F[i + 1]
<1>. DEFINE G == [i \in 0..n |-> F[i + 1]]
<1>0. \A i \in 0..n : i + 1 \in 0..(n + 1)
  OBVIOUS
<1>1. G \in [0..n -> Int]
  BY <1>0
<1>2. ASSUME NEW i \in 0..n PROVE G[i] = F[i + 1]
  OBVIOUS
<1>. HIDE DEF G
<1>3. ASSUME NEW i \in 0..n, NEW j \in 0..n, i <= j PROVE G[i] <= G[j]
  <2>1. i + 1 <= j + 1
    BY <1>3
  <2>2. F[i + 1] <= F[j + 1]
    BY <1>0, <2>1 DEF Mono
  <2>. QED  BY <1>2, <2>2, Zenon
<1>4. Mono(G, n)
  BY <1>3 DEF Mono
<1>. QED  BY <1>1, <1>2, <1>4

\* The places by totals that begin later.
LEMMA LoweredPlaces ==
  ASSUME NEW n \in Nat \ {0}, NEW F \in [0..n -> Int], NEW F2 \in [0..n -> Int], NEW c \in Nat,
         F2[0] = F[0] + c, \A i \in 1..n : F2[i] = F[i]
  PROVE  /\ Moved(F, F2, 1, 1, c, c)
         /\ \A i \in 1..n : i # 1 => Moved(F, F2, i, i, 0, c)
<1>1. PICK z \in Int : z = F[0]
  OBVIOUS
<1>2. Moved(F, F2, 1, 1, c, c)
  <2>. SUFFICES ASSUME NEW j \in Int PROVE Rank(F2, 1, j) = Rank(F, 1, j + c) - c
    BY DEF Moved
  <2>1. Rank(F2, 1, j) = ((z + c) + j) - (z + c) /\ Rank(F, 1, j + c) = (z + (j + c)) - z
    BY <1>1 DEF Rank
  <2>. QED  BY <2>1
<1>3. ASSUME NEW i \in 1..n, i # 1 PROVE Moved(F, F2, i, i, 0, c)
  <2>. SUFFICES ASSUME NEW j \in Int PROVE Rank(F2, i, j) = Rank(F, i, j + 0) - c
    BY DEF Moved
  <2>0. i - 1 \in 1..n /\ i - 1 \in 0..n
    BY <1>3
  <2>1. PICK v \in Int : v = F[i - 1] /\ v = F2[i - 1]
    BY <2>0
  <2>2. Rank(F2, i, j) = (v + j) - (z + c) /\ Rank(F, i, j + 0) = (v + (j + 0)) - z
    BY <1>1, <2>1, Zenon DEF Rank
  <2>. QED  BY <2>2
<1>. QED  BY <1>2, <1>3

\* The places by totals without the first one.
LEMMA ShiftedPlaces ==
  ASSUME NEW n \in Nat, NEW F \in [0..(n + 1) -> Int], NEW F2 \in [0..n -> Int],
         \A i \in 0..n : F2[i] = F[i + 1], NEW x \in Int, F[1] = F[0] + x
  PROVE  \A i \in 1..n : Moved(F, F2, i, i + 1, 0, x)
<1>. SUFFICES ASSUME NEW i \in 1..n, NEW j \in Int
              PROVE  Rank(F2, i, j) = Rank(F, i + 1, j + 0) - x
  BY DEF Moved
<1>1. i - 1 \in 0..n /\ 0 \in 0..n /\ (i - 1) + 1 = i /\ (i + 1) - 1 = i /\ 0 + 1 = 1
      /\ i \in 0..(n + 1) /\ 0 \in 0..(n + 1)
  OBVIOUS
<1>2. PICK v \in Int, z \in Int : v = F[i] /\ z = F[0]
  BY <1>1
<1>3. F2[i - 1] = v /\ F2[0] = z + x
  BY <1>1, <1>2, Zenon
<1>4. Rank(F2, i, j) = (v + j) - (z + x) /\ Rank(F, i + 1, j + 0) = (v + (j + 0)) - z
  BY <1>1, <1>2, <1>3, Zenon DEF Rank
<1>. QED  BY <1>4

\* The loop takes a part of the sends of the first gap.
LEMMA ListAckPart ==
  ASSUME TypeOK, ListInv, AckList, ackCount < gaps[1].send, Len(gaps') = Len(gaps),
         gaps'[1].send = gaps[1].send - ackCount, gaps'[1].dropped = gaps[1].dropped,
         \A i \in 2..Len(gaps) : gaps'[i] = gaps[i],
         ackTotal' = ackTotal + ackCount, ackCount' = 0
  PROVE  ListInv'
<1>1. PICK S \in [0..Len(gaps) -> Int], T \in [0..Len(gaps) -> Int] :
        Sums(S, T) /\ CoverInv(S, T) /\ OrderInv(S, T)
  BY DEF ListInv
<1>2. PICK n \in Nat \ {0} : n = Len(gaps)
  BY Types
<1>3. /\ S \in [0..n -> Int] /\ T \in [0..n -> Int] /\ Mono(S, n) /\ Mono(T, n)
  BY <1>1, <1>2 DEF Sums
<1>4. PICK a \in Nat, d \in Nat, c \in Nat : a = gaps[1].send /\ d = gaps[1].dropped /\ c = ackCount
  BY Types, AckListFrame
<1>5. 0 \in 0..n /\ 1 \in 0..n /\ n \in 0..n /\ 1 \in 1..n /\ n \in 1..n
  OBVIOUS
<1>6. PICK s0 \in Int, t0 \in Int, sn \in Int, tn \in Int :
        s0 = S[0] /\ t0 = T[0] /\ sn = S[n] /\ tn = T[n]
  <2>1. S[0] \in Int /\ T[0] \in Int /\ S[n] \in Int /\ T[n] \in Int
    BY <1>3, <1>5
  <2>. QED  BY <2>1, Zenon
<1>7. S[1] = s0 + a /\ T[1] = t0 + a + d
  <2>1. 1 - 1 = 0
    OBVIOUS
  <2>2. S[1] = S[1 - 1] + gaps[1].send /\ T[1] = T[1 - 1] + gaps[1].send + gaps[1].dropped
    BY <1>1, <1>2, <1>5, Zenon DEF Sums
  <2>. QED  BY <1>4, <1>6, <2>1, <2>2, Zenon
<1>8. c < a
  BY <1>4, Zenon
<1>9. PICK S2 \in [0..n -> Int] : Mono(S2, n) /\ S2[0] = S[0] + c /\ \A i \in 1..n : S2[i] = S[i]
  <2>1. s0 + c <= s0 + a
    BY <1>8
  <2>2. S[0] + c <= S[1]
    BY <1>6, <1>7, <2>1, Zenon
  <2>. QED  BY <1>3, <2>2, Lowered
<1>10. PICK T2 \in [0..n -> Int] : Mono(T2, n) /\ T2[0] = T[0] + c /\ \A i \in 1..n : T2[i] = T[i]
  <2>1. t0 + c <= t0 + a + d
    BY <1>8
  <2>2. T[0] + c <= T[1]
    BY <1>6, <1>7, <2>1, Zenon
  <2>. QED  BY <1>3, <2>2, Lowered
<1>11. PICK r \in Nat : r = a - c
  BY <1>8
<1>12. gaps'[1].send = r /\ gaps'[1].dropped = d
  BY <1>4, <1>11, Zenon
<1>13. Sums(S2, T2)'
  <2>1. ASSUME NEW i \in 1..n
        PROVE  /\ S2[i] = S2[i - 1] + gaps'[i].send
               /\ T2[i] = T2[i - 1] + gaps'[i].send + gaps'[i].dropped
    <3>1. CASE i = 1
      <4>1. s0 + a = (s0 + c) + r /\ t0 + a + d = (t0 + c) + r + d /\ 1 - 1 = 0
        BY <1>11
      <4>2. S2[1] = s0 + a /\ T2[1] = t0 + a + d /\ S2[0] = s0 + c /\ T2[0] = t0 + c
        BY <1>5, <1>6, <1>7, <1>9, <1>10, Zenon
      <4>. QED  BY <1>12, <3>1, <4>1, <4>2, Zenon
    <3>2. CASE i # 1
      <4>1. i \in 2..n /\ i - 1 \in 1..n
        BY <3>2
      <4>2. gaps'[i] = gaps[i] /\ S2[i] = S[i] /\ S2[i - 1] = S[i - 1] /\ T2[i] = T[i]
            /\ T2[i - 1] = T[i - 1]
        BY <1>2, <1>9, <1>10, <4>1, Zenon
      <4>. QED  BY <1>1, <1>2, <4>2, Zenon DEF Sums
    <3>. QED  BY <3>1, <3>2
  <2>. QED  BY <1>2, <1>9, <1>10, <2>1, Zenon DEF Sums
<1>14. Took(c, c)
  BY <1>4 DEF Took
<1>15. CoverInv(S2, T2)'
  <2>1. PICK s2 \in Int, t2 \in Int : s2 = s0 + c /\ t2 = t0 + c
    OBVIOUS
  <2>2. sn - s2 = (sn - s0) - c /\ tn - t2 = (tn - t0) - c
    BY <2>1
  <2>3. S2[0] = s2 /\ T2[0] = t2 /\ S2[Len(gaps')] = sn /\ T2[Len(gaps')] = tn
    BY <1>2, <1>5, <1>6, <1>9, <1>10, <2>1, Zenon
  <2>4. Less(S, Len(gaps), S2, Len(gaps'), c) /\ Less(T, Len(gaps), T2, Len(gaps'), c)
    BY <1>2, <1>6, <2>2, <2>3, Zenon DEF Less
  <2>5. c \in Int
    OBVIOUS
  <2>. QED  BY <1>1, <1>14, <2>4, <2>5, AckCover, Zenon
<1>16. /\ Moved(S, S2, 1, 1, c, c) /\ Moved(T, T2, 1, 1, c, c)
       /\ \A i \in 1..n : i # 1 => Moved(S, S2, i, i, 0, c) /\ Moved(T, T2, i, i, 0, c)
  BY <1>3, <1>9, <1>10, LoweredPlaces
<1>17. ASSUME NEW i \in 1..n
       PROVE  /\ \A j \in 1..gaps'[i].send : Sent(Rank(S2, i, j), Datum(T2, i, j))'
              /\ \A j \in (gaps'[i].send + 1)..(gaps'[i].send + gaps'[i].dropped) :
                   Datum(T2, i, j)' \in filtered'
  <2>0. c \in Int /\ 0 \in Nat /\ 1 \in 1..Len(gaps) /\ i \in 1..Len(gaps)
    BY <1>2, <1>4, <1>5
  <2>1. CASE i = 1
    <3>1. gaps[1].send = r + c /\ gaps[1].dropped = d
      <4>1. a = r + c
        BY <1>11
      <4>. QED  BY <1>4, <4>1
    <3>2. Kept(1, 1, c)
      BY <1>12, <3>1, Zenon DEF Kept
    <3>. QED  BY <1>1, <1>14, <1>16, <2>0, <2>1, <3>2, AckStays, Zenon
  <2>2. CASE i # 1
    <3>1. PICK u \in Nat, v \in Nat : u = gaps[i].send /\ v = gaps[i].dropped
      BY <2>0, Types
    <3>2. i \in 2..n
      BY <2>2
    <3>3. gaps'[i].send = u /\ gaps'[i].dropped = v /\ u = u + 0
      BY <1>2, <3>1, <3>2
    <3>4. gaps[i].send = u + 0 /\ gaps[i].dropped = v
      BY <3>1, <3>3
    <3>5. Kept(i, i, 0)
      BY <3>3, <3>4, Zenon DEF Kept
    <3>. QED  BY <1>1, <1>14, <1>16, <2>0, <2>2, <3>5, AckStays, Zenon
  <2>. QED  BY <2>1, <2>2
<1>18. OrderInv(S2, T2)'
  BY <1>2, <1>17 DEF OrderInv
<1>. QED  BY <1>2, <1>9, <1>10, <1>13, <1>15, <1>18 DEF ListInv

\* The loop takes the first of several gaps.
LEMMA ListAckGap ==
  ASSUME TypeOK, ListInv, AckList, Len(gaps) > 1, Len(gaps') = Len(gaps) - 1,
         \A i \in 1..(Len(gaps) - 1) : gaps'[i] = gaps[i + 1],
         ackTotal' = ackTotal + gaps[1].send + gaps[1].dropped,
         ackCount' = ackCount - gaps[1].send
  PROVE  ListInv'
<1>1. PICK S \in [0..Len(gaps) -> Int], T \in [0..Len(gaps) -> Int] :
        Sums(S, T) /\ CoverInv(S, T) /\ OrderInv(S, T)
  BY DEF ListInv
<1>2. PICK n \in Nat \ {0} : n + 1 = Len(gaps) /\ n = Len(gaps')
  <2>1. Len(gaps) \in Nat
    BY Types
  <2>. QED  BY <2>1
<1>3. /\ S \in [0..(n + 1) -> Int] /\ T \in [0..(n + 1) -> Int]
      /\ Mono(S, n + 1) /\ Mono(T, n + 1)
  BY <1>1, <1>2 DEF Sums
<1>4. PICK a \in Nat, d \in Nat, b \in Nat, c \in Nat :
        a = gaps[1].send /\ d = gaps[1].dropped /\ b = ackTotal /\ c = ackCount
  BY Types, AckListFrame
<1>5. /\ 0 \in 0..(n + 1) /\ 1 \in 0..(n + 1) /\ n + 1 \in 0..(n + 1) /\ 1 \in 1..(n + 1)
      /\ 0 \in 0..n /\ n \in 0..n /\ 1 - 1 = 0 /\ 0 + 1 = 1 /\ 0 \in Nat
  OBVIOUS
<1>6. PICK s0 \in Int, t0 \in Int, sn \in Int, tn \in Int :
        s0 = S[0] /\ t0 = T[0] /\ sn = S[n + 1] /\ tn = T[n + 1]
  <2>1. S[0] \in Int /\ T[0] \in Int /\ S[n + 1] \in Int /\ T[n + 1] \in Int
    BY <1>3, <1>5
  <2>. QED  BY <2>1, Zenon
<1>7. PICK x \in Int, y \in Int : x = a /\ y = a + d
  OBVIOUS
<1>8. S[1] = s0 + x /\ T[1] = t0 + y
  <2>2. S[1] = S[1 - 1] + gaps[1].send /\ T[1] = T[1 - 1] + gaps[1].send + gaps[1].dropped
    BY <1>1, <1>2, <1>5, Zenon DEF Sums
  <2>3. S[1] = s0 + a /\ T[1] = t0 + a + d
    BY <1>4, <1>5, <1>6, <2>2, Zenon
  <2>4. t0 + a + d = t0 + (a + d)
    OBVIOUS
  <2>. QED  BY <1>7, <2>3, <2>4, Zenon
<1>9. PICK S2 \in [0..n -> Int] : Mono(S2, n) /\ \A i \in 0..n : S2[i] = S[i + 1]
  BY <1>3, Shifted
<1>10. PICK T2 \in [0..n -> Int] : Mono(T2, n) /\ \A i \in 0..n : T2[i] = T[i + 1]
  BY <1>3, Shifted
<1>11. ASSUME NEW i \in 1..n
       PROVE  /\ i + 1 \in 1..(n + 1) /\ i - 1 \in 0..n /\ i \in 0..n /\ (i - 1) + 1 = i
              /\ (i + 1) - 1 = i
  OBVIOUS
<1>12. ASSUME NEW i \in 1..n PROVE gaps'[i] = gaps[i + 1]
  <2>1. i \in 1..(Len(gaps) - 1)
    BY <1>2
  <2>. QED  BY <2>1
<1>13. Sums(S2, T2)'
  <2>1. ASSUME NEW i \in 1..n
        PROVE  /\ S2[i] = S2[i - 1] + gaps'[i].send
               /\ T2[i] = T2[i - 1] + gaps'[i].send + gaps'[i].dropped
    <3>1. /\ S[i + 1] = S[(i + 1) - 1] + gaps[i + 1].send
          /\ T[i + 1] = T[(i + 1) - 1] + gaps[i + 1].send + gaps[i + 1].dropped
      BY <1>1, <1>2, <1>11, Zenon DEF Sums
    <3>2. S2[i] = S[i + 1] /\ S2[i - 1] = S[i] /\ T2[i] = T[i + 1] /\ T2[i - 1] = T[i]
      BY <1>9, <1>10, <1>11, Zenon
    <3>. QED  BY <1>11, <1>12, <3>1, <3>2, Zenon
  <2>. QED  BY <1>2, <1>9, <1>10, <2>1, Zenon DEF Sums
<1>14. Took(x, y)
  <2>1. (b + a) + d = b + (a + d)
    OBVIOUS
  <2>2. ackTotal' = (b + a) + d /\ ackCount' = c - a
    BY <1>4, Zenon
  <2>. QED  BY <1>4, <1>7, <2>1, <2>2, Zenon DEF Took
<1>15. CoverInv(S2, T2)'
  <2>1. PICK s1 \in Int, t1 \in Int : s1 = s0 + x /\ t1 = t0 + y
    OBVIOUS
  <2>2. sn - s1 = (sn - s0) - x /\ tn - t1 = (tn - t0) - y
    BY <2>1
  <2>3. S2[0] = s1 /\ T2[0] = t1 /\ S2[Len(gaps')] = sn /\ T2[Len(gaps')] = tn
    BY <1>2, <1>5, <1>6, <1>8, <1>9, <1>10, <2>1, Zenon
  <2>4. Less(S, Len(gaps), S2, Len(gaps'), x) /\ Less(T, Len(gaps), T2, Len(gaps'), y)
    BY <1>2, <1>6, <2>2, <2>3, Zenon DEF Less
  <2>. QED  BY <1>1, <1>14, <2>4, AckCover, Zenon
<1>16. \A i \in 1..n : Moved(S, S2, i, i + 1, 0, x)
  <2>1. S[1] = S[0] + x
    BY <1>6, <1>8, Zenon
  <2>. QED  BY <1>3, <1>9, <2>1, ShiftedPlaces
<1>17. \A i \in 1..n : Moved(T, T2, i, i + 1, 0, y)
  <2>1. T[1] = T[0] + y
    BY <1>6, <1>8, Zenon
  <2>. QED  BY <1>3, <1>10, <2>1, ShiftedPlaces
<1>18. ASSUME NEW i \in 1..n
       PROVE  /\ \A j \in 1..gaps'[i].send : Sent(Rank(S2, i, j), Datum(T2, i, j))'
              /\ \A j \in (gaps'[i].send + 1)..(gaps'[i].send + gaps'[i].dropped) :
                   Datum(T2, i, j)' \in filtered'
  <2>1. i + 1 \in 1..Len(gaps)
    BY <1>2, <1>11, Zenon
  <2>2. PICK u \in Nat, v \in Nat : u = gaps[i + 1].send /\ v = gaps[i + 1].dropped /\ u = u + 0
    <3>1. gaps[i + 1].send \in Nat /\ gaps[i + 1].dropped \in Nat
      BY <2>1, Types, Zenon
    <3>2. \A k \in Nat : k = k + 0
      OBVIOUS
    <3>. QED  BY <3>1, <3>2, Zenon
  <2>3. Kept(i, i + 1, 0)
    BY <1>12, <2>2, Zenon DEF Kept
  <2>. QED  BY <1>1, <1>5, <1>14, <1>16, <1>17, <2>1, <2>3, AckStays, Zenon
<1>19. OrderInv(S2, T2)'
  BY <1>2, <1>18 DEF OrderInv
<1>. QED  BY <1>2, <1>9, <1>10, <1>13, <1>15, <1>19 DEF ListInv

\* The loop takes the only gap.
LEMMA ListAckLast ==
  ASSUME TypeOK, ListInv, AckList, Len(gaps) = 1, Len(gaps') = 1,
         gaps'[1].send = 0, gaps'[1].dropped = 0,
         ackTotal' = ackTotal + gaps[1].send + gaps[1].dropped,
         ackCount' = ackCount - gaps[1].send
  PROVE  ListInv'
<1>1. PICK S \in [0..1 -> Int], T \in [0..1 -> Int] : Sums(S, T) /\ CoverInv(S, T)
  BY DEF ListInv
<1>2. PICK a \in Nat, d \in Nat, b \in Nat, c \in Nat :
        a = gaps[1].send /\ d = gaps[1].dropped /\ b = ackTotal /\ c = ackCount
  BY Types, AckListFrame
<1>3. PICK s0 \in Int, t0 \in Int, s1 \in Int, t1 \in Int :
        s0 = S[0] /\ t0 = T[0] /\ s1 = S[1] /\ t1 = T[1]
  <2>1. 0 \in 0..1 /\ 1 \in 0..1
    OBVIOUS
  <2>2. S[0] \in Int /\ T[0] \in Int /\ S[1] \in Int /\ T[1] \in Int
    BY <2>1
  <2>. QED  BY <2>2, Zenon
<1>4. s1 = s0 + a /\ t1 = t0 + a + d
  <2>1. 1 \in 1..1 /\ 1 - 1 = 0
    OBVIOUS
  <2>2. S[1] = S[1 - 1] + gaps[1].send /\ T[1] = T[1 - 1] + gaps[1].send + gaps[1].dropped
    BY <1>1, <2>1, Zenon DEF Sums
  <2>. QED  BY <1>2, <1>3, <2>1, <2>2, Zenon
<1>5. PICK x \in Int, y \in Int : x = a /\ y = a + d
  OBVIOUS
<1>6. Took(x, y)
  <2>1. (b + a) + d = b + (a + d)
    OBVIOUS
  <2>2. ackTotal' = (b + a) + d /\ ackCount' = c - a
    BY <1>2, Zenon
  <2>. QED  BY <1>2, <1>5, <2>1, <2>2, Zenon DEF Took
<1>7. PICK Z \in [0..1 -> Int] : Z[0] = 0 /\ Z[1] = 0
  <2>. DEFINE Z == [i \in 0..1 |-> 0]
  <2>1. Z \in [0..1 -> Int] /\ Z[0] = 0 /\ Z[1] = 0
    OBVIOUS
  <2>. HIDE DEF Z
  <2>. QED  BY <2>1, Zenon
<1>8. Sums(Z, Z)'
  <2>1. ASSUME NEW i \in 1..1
        PROVE  Z[i] = Z[i - 1] + gaps'[i].send /\ Z[i] = Z[i - 1] + gaps'[i].send + gaps'[i].dropped
    BY <1>7
  <2>2. Mono(Z, 1)
    BY <1>7 DEF Mono
  <2>. QED  BY <2>1, <2>2 DEF Sums
<1>9. CoverInv(Z, Z)'
  <2>1. 0 \in Int /\ 0 - 0 = (s1 - s0) - x /\ 0 - 0 = (t1 - t0) - y
    BY <1>4, <1>5
  <2>2. Less(S, Len(gaps), Z, Len(gaps'), x) /\ Less(T, Len(gaps), Z, Len(gaps'), y)
    BY <1>3, <1>7, <2>1, Zenon DEF Less
  <2>3. S \in [0..Len(gaps) -> Int] /\ T \in [0..Len(gaps) -> Int]
    OBVIOUS
  <2>. QED  BY <1>1, <1>6, <2>2, <2>3, AckCover, Zenon
<1>10. OrderInv(Z, Z)'
  <2>1. 1..0 = {} /\ (0 + 1)..(0 + 0) = {} /\ \A i \in 1..1 : i = 1
    OBVIOUS
  <2>. QED  BY <2>1, Zenon DEF OrderInv
<1>. QED  BY <1>8, <1>9, <1>10 DEF ListInv

\* A turn of the loop keeps the invariant of the list.
LEMMA ListAckList ==
  ASSUME TypeOK, ListInv, AckList
  PROVE  ListInv'
<1>1. CASE /\ ackCount < gaps[1].send /\ Len(gaps') = Len(gaps)
           /\ gaps'[1].send = gaps[1].send - ackCount
           /\ gaps'[1].dropped = gaps[1].dropped
           /\ \A i \in 2..Len(gaps) : gaps'[i] = gaps[i]
           /\ ackTotal' = ackTotal + ackCount /\ ackCount' = 0
  BY <1>1, ListAckPart, Zenon
<1>2. CASE /\ Len(gaps) > 1 /\ Len(gaps') = Len(gaps) - 1
           /\ \A i \in 1..(Len(gaps) - 1) : gaps'[i] = gaps[i + 1]
           /\ ackTotal' = ackTotal + gaps[1].send + gaps[1].dropped
           /\ ackCount' = ackCount - gaps[1].send
  BY <1>2, ListAckGap, Zenon
<1>3. CASE /\ Len(gaps) = 1 /\ Len(gaps') = 1 /\ gaps'[1].send = 0 /\ gaps'[1].dropped = 0
           /\ ackTotal' = ackTotal + gaps[1].send + gaps[1].dropped
           /\ ackCount' = ackCount - gaps[1].send
  BY <1>3, ListAckLast, Zenon
<1>. QED  BY <1>1, <1>2, <1>3, AckListFacts, Zenon

\* A step that leaves the list and the queue alone, and whatever counts of the goroutines.
LEMMA ListCalm ==
  ASSUME TypeOK, TypeOK', ListInv, [Next]_vars, UNCHANGED <<data, gaps, inQueue>>,
         Counted' = Counted, Untracked' = Untracked,
         attached' => attached /\ Counting' = Counting /\ Pushing' <= Pushing,
         ack' = "list" => (attached \/ ack = "list") /\ Counting' = Counting
  PROVE  ListInv'
<1>1. filtered \subseteq filtered' /\ Finished \subseteq Finished'
  BY FinishedGrows
<1>2. Counting' \in Nat /\ Pushing' \in {0, 1}
  BY DEF Counting, Pushing, TypeOK
<1>. QED  BY <1>1, <1>2, ListSame

\* Every step keeps the invariant of the list.
LEMMA ListStep ==
  ASSUME TypeOK, TypeOK', QueueInv, DataInv, GapsInv, ListInv, [Next]_vars
  PROVE  ListInv'
<1>. USE DEF closeVars, pubVars, ackVars, waiterVars, listVars, clientOnlyVars, queueVars, endVars
<1>. DEFINE Calm == /\ UNCHANGED <<data, gaps, inQueue>>
                    /\ Counted' = Counted /\ Untracked' = Untracked
                    /\ attached' => attached /\ Counting' = Counting /\ Pushing' <= Pushing
                    /\ ack' = "list" => (attached \/ ack = "list") /\ Counting' = Counting
<1>0. Calm => ListInv'
  BY ListCalm
<1>1. CASE PublishBegin
  <2>1. /\ pub = "idle" /\ pub' \in {"process", "idle"}
        /\ UNCHANGED <<data, gaps, inQueue, attached, ack, ackCount, ackTotal>>
    BY <1>1 DEF PublishBegin
  <2>. QED  BY <1>0, <2>1 DEF Counted, Counting, Untracked, Pushing
<1>2. ASSUME NEW keep \in BOOLEAN, Process(keep) PROVE ListInv'
  <2>1. /\ pub = "process" /\ pub' = "remember"
        /\ UNCHANGED <<data, gaps, inQueue, attached, ack, ackCount, ackTotal>>
    BY <1>2 DEF Process
  <2>. QED  BY <1>0, <2>1 DEF Counted, Counting, Untracked, Pushing
<1>3. CASE Remember
  <2>1. CASE attached
    BY <1>3, <2>1, ListRemember
  <2>2. CASE ~attached
    <3>1. /\ pub = "remember" /\ pub' \in {"idle", "push"} /\ ~attached'
          /\ UNCHANGED <<data, gaps, inQueue, ack, ackCount, ackTotal>>
      BY <1>3, <2>2 DEF Remember, AfterAddEvent
    <3>. QED  BY <1>0, <3>1 DEF Counted, Counting, Untracked, Pushing
  <2>. QED  BY <2>1, <2>2
<1>4. CASE Track
  <2>1. CASE event \notin filtered
    BY <1>4, <2>1, ListPublished
  <2>2. CASE event \in filtered /\ LastGap.send > 0
    BY <1>4, <2>2, ListDropped
  <2>3. CASE event \in filtered /\ ~(LastGap.send > 0)
    <3>1. /\ pub = "track" /\ pub' = "take"
          /\ UNCHANGED <<data, gaps, inQueue, attached, ack, ackCount, ackTotal>>
      BY <1>4, <2>3 DEF Track
    <3>. QED  BY <1>0, <3>1 DEF Counted, Counting, Untracked, Pushing
  <2>. QED  BY <2>1, <2>2, <2>3
<1>5. CASE PublisherTake
  BY <1>5, ListPublisherTake
<1>6. CASE PublisherReport \/ PushRejected
  <2>1. /\ pub \in {"report", "push"} /\ pub' = "idle"
        /\ UNCHANGED <<data, gaps, inQueue, attached, ack, ackCount, ackTotal>>
    BY <1>6 DEF PublisherReport, PushRejected
  <2>. QED  BY <1>0, <2>1 DEF Counted, Counting, Untracked, Pushing
<1>7. CASE PushAccepted
  BY <1>7, ListPush
<1>8. ASSUME NEW n \in 1..MaxEvents, AckEvents(n) PROVE ListInv'
  BY <1>8, ListAckEvents
<1>9. CASE AckTestClosing \/ AckSignal
  <2>1. /\ ack \in {"closing?", "signal"} /\ ack' \in {"signal", "acker"}
        /\ UNCHANGED <<data, gaps, inQueue, attached, pub, ackCount, ackTotal>>
    BY <1>9 DEF AckTestClosing, AckSignal
  <2>. QED  BY <1>0, <2>1 DEF Counted, Counting, Untracked, Pushing
<1>10. CASE AckListener
  <2>1. /\ ack = "acker" /\ ack' = (IF attached THEN "list" ELSE "idle")
        /\ UNCHANGED <<data, gaps, inQueue, attached, pub, ackCount, ackTotal>>
    BY <1>10 DEF AckListener
  <2>2. ackTotal = 0
    BY <2>1 DEF GapsInv
  <2>. QED  BY <1>0, <2>1, <2>2 DEF Counted, Counting, Untracked, Pushing
<1>11. CASE AckList
  BY <1>11, ListAckList
<1>12. CASE AckTake
  BY <1>12, ListAckTake
<1>13. CASE AckReport
  <2>1. /\ ack = "report" /\ ack' = "idle"
        /\ UNCHANGED <<data, gaps, inQueue, attached, pub, ackCount, ackTotal>>
    BY <1>13 DEF AckReport
  <2>. QED  BY <1>0, <2>1 DEF Counted, Counting, Untracked, Pushing
<1>14. CASE Closer \/ Waiter \/ UNCHANGED vars
  <2>1. /\ attached' => attached
        /\ UNCHANGED <<data, gaps, inQueue, pub, ack, ackCount, ackTotal>>
    <3>1. CASE CloseListener
      <4>1. attached' => attached
        BY <3>1, Zenon DEF CloseListener
      <4>. QED  BY <3>1, <4>1, SMT DEF CloseListener
    <3>2. CASE CloseBegin \/ SignalClose \/ LoadEvents \/ CloseProducer
      BY <3>2, SMT DEF CloseBegin, SignalClose, LoadEvents, CloseProducer
    <3>3. CASE Waiter \/ UNCHANGED vars
      BY <3>3, SMT DEF Waiter, WaiterSignalled, WaiterTimeout, vars
    <3>. QED  BY <1>14, <3>1, <3>2, <3>3, Zenon DEF Closer
  <2>. QED  BY <1>0, <2>1 DEF Counted, Counting, Untracked, Pushing
<1>. QED
  BY <1>1, <1>2, <1>3, <1>4, <1>5, <1>6, <1>7, <1>8, <1>9, <1>10, <1>11, <1>12, <1>13, <1>14
  DEF Next, Publisher, AckLoop

-----------------------------------------------------------------------------
(* The theorems                                                            *)

\* The invariant holds of a client that was just connected.
LEMMA InitStep == Init => IInv
<1>. SUFFICES ASSUME Init PROVE IInv
  OBVIOUS
<1>0. /\ pub = "idle" /\ ack = "idle" /\ closer = "idle" /\ waiterRoutine = "none" /\ event = 0
      /\ pubData = <<>> /\ ackData = <<>> /\ data = <<>> /\ inQueue = <<>> /\ reported = <<>>
      /\ gaps = <<EmptyGap>> /\ wg = 0 /\ waiterEvents = 0
      /\ ackCount = 0 /\ ackTotal = 0 /\ acceptedAtClose = {} /\ acked = {} /\ filtered = {}
      /\ failed = {}
  BY DEF Init
<1>1. Len(<<>>) = 0 /\ <<>> \in Seq(Event) /\ 1..0 = {}
  BY SeqEmpty
<1>2. /\ gaps \in Seq(Gap) /\ gaps # <<>> /\ Len(gaps) = 1
      /\ gaps[1].send = 0 /\ gaps[1].dropped = 0
  BY <1>0 DEF EmptyGap, Gap
<1>3. TypeOK
  <2>1. MaxEvents \in Nat
    BY ClientAssumption
  <2>2. /\ event \in 0..MaxEvents /\ ackCount \in Nat /\ ackTotal \in Nat /\ waiterEvents \in Nat
        /\ wg \in Nat
    BY <1>0, <2>1
  <2>3. /\ ackEmpty \in BOOLEAN /\ isOpen \in BOOLEAN /\ closing \in BOOLEAN /\ signalAll \in BOOLEAN
        /\ timedOut \in BOOLEAN /\ attached \in BOOLEAN /\ connectionOnly \in BOOLEAN
        /\ racing \in BOOLEAN /\ producerClosed \in BOOLEAN
    BY Zenon DEF Init
  <2>4. /\ acceptedAtClose \subseteq Event /\ acked \subseteq Event
        /\ filtered \subseteq Event /\ failed \subseteq Event
    BY <1>0, Zenon
  <2>. QED  BY <1>0, <1>1, <1>2, <2>2, <2>3, <2>4, TypedIs, Zenon DEF Typed
<1>4. WaiterInv
  <2>1. Len(inQueue) = 0 /\ Coming = 0 /\ ~closing /\ ~signalAll
    BY <1>0, <1>1 DEF Coming, Init
  <2>. QED  BY <1>0, <2>1 DEF WaiterInv
<1>5. CountInv
  BY <1>0, <1>1 DEF CountInv, Fresh
<1>6. QueueInv
  <2>1. Len(inQueue) = 0 /\ Decided = 0
    BY <1>0, <1>1 DEF Decided, Undecided
  <2>. QED  BY <1>0, <1>1, <2>1 DEF QueueInv, Upto
<1>7. DataInv
  <2>1. \A t : Distinct(<<>>) /\ Upto(<<>>, Known) /\ Apart(<<>>, t)
    BY <1>1 DEF Distinct, Upto, Apart
  <2>. QED  BY <1>0, <2>1 DEF DataInv, Listed
<1>8. ToldInv
  <2>1. Counted = 0
    BY <1>0 DEF Counted
  <2>. QED  BY <1>0, <1>1, <2>1 DEF ToldInv
<1>9. GapsInv
  BY <1>0, <1>2 DEF GapsInv
<1>10. ListInv
  <2>. DEFINE Z == [i \in 0..1 |-> 0]
  <2>1. Z \in [0..1 -> Int] /\ Z[0] = 0 /\ Z[1] = 0
    OBVIOUS
  <2>. HIDE DEF Z
  <2>2. Sums(Z, Z)
    <3>1. ASSUME NEW i \in 1..1
          PROVE  Z[i] = Z[i - 1] + gaps[i].send /\ Z[i] = Z[i - 1] + gaps[i].send + gaps[i].dropped
      BY <1>2, <2>1
    <3>2. Mono(Z, 1)
      BY <2>1 DEF Mono
    <3>. QED  BY <1>2, <3>1, <3>2 DEF Sums
  <2>3. /\ Len(data) = 0 /\ Len(inQueue) = 0 /\ Counted = 0 /\ Counting = 0 /\ Untracked = 0
        /\ Pushing = 0
    BY <1>0, <1>1 DEF Counted, Counting, Untracked, Pushing
  <2>4. CoverInv(Z, Z)
    BY <1>0, <1>2, <2>1, <2>3 DEF CoverInv
  <2>5. OrderInv(Z, Z)
    <3>1. 1..0 = {} /\ (0 + 1)..(0 + 0) = {} /\ \A i \in 1..1 : i = 1
      OBVIOUS
    <3>. QED  BY <1>2, <3>1, Zenon DEF OrderInv
  <2>. QED  BY <1>2, <2>1, <2>2, <2>4, <2>5 DEF ListInv
<1>. QED  BY <1>3, <1>4, <1>5, <1>6, <1>7, <1>8, <1>9, <1>10 DEF IInv

\* The invariant is inductive: every step of the publisher, the acknowledgement loop, the
\* closing goroutine and the waiter keeps it.
LEMMA NextStep == IInv /\ [Next]_vars => IInv'
<1>. SUFFICES ASSUME IInv, [Next]_vars PROVE IInv'
  OBVIOUS
<1>1. TypeOK /\ WaiterInv /\ CountInv /\ QueueInv /\ DataInv /\ ToldInv /\ GapsInv /\ ListInv
  BY DEF IInv
<1>2. TypeOK'
  BY <1>1, TypeStep
<1>3. WaiterInv' /\ CountInv' /\ QueueInv'
  BY <1>1, WaiterStep, CountStep, QueueStep
<1>4. DataInv' /\ ToldInv' /\ GapsInv'
  BY <1>1, DataStep, ToldStep, GapsStep
<1>5. ListInv'
  BY <1>1, <1>2, ListStep
<1>. QED  BY <1>2, <1>3, <1>4, <1>5 DEF IInv

\* The inductive invariant holds in every state of the client.
LEMMA Invariance == Spec => []IInv
BY InitStep, NextStep, PTL DEF Spec

\* Every variable of the client and of its listeners keeps its type; in particular the
\* counter of the close waiter and the wait group of SyncClient never become negative, and
\* the list of trackingACKer is never empty.
THEOREM ClientTypes == Spec => []TypeOK
<1>1. IInv => TypeOK
  BY DEF IInv
<1>. QED  BY <1>1, Invariance, PTL

\* trackingACKer and eventDataACKer never panic, for any number of events: the list of gaps
\* covers every acknowledgement, a gap without sends is the only one, and there are data for
\* every total that onACK is called with.
THEOREM ClientNoPanic == Spec => []NoPanic
<1>1. IInv => NoPanic
  <2>. SUFFICES ASSUME IInv PROVE NoPanic
    OBVIOUS
  <2>1. TypeOK /\ GapsInv /\ ListInv
    BY DEF IInv
  <2>2. Len(data) >= Counted + Untracked /\ Counted \in Nat /\ Len(data) \in Nat
        /\ Untracked \in {0, 1} /\ ackCount \in Nat
    BY <2>1, ListFacts, ListTypes DEF TypeOK
  <2>3. ASSUME ack = "list" PROVE (ackCount > 0 => ~ackEmpty) /\ ackTotal <= Len(data)
    <3>1. Counted = ackTotal
      BY <2>3 DEF Counted
    <3>2. ackTotal <= Len(data)
      BY <2>2, <3>1
    <3>3. ackEmpty => ackCount = 0
      BY <2>1, <2>3, Zenon DEF GapsInv
    <3>. QED  BY <2>2, <3>2, <3>3
  <2>4. \A i \in 1..Len(gaps) : gaps[i].send = 0 => Len(gaps) = 1
    BY <2>1 DEF GapsInv
  <2>5. pub = "take" => data # <<>>
    BY <2>1 DEF GapsInv
  <2>. QED  BY <2>1, <2>3, <2>4, <2>5, Zenon DEF NoPanic
<1>. QED  BY <1>1, Invariance, PTL

\* The input is told of an event only when it was acknowledged, filtered out or rejected, and
\* only once, whatever the order of publishing, dropping, acknowledging and closing.
THEOREM ClientReports == Spec => []ReportedIsFinished
<1>1. IInv => ReportedIsFinished
  <2>. SUFFICES ASSUME IInv PROVE ReportedIsFinished
    OBVIOUS
  <2>1. /\ TypeOK /\ ToldInv /\ Known \in Int
        /\ Distinct(reported) /\ Distinct(pubData) /\ Distinct(ackData)
        /\ Upto(reported, Known) /\ Upto(pubData, Known) /\ Upto(ackData, Known)
        /\ Apart(reported, pubData) /\ Apart(reported, ackData) /\ Apart(pubData, ackData)
    <3>1. TypeOK /\ ToldInv /\ DataInv
      BY DEF IInv
    <3>2. Known \in Int
      BY <3>1, ClientAssumption DEF Known, TypeOK
    <3>. QED  BY <3>1, <3>2 DEF DataInv, Listed
  <2>2. reported \in Seq(Event) /\ pubData \in Seq(Event) /\ ackData \in Seq(Event)
    BY <2>1, Types
  <2>3. PICK r \in Seq(Event) : r = reported \o pubData
    BY <2>2, SeqConcat
  <2>4. Distinct(r) /\ Upto(r, Known) /\ Apart(r, ackData)
    BY <2>1, <2>2, <2>3, JoinLists
  <2>5. Distinct(r \o ackData)
    BY <2>1, <2>2, <2>4, JoinLists
  <2>6. \A i \in 1..Len(r) : r[i] \in Finished
    <3>1. /\ Len(r) = Len(reported) + Len(pubData)
          /\ \A i \in 1..(Len(reported) + Len(pubData)) :
               r[i] = IF i <= Len(reported) THEN reported[i] ELSE pubData[i - Len(reported)]
      BY <2>2, <2>3, SeqConcat
    <3>2. Len(reported) \in Nat /\ Len(pubData) \in Nat
      BY <2>2, SeqLen
    <3>. QED  BY <2>1, <3>1, <3>2 DEF ToldInv
  <2>7. \A i \in 1..Len(r \o ackData) : (r \o ackData)[i] \in Finished
    <3>1. /\ Len(r \o ackData) = Len(r) + Len(ackData)
          /\ \A i \in 1..(Len(r) + Len(ackData)) :
               (r \o ackData)[i] = IF i <= Len(r) THEN r[i] ELSE ackData[i - Len(r)]
      BY <2>2, SeqConcat
    <3>2. Len(r) \in Nat /\ Len(ackData) \in Nat
      BY <2>2, SeqLen
    <3>. QED  BY <2>1, <2>6, <3>1, <3>2 DEF ToldInv
  <2>. QED  BY <2>3, <2>5, <2>7 DEF ReportedIsFinished, Distinct, Finished
<1>. QED  BY <1>1, Invariance, PTL

\* A Close that did not run into its time-out returns only after every event accepted before
\* it was called is acknowledged, unless it began to wait when the acknowledgement loop had
\* just brought the counter of clientCloseWaiter to zero.
THEOREM ClientCloseWaits == Spec => []CloseWaitsIfQuiet
<1>1. IInv => CloseWaitsIfQuiet
  BY DEF IInv, WaiterInv, CloseWaitsIfQuiet
<1>. QED  BY <1>1, Invariance, PTL
=============================================================================
