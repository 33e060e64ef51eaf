----------------------------- MODULE DataLemmas -----------------------------
(* Facts about numbers and sequences that the proofs of the queues share.  *)
EXTENDS Integers, Sequences, TLAPS

LOCAL INSTANCE WellFoundedInduction

-----------------------------------------------------------------------------
(* Sequences.  The library's theorems, restated here so that the proofs    *)
(* that use them see these few facts only.                                 *)

\* A sequence is a function on 1..Len.
LEMMA SeqLen ==
  ASSUME NEW T, NEW s \in Seq(T)
  PROVE  Len(s) \in Nat /\ DOMAIN s = 1..Len(s) /\ s \in [1..Len(s) -> T]
OBVIOUS

\* The elements of a sequence over T are in T.
LEMMA SeqElem ==
  ASSUME NEW T, NEW s \in Seq(T), NEW i \in 1..Len(s)
  PROVE  s[i] \in T
OBVIOUS

\* The empty sequence is the only one of length 0.
LEMMA SeqEmpty ==
  ASSUME NEW T
  PROVE  /\ <<>> \in Seq(T) /\ Len(<<>>) = 0
         /\ \A s \in Seq(T) : s # <<>> => Len(s) \in Nat \ {0}
OBVIOUS

\* Sequences with the same length and the same elements are equal.
LEMMA SeqSame ==
  ASSUME NEW T, NEW s \in Seq(T), NEW t \in Seq(T),
         Len(s) = Len(t), \A i \in 1..Len(s) : s[i] = t[i]
  PROVE  s = t
OBVIOUS

\* Concatenation.
LEMMA SeqConcat ==
  ASSUME NEW T, NEW s \in Seq(T), NEW t \in Seq(T)
  PROVE  /\ s \o t \in Seq(T) /\ Len(s \o t) = Len(s) + Len(t)
         /\ \A i \in 1..(Len(s) + Len(t)) :
              (s \o t)[i] = IF i <= Len(s) THEN s[i] ELSE t[i - Len(s)]
OBVIOUS

\* The head is the first element, and the tail is what follows it.
LEMMA SeqHeadTail ==
  ASSUME NEW T, NEW s \in Seq(T), s # <<>>
  PROVE  /\ Head(s) \in T /\ Head(s) = s[1]
         /\ Tail(s) \in Seq(T) /\ Len(Tail(s)) = Len(s) - 1
         /\ \A i \in 1..Len(Tail(s)) : Tail(s)[i] = s[i + 1]
OBVIOUS

\* Append puts its element last and keeps the others.
LEMMA SeqAppend ==
  ASSUME NEW T, NEW s \in Seq(T), NEW e \in T
  PROVE  /\ Append(s, e) \in Seq(T) /\ Append(s, e) # <<>>
         /\ Len(Append(s, e)) = Len(s) + 1
         /\ \A i \in 1..Len(s) : Append(s, e)[i] = s[i]
         /\ Append(s, e)[Len(s) + 1] = e
OBVIOUS

\* Replacing an element keeps the length and the other elements.
LEMMA SeqExcept ==
  ASSUME NEW T, NEW s \in Seq(T), NEW k \in 1..Len(s), NEW e \in T
  PROVE  /\ [s EXCEPT ![k] = e] \in Seq(T) /\ Len([s EXCEPT ![k] = e]) = Len(s)
         /\ \A i \in 1..Len(s) : [s EXCEPT ![k] = e][i] = IF i = k THEN e ELSE s[i]
OBVIOUS

\* What is left of a sequence when the first elements are taken from it.
LEMMA SeqSplit ==
  ASSUME NEW T, NEW s \in Seq(T), NEW n \in Nat, n <= Len(s)
  PROVE  /\ SubSeq(s, 1, n) \in Seq(T) /\ Len(SubSeq(s, 1, n)) = n
         /\ \A i \in 1..n : SubSeq(s, 1, n)[i] = s[i]
         /\ SubSeq(s, n + 1, Len(s)) \in Seq(T) /\ Len(SubSeq(s, n + 1, Len(s))) = Len(s) - n
         /\ \A i \in 1..(Len(s) - n) : SubSeq(s, n + 1, Len(s))[i] = s[n + i]
OBVIOUS

\* Nothing is added by an empty sequence.
LEMMA SeqConcatEmpty ==
  ASSUME NEW T, NEW s \in Seq(T)
  PROVE  s \o <<>> = s /\ <<>> \o s = s
OBVIOUS

\* Appending is concatenating one element.
LEMMA SeqAppendConcat ==
  ASSUME NEW T, NEW s \in Seq(T), NEW e \in T
  PROVE  Append(s, e) = s \o <<e>>
OBVIOUS

\* Concatenation associates.
LEMMA SeqConcatAssoc ==
  ASSUME NEW T, NEW s \in Seq(T), NEW t \in Seq(T), NEW u \in Seq(T)
  PROVE  (s \o t) \o u = s \o (t \o u)
OBVIOUS

-----------------------------------------------------------------------------
(* Arithmetic of ring indices                                              *)

\* A position is its quotient times the ring size plus its slot.
LEMMA DivMod ==
  ASSUME NEW N \in Nat \ {0}, NEW a \in Nat
  PROVE  /\ a \div N \in Nat
         /\ a % N \in 0..(N - 1)
         /\ a = N * (a \div N) + (a % N)
OBVIOUS

\* Reducing a position to its slot before moving on changes nothing.
LEMMA ModAdd ==
  ASSUME NEW N \in Nat \ {0}, NEW a \in Nat, NEW c \in Nat
  PROVE  ((a % N) + c) % N = (a + c) % N
<1>. DEFINE r == a % N
            q == a \div N
            t == (r + c) % N
            u == (r + c) \div N
            v == (a + c) % N
            w == (a + c) \div N
<1>1. /\ q \in Nat
      /\ r \in 0..(N - 1)
      /\ a = N * q + r
  BY DivMod, Zenon
<1>r. r + c \in Nat /\ a + c \in Nat
  BY <1>1
<1>2. /\ u \in Nat
      /\ t \in 0..(N - 1)
      /\ r + c = N * u + t
  BY <1>r, DivMod, Zenon
<1>3. /\ w \in Nat
      /\ v \in 0..(N - 1)
      /\ a + c = N * w + v
  BY <1>r, DivMod, Zenon
<1>. HIDE DEF r, q, t, u, v, w
<1>4. N * (q + u) = N * q + N * u
  BY <1>1, <1>2
<1>5. PICK x \in Int : x = q + u
  BY <1>1, <1>2
<1>6. N * x + t = N * w + v
  BY <1>1, <1>2, <1>3, <1>4, <1>5
<1>7. w \in Int
  BY <1>3
<1>8. t = v
  <2>1. CASE x < w
    <3>1. N * (w - x) >= N /\ N * (w - x) = N * w - N * x
      BY <1>7, <2>1
    <3>. QED  BY <1>2, <1>3, <1>6, <1>7, <3>1
  <2>2. CASE x > w
    <3>1. N * (x - w) >= N /\ N * (x - w) = N * x - N * w
      BY <1>7, <2>2
    <3>. QED  BY <1>2, <1>3, <1>6, <1>7, <3>1
  <2>3. CASE x = w
    BY <1>2, <1>3, <1>6, <1>7, <2>3
  <2>. QED  BY <1>7, <2>1, <2>2, <2>3
<1>. QED  BY <1>8 DEF r, t, v

\* Positions in the same slot stay in the same slot when moved together.
LEMMA ModShift ==
  ASSUME NEW N \in Nat \ {0}, NEW a \in Nat, NEW b \in Nat, NEW c \in Nat,
         a % N = b % N
  PROVE  (a + c) % N = (b + c) % N
<1>1. ((a % N) + c) % N = (a + c) % N
  BY ModAdd
<1>2. ((b % N) + c) % N = (b + c) % N
  BY ModAdd
<1>. QED  BY <1>1, <1>2

\* Two positions less than one round apart are in different slots.
LEMMA ModDistinct ==
  ASSUME NEW N \in Nat \ {0}, NEW a \in Nat, NEW b \in Nat,
         a < b, b < a + N
  PROVE  a % N # b % N
<1>. SUFFICES ASSUME a % N = b % N PROVE FALSE
  OBVIOUS
<1>. DEFINE r == a % N
            q == a \div N
            w == b \div N
<1>1. r \in 0..(N - 1) /\ q \in Int /\ a = N * q + r
  BY DivMod
<1>2. w \in Int /\ b = N * w + r
  BY DivMod
<1>. HIDE DEF r, q, w
<1>3. CASE w > q
  <2>1. N * (w - q) >= N /\ N * (w - q) = N * w - N * q
    BY <1>1, <1>2, <1>3
  <2>. QED  BY <1>1, <1>2, <2>1
<1>4. CASE w <= q
  <2>1. N * (q - w) >= 0 /\ N * (q - w) = N * q - N * w
    BY <1>1, <1>2, <1>4
  <2>. QED  BY <1>1, <1>2, <2>1
<1>. QED  BY <1>1, <1>2, <1>3, <1>4

-----------------------------------------------------------------------------
(* Extrema of sets of naturals                                             *)

\* Every non-empty set of naturals has a least element.
LEMMA LeastNat ==
  ASSUME NEW T, T \subseteq Nat, T # {}
  PROVE  \E x \in T : \A y \in T : x <= y
<1>. DEFINE R == OpToRel(<, Nat)
<1>1. IsWellFoundedOn(R, Nat)
  BY NatLessThanWellFounded
<1>2. \A x, y \in Nat : x < y => <<x, y>> \in R
  BY DEF OpToRel
<1>. HIDE DEF R
<1>3. PICK x \in T : \A y \in T : ~(<<y, x>> \in R)
  BY <1>1, WFMin
<1>4. ASSUME NEW y \in T PROVE x <= y
  <2>1. x \in Nat /\ y \in Nat /\ ~(<<y, x>> \in R)
    BY <1>3
  <2>2. ~(y < x)
    BY <1>2, <2>1, Zenon
  <2>. QED  BY <2>1, <2>2
<1>. QED  BY <1>4

\* Every non-empty bounded set of naturals has a greatest element.
LEMMA BoundedMax ==
  ASSUME NEW S, S \subseteq Nat, S # {}, NEW B \in Nat, \A x \in S : x <= B
  PROVE  \E m \in S : \A k \in S : k <= m
<1>. DEFINE T == {m \in Nat : \A k \in S : k <= m}
<1>1. T \subseteq Nat /\ T # {}
  OBVIOUS
<1>2. PICK m \in T : \A y \in T : m <= y
  BY <1>1, LeastNat
<1>3. m \in S
  <2>. SUFFICES ASSUME m \notin S PROVE FALSE
    OBVIOUS
  <2>1. m - 1 \in T
    <3>1. PICK s \in S : TRUE
      OBVIOUS
    <3>2. m \in Nat /\ \A k \in S : k \in Nat /\ k <= m /\ k # m
      OBVIOUS
    <3>3. m - 1 \in Nat
      BY <3>1, <3>2
    <3>4. \A k \in S : k <= m - 1
      BY <3>2
    <3>. QED  BY <3>3, <3>4
  <2>. QED  BY <1>2, <2>1
<1>. QED  BY <1>3

-----------------------------------------------------------------------------
(* Sequences                                                               *)

\* A function on 1..n is a sequence of length n.
LEMMA FunIsSeq ==
  ASSUME NEW S, NEW n \in Nat, NEW f \in [1..n -> S]
  PROVE  f \in Seq(S) /\ Len(f) = n
OBVIOUS

\* Taking the head off a concatenation takes it off the first sequence.
LEMMA TailConcat ==
  ASSUME NEW S, NEW P \in Seq(S), NEW C \in Seq(S), P # <<>>
  PROVE  /\ P \o C # <<>>
         /\ (P \o C)[1] = Head(P)
         /\ Tail(P) \o C = Tail(P \o C)
<1>. DEFINE Q == P \o C
            L == Tail(P) \o C
            T == Tail(Q)
<1>1. /\ Q \in Seq(S) /\ Len(Q) = Len(P) + Len(C)
      /\ \A i \in 1..(Len(P) + Len(C)) :
           Q[i] = IF i <= Len(P) THEN P[i] ELSE C[i - Len(P)]
  BY SeqConcat
<1>2. Len(P) \in Nat \ {0} /\ Len(C) \in Nat /\ Head(P) = P[1]
  BY SeqEmpty, SeqLen
<1>3. Q # <<>>
  BY <1>1, <1>2, SeqEmpty
<1>4. /\ Tail(P) \in Seq(S) /\ Len(Tail(P)) = Len(P) - 1
      /\ \A i \in 1..Len(Tail(P)) : Tail(P)[i] = P[i + 1]
  BY SeqHeadTail
<1>5. /\ L \in Seq(S) /\ Len(L) = Len(Tail(P)) + Len(C)
      /\ \A i \in 1..(Len(Tail(P)) + Len(C)) :
           L[i] = IF i <= Len(Tail(P)) THEN Tail(P)[i] ELSE C[i - Len(Tail(P))]
  BY <1>4, SeqConcat
<1>. HIDE DEF Q, L
<1>6. /\ T \in Seq(S) /\ Len(T) = Len(Q) - 1
      /\ \A i \in 1..Len(T) : T[i] = Q[i + 1]
  BY <1>1, <1>3, SeqHeadTail
<1>. HIDE DEF T
<1>7. Len(L) = Len(T)
  BY <1>1, <1>2, <1>4, <1>5, <1>6
<1>8. ASSUME NEW i \in 1..Len(L) PROVE L[i] = T[i]
  <2>1. T[i] = Q[i + 1] /\ i + 1 \in 1..(Len(P) + Len(C))
    BY <1>1, <1>2, <1>6, <1>7
  <2>2. CASE i <= Len(P) - 1
    <3>1. L[i] = Tail(P)[i] /\ Tail(P)[i] = P[i + 1]
      BY <1>2, <1>4, <1>5, <2>2
    <3>2. Q[i + 1] = P[i + 1]
      BY <1>1, <1>2, <2>1, <2>2
    <3>. QED  BY <2>1, <3>1, <3>2
  <2>3. CASE ~(i <= Len(P) - 1)
    <3>1. L[i] = C[i - (Len(P) - 1)]
      BY <1>2, <1>4, <1>5, <2>3
    <3>2. Q[i + 1] = C[(i + 1) - Len(P)]
      BY <1>1, <1>2, <2>1, <2>3
    <3>3. i - (Len(P) - 1) = (i + 1) - Len(P)
      BY <1>2
    <3>. QED  BY <2>1, <3>1, <3>2, <3>3
  <2>. QED  BY <2>2, <2>3
<1>9. L = T
  BY <1>5, <1>6, <1>7, <1>8, SeqSame
<1>10. Q[1] = Head(P)
  BY <1>1, <1>2
<1>. QED  BY <1>3, <1>9, <1>10 DEF Q, L, T
=============================================================================
