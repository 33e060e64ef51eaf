------------------------ MODULE EventConsumerProofs ------------------------
(* What a step does to the batches on their way, why the accounts of       *)
(* ttlBatch stay right, and the inductive invariant of EventConsumer with  *)
(* its parts on types and on the handover from the reader to the consumer. *)
EXTENDS EventConsumer, DataLemmas, FiniteSetTheorems

\* The time given to each prover.
USE ZenonT(5), SMTT(20)

-----------------------------------------------------------------------------
(* The accounts of the batches in a set L, with the values of queueBatches,  *)
(* outstanding, doneCount, finished, miscounted and done                   *)

\* The fragments of queue batch q, and the events their done callbacks stand for.
FragmentsOf(L, q) == {b \in L : b.of = q}

Owed(L, q) == UNION {b.owes : b \in FragmentsOf(L, q)}

\* A batch on its way holds events, which are owed by it, belong to its queue
\* batch, and are not finished; its queue batch is not done.
Sound(L, qb, dc, fin) ==
  \A b \in L : /\ b.events # {} /\ b.events \subseteq b.owes
               /\ b.owes \subseteq qb[b.of] /\ b.events \cap fin = {}
               /\ dc[b.of] = 0

\* Two batches owe different events, and a batch that was never split is the
\* only one of its queue batch.
Separate(L) ==
  /\ \A b, c \in L : b # c => b.owes \cap c.owes = {}
  /\ \A b, c \in L : (~b.split /\ c.of = b.of) => c = b

\* outstandingEvents counts the events owed, and too many of them after a
\* fragment that had lost events was split.
Counted(L, out, mis) ==
  \A b \in L : b.split =>
    /\ Cardinality(Owed(L, b.of)) <= out[b.of]
    /\ b.of \notin mis => out[b.of] = Cardinality(Owed(L, b.of))

\* A queue batch with nothing left on its way is done, and every event of a
\* queue batch is finished or on its way, except for a shutdown.
Closed(L, qb, dc, fin, mis, dn) ==
  \A q \in Event :
    /\ dc[q] \in {0, 1} /\ IsFiniteSet(qb[q])
    /\ qb[q] = {} => dc[q] = 0
    /\ FragmentsOf(L, q) = {} => qb[q] = {} \/ dn \/ dc[q] = 1 \/ q \in mis
    /\ \A e \in qb[q] : \/ e \in fin
                        \/ \E b \in L : b.of = q /\ e \in b.events
                        \/ dn /\ dc[q] = 0 /\ FragmentsOf(L, q) = {}

Accounts(L, qb, out, dc, fin, mis, dn) ==
  /\ L \subseteq TTLBatch /\ qb \in [Event -> SUBSET Event]
  /\ out \in [Event -> Int] /\ dc \in [Event -> Nat]
  /\ Sound(L, qb, dc, fin) /\ Separate(L) /\ Counted(L, out, mis)
  /\ Closed(L, qb, dc, fin, mis, dn)

-----------------------------------------------------------------------------
(* Facts about the fragments of a queue batch                              *)

\* What the fragments of a queue batch owe is finite.
LEMMA OwedFinite ==
  ASSUME NEW L, NEW qb, NEW out, NEW dc, NEW fin, NEW mis, NEW dn,
         Accounts(L, qb, out, dc, fin, mis, dn), NEW q \in Event
  PROVE  /\ IsFiniteSet(Owed(L, q)) /\ Cardinality(Owed(L, q)) \in Nat
         /\ Owed(L, q) \subseteq qb[q]
<1>1. Owed(L, q) \subseteq qb[q]
  BY DEF Accounts, Sound, Owed, FragmentsOf
<1>2. IsFiniteSet(qb[q])
  BY DEF Accounts, Closed
<1>3. IsFiniteSet(Owed(L, q))
  BY <1>1, <1>2, FS_Subset
<1>. QED  BY <1>1, <1>3, FS_CardinalityType

\* A batch owes finitely many events, at least one.
LEMMA OwesFinite ==
  ASSUME NEW L, NEW qb, NEW out, NEW dc, NEW fin, NEW mis, NEW dn,
         Accounts(L, qb, out, dc, fin, mis, dn), NEW b \in L
  PROVE  /\ b \in TTLBatch /\ b.of \in Event
         /\ IsFiniteSet(b.owes) /\ Cardinality(b.owes) \in Nat \ {0}
         /\ IsFiniteSet(b.events) /\ Cardinality(b.events) \in Nat \ {0}
<1>1. b \in TTLBatch /\ b.of \in Event
  BY DEF Accounts, TTLBatch
<1>2. b.owes \subseteq qb[b.of] /\ b.events \subseteq b.owes /\ b.events # {}
  BY DEF Accounts, Sound
<1>3. IsFiniteSet(qb[b.of])
  BY <1>1 DEF Accounts, Closed
<1>4. IsFiniteSet(b.owes)
  BY <1>2, <1>3, FS_Subset
<1>5. IsFiniteSet(b.events)
  BY <1>2, <1>4, FS_Subset
<1>6. Cardinality(b.owes) \in Nat /\ Cardinality(b.events) \in Nat
  BY <1>4, <1>5, FS_CardinalityType
<1>7. Cardinality(b.owes) # 0 /\ Cardinality(b.events) # 0
  BY <1>2, <1>4, <1>5, FS_EmptySet
<1>. QED  BY <1>1, <1>4, <1>5, <1>6, <1>7

-----------------------------------------------------------------------------
(* What the steps do to the accounts                                       *)

\* A batch is retried with some of its events, the others being finished
\* (RetryEvents, reduceTTL).
LEMMA ShrinkKeeps ==
  ASSUME NEW L, NEW qb, NEW out, NEW dc, NEW fin, NEW mis, NEW dn,
         Accounts(L, qb, out, dc, fin, mis, dn),
         NEW b \in L, NEW n \in TTLBatch,
         n.of = b.of, n.owes = b.owes, n.split = b.split,
         n.events # {}, n.events \subseteq b.events
  PROVE  Accounts((L \ {b}) \cup {n}, qb, out, dc,
                  fin \cup (b.events \ n.events), mis, dn)
<1>. DEFINE M == (L \ {b}) \cup {n}
            f == fin \cup (b.events \ n.events)
<1>1. L \subseteq TTLBatch /\ Sound(L, qb, dc, fin) /\ Separate(L) /\ Counted(L, out, mis)
      /\ Closed(L, qb, dc, fin, mis, dn)
  BY DEF Accounts
<1>2. \A c \in L : c # b => c.owes \cap b.owes = {} /\ c.events \subseteq c.owes
  BY <1>1 DEF Separate, Sound
<1>3. b.events \subseteq b.owes
  BY <1>1 DEF Sound
<1>4. Sound(M, qb, dc, f)
  <2>1. \A c \in L \ {b} : c.events \cap f = {}
    BY <1>1, <1>2, <1>3 DEF Sound
  <2>2. n.events \cap f = {}
    BY <1>1 DEF Sound
  <2>. QED  BY <1>1, <1>3, <2>1, <2>2 DEF Sound
<1>5. Separate(M)
  BY <1>1, <1>2 DEF Separate
<1>6. \A q : Owed(M, q) = Owed(L, q)
  BY DEF Owed, FragmentsOf
<1>7. \A q : FragmentsOf(M, q) = {} <=> FragmentsOf(L, q) = {}
  BY DEF FragmentsOf
<1>8. Counted(M, out, mis)
  BY <1>1, <1>6, Zenon DEF Counted
<1>9. Closed(M, qb, dc, f, mis, dn)
  <2>. SUFFICES ASSUME NEW q \in Event, NEW e \in qb[q]
                PROVE  \/ e \in f
                       \/ \E c \in M : c.of = q /\ e \in c.events
                       \/ dn /\ dc[q] = 0 /\ FragmentsOf(M, q) = {}
    BY <1>1, <1>7, Zenon DEF Closed
  <2>1. \/ e \in fin
        \/ \E c \in L : c.of = q /\ e \in c.events
        \/ dn /\ dc[q] = 0 /\ FragmentsOf(L, q) = {}
    BY <1>1 DEF Closed
  <2>. QED  BY <1>7, <2>1, Zenon
<1>. QED  BY <1>1, <1>4, <1>5, <1>8, <1>9 DEF Accounts

\* The done callback of a batch that was never split (original.Done).
LEMMA FinishWholeKeeps ==
  ASSUME NEW L, NEW qb, NEW out, NEW dc, NEW fin, NEW mis, NEW dn,
         Accounts(L, qb, out, dc, fin, mis, dn), NEW b \in L, ~b.split
  PROVE  Accounts(L \ {b}, qb, out, [dc EXCEPT ![b.of] = @ + 1],
                  fin \cup b.events, mis, dn)
<1>. DEFINE M == L \ {b}
            d == [dc EXCEPT ![b.of] = @ + 1]
            f == fin \cup b.events
<1>1. /\ L \subseteq TTLBatch /\ Sound(L, qb, dc, fin) /\ Separate(L) /\ Counted(L, out, mis)
      /\ Closed(L, qb, dc, fin, mis, dn) /\ dc \in [Event -> Nat]
  BY DEF Accounts
<1>2. b.of \in Event /\ dc[b.of] = 0 /\ b.events \subseteq b.owes /\ b.owes \subseteq qb[b.of]
      /\ b.events # {}
  BY <1>1 DEF TTLBatch, Sound
<1>3. d \in [Event -> Nat] /\ d[b.of] = 1 /\ \A q \in Event : q # b.of => d[q] = dc[q]
  BY <1>1, <1>2
<1>4. \A c \in M : c.of # b.of /\ c.of \in Event
  BY <1>1 DEF Separate, TTLBatch
<1>5. FragmentsOf(M, b.of) = {}
      /\ \A q : q # b.of => FragmentsOf(M, q) = FragmentsOf(L, q)
  BY <1>4 DEF FragmentsOf
<1>6. Sound(M, qb, d, f)
  <2>1. \A c \in M : c.events \cap b.events = {}
    BY <1>1 DEF Separate, Sound
  <2>. QED  BY <1>1, <1>3, <1>4, <2>1 DEF Sound
<1>7. Separate(M)
  BY <1>1 DEF Separate
<1>8. Counted(M, out, mis)
  BY <1>1, <1>4, <1>5, Zenon DEF Counted, Owed
<1>9. ASSUME NEW q \in Event
      PROVE  /\ d[q] \in {0, 1} /\ IsFiniteSet(qb[q])
             /\ qb[q] = {} => d[q] = 0
             /\ FragmentsOf(M, q) = {} => qb[q] = {} \/ dn \/ d[q] = 1 \/ q \in mis
             /\ \A e \in qb[q] : \/ e \in f
                                 \/ \E c \in M : c.of = q /\ e \in c.events
                                 \/ dn /\ d[q] = 0 /\ FragmentsOf(M, q) = {}
  <2>1. CASE q = b.of
    <3>1. \A e \in qb[q] : e \in fin \/ e \in b.events
      <4>. SUFFICES ASSUME NEW e \in qb[q] PROVE e \in fin \/ e \in b.events
        OBVIOUS
      <4>1. \/ e \in fin
            \/ \E c \in L : c.of = q /\ e \in c.events
            \/ FragmentsOf(L, q) = {}
        BY <1>1 DEF Closed
      <4>2. b \in FragmentsOf(L, q)
        BY <2>1 DEF FragmentsOf
      <4>. QED  BY <1>4, <2>1, <4>1, <4>2
    <3>2. IsFiniteSet(qb[q])
      BY <1>1 DEF Closed
    <3>. QED  BY <1>2, <1>3, <2>1, <3>1, <3>2
  <2>2. CASE q # b.of
    <3>1. d[q] = dc[q] /\ FragmentsOf(M, q) = FragmentsOf(L, q)
      BY <1>3, <1>5, <2>2, Zenon
    <3>2. /\ dc[q] \in {0, 1} /\ IsFiniteSet(qb[q])
          /\ qb[q] = {} => dc[q] = 0
          /\ FragmentsOf(L, q) = {} => qb[q] = {} \/ dn \/ dc[q] = 1 \/ q \in mis
      BY <1>1 DEF Closed
    <3>3. \A e \in qb[q] : \/ e \in fin
                           \/ \E c \in L : c.of = q /\ e \in c.events
                           \/ dn /\ dc[q] = 0 /\ FragmentsOf(L, q) = {}
      BY <1>1 DEF Closed
    <3>4. \A c \in L : c.of = q => c \in M
      BY <2>2
    <3>. QED  BY <3>1, <3>2, <3>3, <3>4
  <2>. QED  BY <2>1, <2>2
<1>10. Closed(M, qb, d, f, mis, dn)
  BY <1>9, Zenon DEF Closed
<1>. QED  BY <1>1, <1>3, <1>6, <1>7, <1>8, <1>10 DEF Accounts

\* What is owed after a fragment is taken away.
LEMMA OwedWithout ==
  ASSUME NEW L, NEW qb, NEW out, NEW dc, NEW fin, NEW mis, NEW dn,
         Accounts(L, qb, out, dc, fin, mis, dn), NEW b \in L
  PROVE  /\ Owed(L \ {b}, b.of) = Owed(L, b.of) \ b.owes
         /\ IsFiniteSet(Owed(L \ {b}, b.of)) /\ Cardinality(Owed(L \ {b}, b.of)) \in Nat
         /\ Cardinality(Owed(L \ {b}, b.of))
              = Cardinality(Owed(L, b.of)) - Cardinality(b.owes)
         /\ \A q : q # b.of => Owed(L \ {b}, q) = Owed(L, q)
         /\ Owed(L \ {b}, b.of) = {} => FragmentsOf(L \ {b}, b.of) = {}
<1>1. Separate(L) /\ Sound(L, qb, dc, fin)
  BY DEF Accounts
<1>2. Owed(L \ {b}, b.of) = Owed(L, b.of) \ b.owes
  BY <1>1 DEF Separate, Owed, FragmentsOf
<1>3. b.owes \subseteq Owed(L, b.of)
  BY DEF Owed, FragmentsOf
<1>4. IsFiniteSet(Owed(L, b.of)) /\ IsFiniteSet(b.owes)
  BY OwedFinite, OwesFinite
<1>5. IsFiniteSet(Owed(L \ {b}, b.of)) /\ Cardinality(Owed(L \ {b}, b.of)) \in Nat
  <2>1. IsFiniteSet(Owed(L \ {b}, b.of))
    BY <1>2, <1>4, FS_Subset, Zenon
  <2>. QED  BY <2>1, FS_CardinalityType
<1>6. Cardinality(Owed(L, b.of) \ b.owes) = Cardinality(Owed(L, b.of)) - Cardinality(b.owes)
  <2>1. Owed(L, b.of) \cap b.owes = b.owes
    BY <1>3
  <2>. QED  BY <1>4, <2>1, FS_Difference
<1>7. \A q : q # b.of => FragmentsOf(L \ {b}, q) = FragmentsOf(L, q)
  BY DEF FragmentsOf
<1>8. Owed(L \ {b}, b.of) = {} => FragmentsOf(L \ {b}, b.of) = {}
  <2>1. \A c \in L : c.owes # {}
    BY <1>1 DEF Sound
  <2>. QED  BY <2>1 DEF Owed, FragmentsOf
<1>. QED  BY <1>2, <1>5, <1>6, <1>7, <1>8, Zenon DEF Owed

\* The done callback of a fragment: it reports the queue batch done when the
\* count reaches zero.
LEMMA FinishFragmentKeeps ==
  ASSUME NEW L, NEW qb, NEW out, NEW dc, NEW fin, NEW mis, NEW dn,
         Accounts(L, qb, out, dc, fin, mis, dn), NEW b \in L, b.split,
         NEW rem, rem = out[b.of] - Cardinality(b.owes)
  PROVE  Accounts(L \ {b}, qb, [out EXCEPT ![b.of] = rem],
                  IF rem = 0 THEN [dc EXCEPT ![b.of] = @ + 1] ELSE dc,
                  fin \cup b.events, mis, dn)
<1>. DEFINE M == L \ {b}
            o == [out EXCEPT ![b.of] = rem]
            d == IF rem = 0 THEN [dc EXCEPT ![b.of] = @ + 1] ELSE dc
            f == fin \cup b.events
<1>1. /\ L \subseteq TTLBatch /\ Sound(L, qb, dc, fin) /\ Separate(L) /\ Counted(L, out, mis)
      /\ Closed(L, qb, dc, fin, mis, dn) /\ dc \in [Event -> Nat] /\ out \in [Event -> Int]
  BY DEF Accounts
<1>2. b.of \in Event /\ dc[b.of] = 0 /\ b.events \subseteq b.owes /\ b.owes \subseteq qb[b.of]
      /\ b.events # {}
  BY <1>1 DEF TTLBatch, Sound
<1>3. Cardinality(b.owes) \in Nat /\ Cardinality(Owed(L, b.of)) \in Nat
  BY <1>2, OwesFinite, OwedFinite
<1>4. /\ rem \in Int
      /\ Cardinality(Owed(M, b.of)) = Cardinality(Owed(L, b.of)) - Cardinality(b.owes)
      /\ Cardinality(Owed(M, b.of)) <= rem
      /\ b.of \notin mis => rem = Cardinality(Owed(M, b.of))
  <2>1. Cardinality(Owed(M, b.of)) = Cardinality(Owed(L, b.of)) - Cardinality(b.owes)
    BY OwedWithout, Zenon
  <2>2. /\ Cardinality(Owed(L, b.of)) <= out[b.of]
        /\ b.of \notin mis => out[b.of] = Cardinality(Owed(L, b.of))
    BY <1>1 DEF Counted
  <2>3. out[b.of] \in Int
    BY <1>1, <1>2
  <2>. QED  BY <1>3, <2>1, <2>2, <2>3
<1>5. Cardinality(Owed(M, b.of)) = 0 => FragmentsOf(M, b.of) = {}
  <2>1. IsFiniteSet(Owed(M, b.of))
    BY OwedWithout, Zenon
  <2>. QED  BY <2>1, FS_EmptySet, OwedWithout, Zenon
<1>6. /\ d \in [Event -> Nat] /\ o \in [Event -> Int] /\ o[b.of] = rem
      /\ d[b.of] = IF rem = 0 THEN 1 ELSE 0
      /\ \A q \in Event : q # b.of => d[q] = dc[q] /\ o[q] = out[q]
  BY <1>1, <1>2, <1>4
<1>7. rem = 0 => FragmentsOf(M, b.of) = {}
  <2>1. Cardinality(Owed(M, b.of)) \in Nat
    BY OwedWithout, Zenon
  <2>. QED  BY <1>4, <1>5, <2>1
<1>8. FragmentsOf(M, b.of) = {} => rem = 0 \/ b.of \in mis
  <2>1. FragmentsOf(M, b.of) = {} => Owed(M, b.of) = {}
    BY DEF Owed
  <2>2. Cardinality({}) = 0
    BY FS_EmptySet
  <2>. QED  BY <1>4, <2>1, <2>2, Zenon
<1>9. \A q : q # b.of => FragmentsOf(M, q) = FragmentsOf(L, q)
  BY DEF FragmentsOf
<1>. HIDE DEF d, o
<1>10. Sound(M, qb, d, f)
  <2>1. \A c \in M : c.events \cap b.events = {}
    BY <1>1 DEF Separate, Sound
  <2>2. \A c \in M : c.of = b.of => d[b.of] = 0
    BY <1>6, <1>7 DEF FragmentsOf
  <2>3. \A c \in M : d[c.of] = 0
    BY <1>1, <1>6, <2>2 DEF Sound, TTLBatch
  <2>. QED  BY <1>1, <2>1, <2>3 DEF Sound
<1>11. Separate(M)
  BY <1>1 DEF Separate
<1>12. Counted(M, o, mis)
  <2>1. ASSUME NEW c \in M, c.split
        PROVE  /\ Cardinality(Owed(M, c.of)) <= o[c.of]
               /\ c.of \notin mis => o[c.of] = Cardinality(Owed(M, c.of))
    <3>1. CASE c.of = b.of
      BY <1>4, <1>6, <3>1
    <3>2. CASE c.of # b.of
      BY <1>1, <1>6, <1>9, <2>1, <3>2, Zenon DEF Counted, Owed, TTLBatch
    <3>. QED  BY <3>1, <3>2
  <2>. QED  BY <2>1 DEF Counted
<1>13. ASSUME NEW q \in Event
      PROVE  /\ d[q] \in {0, 1} /\ IsFiniteSet(qb[q])
             /\ qb[q] = {} => d[q] = 0
             /\ FragmentsOf(M, q) = {} => qb[q] = {} \/ dn \/ d[q] = 1 \/ q \in mis
             /\ \A e \in qb[q] : \/ e \in f
                                 \/ \E c \in M : c.of = q /\ e \in c.events
                                 \/ dn /\ d[q] = 0 /\ FragmentsOf(M, q) = {}
  <2>1. CASE q = b.of
    <3>1. \A e \in qb[q] : e \in f \/ \E c \in M : c.of = q /\ e \in c.events
      <4>. SUFFICES ASSUME NEW e \in qb[q]
                    PROVE  e \in f \/ \E c \in M : c.of = q /\ e \in c.events
        OBVIOUS
      <4>1. \/ e \in fin
            \/ \E c \in L : c.of = q /\ e \in c.events
            \/ FragmentsOf(L, q) = {}
        BY <1>1 DEF Closed
      <4>2. b \in FragmentsOf(L, q)
        BY <2>1 DEF FragmentsOf
      <4>. QED  BY <4>1, <4>2
    <3>2. IsFiniteSet(qb[q])
      BY <1>1 DEF Closed
    <3>3. d[q] \in {0, 1} /\ qb[q] # {}
      BY <1>2, <1>6, <2>1
    <3>4. FragmentsOf(M, q) = {} => d[q] = 1 \/ q \in mis
      BY <1>6, <1>8, <2>1
    <3>. QED  BY <3>1, <3>2, <3>3, <3>4, Zenon
  <2>2. CASE q # b.of
    <3>1. d[q] = dc[q] /\ FragmentsOf(M, q) = FragmentsOf(L, q)
      BY <1>6, <1>9, <2>2
    <3>2. /\ dc[q] \in {0, 1} /\ IsFiniteSet(qb[q])
          /\ qb[q] = {} => dc[q] = 0
          /\ FragmentsOf(L, q) = {} => qb[q] = {} \/ dn \/ dc[q] = 1 \/ q \in mis
      BY <1>1 DEF Closed
    <3>3. \A e \in qb[q] : \/ e \in fin
                           \/ \E c \in L : c.of = q /\ e \in c.events
                           \/ dn /\ dc[q] = 0 /\ FragmentsOf(L, q) = {}
      BY <1>1 DEF Closed
    <3>4. \A c \in L : c.of = q => c \in M
      BY <2>2
    <3>. QED  BY <3>1, <3>2, <3>3, <3>4
  <2>. QED  BY <2>1, <2>2, Zenon
<1>14. Closed(M, qb, d, f, mis, dn)
  BY <1>13, Zenon DEF Closed
<1>15. Accounts(M, qb, o, d, f, mis, dn)
  BY <1>1, <1>6, <1>10, <1>11, <1>12, <1>14 DEF Accounts
<1>. QED  BY <1>15 DEF d, o

\* SplitRetry: a batch with at least two events is replaced by two fragments.
\* The first split starts the count.
LEMMA SplitKeeps ==
  ASSUME NEW L, NEW qb, NEW out, NEW dc, NEW fin, NEW mis, NEW dn,
         Accounts(L, qb, out, dc, fin, mis, dn), NEW b \in L,
         NEW half \in SUBSET b.events, Cardinality(b.events) >= 2,
         Cardinality(half) = Cardinality(b.events) \div 2
  PROVE  /\ half # {} /\ b.events \ half # {}
         /\ Accounts((L \ {b}) \cup {Fragment(b, half), Fragment(b, b.events \ half)}, qb,
                     IF b.split THEN out ELSE [out EXCEPT ![b.of] = Cardinality(b.events)],
                     dc, fin, IF b.split /\ b.owes # b.events THEN mis \cup {b.of} ELSE mis, dn)
<1>. DEFINE x == Fragment(b, half)
            y == Fragment(b, b.events \ half)
            K == L \ {b}
            M == K \cup {x, y}
            o == IF b.split THEN out ELSE [out EXCEPT ![b.of] = Cardinality(b.events)]
            m == IF b.split /\ b.owes # b.events THEN mis \cup {b.of} ELSE mis
<1>1. /\ L \subseteq TTLBatch /\ Sound(L, qb, dc, fin) /\ Separate(L) /\ Counted(L, out, mis)
      /\ Closed(L, qb, dc, fin, mis, dn) /\ dc \in [Event -> Nat] /\ out \in [Event -> Int]
  BY DEF Accounts
<1>2. b.of \in Event /\ dc[b.of] = 0 /\ b.events \subseteq b.owes /\ b.owes \subseteq qb[b.of]
      /\ b.events # {} /\ b.events \cap fin = {} /\ b \in TTLBatch
  BY <1>1 DEF TTLBatch, Sound
<1>3. IsFiniteSet(b.events) /\ Cardinality(b.events) \in Nat
      /\ IsFiniteSet(b.owes) /\ Cardinality(b.owes) \in Nat
  BY OwesFinite
<1>4. half # {} /\ b.events \ half # {}
  <2>1. half # {}
    <3>1. Cardinality({}) = 0
      BY FS_EmptySet
    <3>. QED  BY <1>3, <3>1
  <2>2. half # b.events
    BY <1>3
  <2>. QED  BY <2>1, <2>2
<1>5. /\ x \in TTLBatch /\ x.of = b.of /\ x.events = half /\ x.owes = half /\ x.split
      /\ y \in TTLBatch /\ y.of = b.of /\ y.events = b.events \ half
      /\ y.owes = b.events \ half /\ y.split
  BY <1>2 DEF Fragment, TTLBatch
<1>. HIDE DEF x, y
<1>6. \A c \in K : c.owes \cap b.owes = {}
  BY <1>1 DEF Separate
<1>7. Sound(M, qb, dc, fin)
  BY <1>1, <1>2, <1>4, <1>5 DEF Sound
<1>8. Separate(M)
  <2>1. \A c, d \in M : c # d => c.owes \cap d.owes = {}
    <3>1. \A c, d \in K : c # d => c.owes \cap d.owes = {}
      BY <1>1 DEF Separate
    <3>2. \A c \in K : c.owes \cap x.owes = {} /\ c.owes \cap y.owes = {}
      BY <1>2, <1>5, <1>6
    <3>3. x.owes \cap y.owes = {}
      BY <1>5
    <3>. QED  BY <3>1, <3>2, <3>3
  <2>2. \A c, d \in M : (~c.split /\ d.of = c.of) => d = c
    <3>1. \A c, d \in L : (~c.split /\ d.of = c.of) => d = c
      BY <1>1 DEF Separate
    <3>2. \A c \in M : ~c.split => c \in K
      BY <1>5
    <3>. QED  BY <1>5, <3>1, <3>2
  <2>. QED  BY <2>1, <2>2 DEF Separate
<1>9. /\ Owed(M, b.of) = Owed(K, b.of) \cup b.events
      /\ \A q : q # b.of => Owed(M, q) = Owed(L, q)
  <2>1. FragmentsOf(M, b.of) = FragmentsOf(K, b.of) \cup {x, y}
    BY <1>5 DEF FragmentsOf
  <2>2. \A q : q # b.of => FragmentsOf(M, q) = FragmentsOf(L, q)
    BY <1>5 DEF FragmentsOf
  <2>3. x.owes \cup y.owes = b.events
    BY <1>5
  <2>. QED  BY <2>1, <2>2, <2>3, Zenon DEF Owed
<1>. HIDE DEF K, M
<1>10. Cardinality(Owed(M, b.of)) = Cardinality(Owed(K, b.of)) + Cardinality(b.events)
  <2>1. Owed(K, b.of) \cap b.events = {}
    <3>1. Owed(K, b.of) = Owed(L, b.of) \ b.owes
      BY OwedWithout, Zenon DEF K
    <3>. QED  BY <1>2, <3>1
  <2>2. IsFiniteSet(Owed(K, b.of)) /\ Cardinality(Owed(K, b.of)) \in Nat
    BY OwedWithout, Zenon DEF K
  <2>3. Cardinality(Owed(K, b.of) \cup b.events)
          = Cardinality(Owed(K, b.of)) + Cardinality(b.events)
    <3>1. Cardinality(Owed(K, b.of) \cup b.events)
            = Cardinality(Owed(K, b.of)) + Cardinality(b.events)
                - Cardinality(Owed(K, b.of) \cap b.events)
      BY <1>3, <2>2, FS_Union
    <3>2. Cardinality(Owed(K, b.of) \cap b.events) = 0
      BY <2>1, FS_EmptySet, Zenon
    <3>. QED  BY <1>3, <2>2, <3>1, <3>2
  <2>. QED  BY <1>9, <2>3
<1>11. /\ Cardinality(Owed(M, b.of)) <= o[b.of]
       /\ b.of \notin m => o[b.of] = Cardinality(Owed(M, b.of))
  <2>1. CASE b.split
    <3>1. Cardinality(Owed(K, b.of)) = Cardinality(Owed(L, b.of)) - Cardinality(b.owes)
          /\ Cardinality(Owed(L, b.of)) \in Nat
      BY <1>2, OwedWithout, OwedFinite, Zenon DEF K
    <3>2. /\ Cardinality(Owed(L, b.of)) <= out[b.of]
          /\ b.of \notin mis => out[b.of] = Cardinality(Owed(L, b.of))
      BY <1>1, <2>1 DEF Counted
    <3>3. Cardinality(b.events) <= Cardinality(b.owes)
      BY <1>2, <1>3, FS_Subset
    <3>4. b.of \notin m => b.owes = b.events /\ b.of \notin mis
      BY <2>1
    <3>5. o[b.of] = out[b.of] /\ out[b.of] \in Int
      BY <1>1, <1>2, <2>1
    <3>. QED  BY <1>3, <1>10, <3>1, <3>2, <3>3, <3>4, <3>5
  <2>2. CASE ~b.split
    <3>1. Owed(K, b.of) = {}
      BY <1>1, <2>2 DEF Separate, Owed, FragmentsOf, K
    <3>2. Cardinality({}) = 0
      BY FS_EmptySet
    <3>3. o[b.of] = Cardinality(b.events)
      BY <1>1, <1>2, <2>2
    <3>4. Cardinality(Owed(M, b.of)) = Cardinality(b.events)
      BY <1>3, <1>10, <3>1, <3>2
    <3>. QED  BY <1>3, <3>3, <3>4
  <2>. QED  BY <2>1, <2>2
<1>12. o \in [Event -> Int] /\ \A q \in Event : q # b.of => o[q] = out[q]
  BY <1>1, <1>2, <1>3
<1>13. mis \subseteq m /\ \A q : q # b.of => (q \in m <=> q \in mis)
  OBVIOUS
<1>. HIDE DEF o, m
<1>14. Counted(M, o, m)
  <2>1. ASSUME NEW c \in M, c.split
        PROVE  /\ Cardinality(Owed(M, c.of)) <= o[c.of]
               /\ c.of \notin m => o[c.of] = Cardinality(Owed(M, c.of))
    <3>1. CASE c.of = b.of
      BY <1>11, <3>1
    <3>2. CASE c.of # b.of
      <4>1. c \in L /\ c.of \in Event
        BY <1>1, <1>5, <3>2 DEF TTLBatch, K, M
      <4>2. /\ Cardinality(Owed(L, c.of)) <= out[c.of]
            /\ c.of \notin mis => out[c.of] = Cardinality(Owed(L, c.of))
        BY <1>1, <2>1, <4>1 DEF Counted
      <4>. QED  BY <1>9, <1>12, <1>13, <3>2, <4>1, <4>2
    <3>. QED  BY <3>1, <3>2
  <2>. QED  BY <2>1 DEF Counted
<1>15. \A q : FragmentsOf(M, q) = {} <=> FragmentsOf(L, q) = {}
  BY <1>5 DEF FragmentsOf, K, M
<1>16. Closed(M, qb, dc, fin, m, dn)
  <2>1. \A q \in Event : \A e \in qb[q] :
          (\E c \in L : c.of = q /\ e \in c.events) => \E c \in M : c.of = q /\ e \in c.events
    BY <1>5 DEF K, M
  <2>2. \A q \in Event : /\ dc[q] \in {0, 1} /\ IsFiniteSet(qb[q])
                         /\ qb[q] = {} => dc[q] = 0
                         /\ FragmentsOf(M, q) = {} => qb[q] = {} \/ dn \/ dc[q] = 1 \/ q \in m
    BY <1>1, <1>13, <1>15 DEF Closed
  <2>3. \A q \in Event : \A e \in qb[q] :
                         \/ e \in fin
                         \/ \E c \in L : c.of = q /\ e \in c.events
                         \/ dn /\ dc[q] = 0 /\ FragmentsOf(L, q) = {}
    BY <1>1 DEF Closed
  <2>4. \A q \in Event : \A e \in qb[q] :
                         \/ e \in fin
                         \/ \E c \in M : c.of = q /\ e \in c.events
                         \/ dn /\ dc[q] = 0 /\ FragmentsOf(M, q) = {}
    BY <1>15, <2>1, <2>3
  <2>. QED  BY <2>2, <2>4 DEF Closed
<1>17. Accounts(M, qb, o, dc, fin, m, dn)
  <2>1. M \subseteq TTLBatch
    BY <1>1, <1>5 DEF K, M
  <2>2. qb \in [Event -> SUBSET Event]
    BY DEF Accounts
  <2>. QED  BY <1>1, <1>7, <1>8, <1>12, <1>14, <1>16, <2>1, <2>2 DEF Accounts
<1>. QED  BY <1>4, <1>17 DEF x, y, o, m, K, M

\* A fresh batch from the queue (newBatch).
LEMMA FreshKeeps ==
  ASSUME NEW L, NEW qb, NEW out, NEW dc, NEW fin, NEW mis, NEW dn,
         Accounts(L, qb, out, dc, fin, mis, dn),
         NEW n \in TTLBatch, n.events = n.owes, n.owes # {}, ~n.split,
         IsFiniteSet(n.owes), qb[n.of] = {}, n.owes \cap fin = {},
         \A q \in Event : qb[q] \cap n.owes = {}
  PROVE  Accounts(L \cup {n}, [qb EXCEPT ![n.of] = n.owes], out, dc, fin, mis, dn)
<1>. DEFINE M == L \cup {n}
            Q == [qb EXCEPT ![n.of] = n.owes]
<1>1. /\ L \subseteq TTLBatch /\ Sound(L, qb, dc, fin) /\ Separate(L) /\ Counted(L, out, mis)
      /\ Closed(L, qb, dc, fin, mis, dn) /\ dc \in [Event -> Nat] /\ out \in [Event -> Int]
      /\ qb \in [Event -> SUBSET Event]
  BY DEF Accounts
<1>2. n.of \in Event /\ n.owes \subseteq Event
  BY DEF TTLBatch
<1>3. Q \in [Event -> SUBSET Event] /\ Q[n.of] = n.owes
      /\ \A q \in Event : q # n.of => Q[q] = qb[q]
  BY <1>1, <1>2
<1>4. \A c \in L : c.of # n.of /\ c.of \in Event /\ c.owes \cap n.owes = {}
  BY <1>1 DEF Sound, TTLBatch
<1>5. dc[n.of] = 0
  BY <1>1, <1>2 DEF Closed
<1>. HIDE DEF Q
<1>6. Sound(M, Q, dc, fin)
  BY <1>1, <1>3, <1>4, <1>5 DEF Sound
<1>7. Separate(M)
  BY <1>1, <1>4 DEF Separate
<1>8. \A q : q # n.of => FragmentsOf(M, q) = FragmentsOf(L, q)
  BY DEF FragmentsOf
<1>9. Counted(M, out, mis)
  BY <1>1, <1>4, <1>8, Zenon DEF Counted, Owed
<1>10. ASSUME NEW q \in Event
       PROVE  /\ dc[q] \in {0, 1} /\ IsFiniteSet(Q[q])
              /\ Q[q] = {} => dc[q] = 0
              /\ FragmentsOf(M, q) = {} => Q[q] = {} \/ dn \/ dc[q] = 1 \/ q \in mis
              /\ \A e \in Q[q] : \/ e \in fin
                                 \/ \E c \in M : c.of = q /\ e \in c.events
                                 \/ dn /\ dc[q] = 0 /\ FragmentsOf(M, q) = {}
  <2>1. CASE q = n.of
    <3>1. n \in FragmentsOf(M, q)
      BY <2>1 DEF FragmentsOf
    <3>. QED  BY <1>3, <1>5, <2>1, <3>1
  <2>2. CASE q # n.of
    <3>1. Q[q] = qb[q] /\ FragmentsOf(M, q) = FragmentsOf(L, q)
      BY <1>3, <1>8, <2>2, Zenon
    <3>2. /\ dc[q] \in {0, 1} /\ IsFiniteSet(qb[q])
          /\ qb[q] = {} => dc[q] = 0
          /\ FragmentsOf(L, q) = {} => qb[q] = {} \/ dn \/ dc[q] = 1 \/ q \in mis
      BY <1>1 DEF Closed
    <3>3. \A e \in qb[q] : \/ e \in fin
                           \/ \E c \in L : c.of = q /\ e \in c.events
                           \/ dn /\ dc[q] = 0 /\ FragmentsOf(L, q) = {}
      BY <1>1 DEF Closed
    <3>. QED  BY <3>1, <3>2, <3>3, Zenon
  <2>. QED  BY <2>1, <2>2, Zenon
<1>11. Closed(M, Q, dc, fin, mis, dn)
  BY <1>10, Zenon DEF Closed
<1>12. Accounts(M, Q, out, dc, fin, mis, dn)
  BY <1>1, <1>3, <1>6, <1>7, <1>9, <1>11, Zenon DEF Accounts
<1>. QED  BY <1>12 DEF Q

\* A batch that the reader still holds is discarded at shutdown.
LEMMA DiscardKeeps ==
  ASSUME NEW L, NEW qb, NEW out, NEW dc, NEW fin, NEW mis, NEW dn,
         Accounts(L, qb, out, dc, fin, mis, dn), NEW b \in L, ~b.split, dn
  PROVE  Accounts(L \ {b}, qb, out, dc, fin, mis, dn)
<1>. DEFINE M == L \ {b}
<1>1. /\ L \subseteq TTLBatch /\ Sound(L, qb, dc, fin) /\ Separate(L) /\ Counted(L, out, mis)
      /\ Closed(L, qb, dc, fin, mis, dn)
  BY DEF Accounts
<1>2. FragmentsOf(M, b.of) = {} /\ dc[b.of] = 0
  BY <1>1 DEF FragmentsOf, Separate, Sound
<1>3. \A q : q # b.of => FragmentsOf(M, q) = FragmentsOf(L, q)
  BY DEF FragmentsOf
<1>4. Sound(M, qb, dc, fin) /\ Separate(M)
  BY <1>1, Zenon DEF Sound, Separate
<1>5. Counted(M, out, mis)
  <2>1. \A c \in M : c.of # b.of
    BY <1>2 DEF FragmentsOf
  <2>. QED  BY <1>1, <1>3, <2>1, Zenon DEF Counted, Owed
<1>6. ASSUME NEW q \in Event, NEW e \in qb[q]
      PROVE  \/ e \in fin
             \/ \E c \in M : c.of = q /\ e \in c.events
             \/ dn /\ dc[q] = 0 /\ FragmentsOf(M, q) = {}
  <2>1. \/ e \in fin
        \/ \E c \in L : c.of = q /\ e \in c.events
        \/ dn /\ dc[q] = 0 /\ FragmentsOf(L, q) = {}
    BY <1>1 DEF Closed
  <2>. QED  BY <1>2, <1>3, <2>1, Zenon
<1>7. Closed(M, qb, dc, fin, mis, dn)
  BY <1>1, <1>6, Zenon DEF Closed
<1>. QED  BY <1>1, <1>4, <1>5, <1>7, Zenon DEF Accounts

\* Closing the done channel only weakens what the accounts promise.
LEMMA ShutdownKeeps ==
  ASSUME NEW L, NEW qb, NEW out, NEW dc, NEW fin, NEW mis, NEW dn,
         Accounts(L, qb, out, dc, fin, mis, dn), dn \in BOOLEAN
  PROVE  Accounts(L, qb, out, dc, fin, mis, TRUE)
BY DEF Accounts, Closed

-----------------------------------------------------------------------------
(* The inductive invariant                                                 *)

\* The batches in the retry list, those that calls of retry hand over, and the
\* second halves that SplitRetry hands over next.
RetrySet == {retryBatches[i] : i \in 1..Len(retryBatches)}
CallSet == {c.batch : c \in calls}
NextSet == {c.next : c \in calls} \ {NoBatch}

\* The places of batches hold different ones: queueBatch, readerBatch, the
\* retry list, the output clients and the calls of retry.
PlacesApart(Q, R, T, F, C, N) ==
  /\ Q \cap (R \cup T \cup F \cup C \cup N) = {}
  /\ R \cap (T \cup F \cup C \cup N) = {}
  /\ T \cap (F \cup C \cup N) = {}
  /\ F \cap (C \cup N) = {}
  /\ C \cap N = {}

Queued == {queueBatch} \ {NoBatch}
Read == {readerBatch} \ {NoBatch}

CallsDistinct ==
  \A c, d \in calls : c # d => c.batch # d.batch /\ (c.next = NoBatch \/ c.next # d.next)

RetriesDistinct ==
  \A i, j \in 1..Len(retryBatches) : retryBatches[i] = retryBatches[j] => i = j

\* Every batch is in one place only.
Once == /\ PlacesApart(Queued, Read, RetrySet, inFlight, CallSet, NextSet)
        /\ CallsDistinct /\ RetriesDistinct

\* The handover between queueReader and eventConsumer: there is room for a
\* batch that was requested, and only a fresh batch is handed over.
Handover ==
  /\ readerBatch # NoBatch => reader = "send" /\ ~readerBatch.split
  /\ (readerReq \/ reader \in {"get", "send"}) => pendingRead
  /\ pendingRead => queueBatch = NoBatch
  /\ readerReq => reader \in {"idle", "stopped"}
  /\ consumer = "stopped" => done
  /\ controller = "paused" => generation < load.generations

\* The queue hands out the events in order, each in one batch.
Numbered ==
  /\ \A q \in Event : queueBatches[q] \subseteq q..(nextEvent - 1)
  /\ \A e \in 1..(nextEvent - 1) : \E q \in Event : e \in queueBatches[q]
  /\ finished \subseteq 1..(nextEvent - 1)

Accounted ==
  Accounts(Live, queueBatches, outstanding, doneCount, finished, miscounted, done)

IInv == TypeOK /\ Once /\ Handover /\ Numbered /\ Accounted

-----------------------------------------------------------------------------
(* The places                                                              *)

\* The batches on their way are those in the places.
LEMMA LiveIs ==
  TypeOK => /\ Live = Queued \cup Read \cup RetrySet \cup inFlight \cup CallSet \cup NextSet
            /\ Live \subseteq TTLBatch
<1>. SUFFICES ASSUME TypeOK
              PROVE  /\ Live = Queued \cup Read \cup RetrySet \cup inFlight
                               \cup CallSet \cup NextSet
                     /\ Live \subseteq TTLBatch
  OBVIOUS
<1>1. /\ queueBatch \in TTLBatch \cup {NoBatch} /\ readerBatch \in TTLBatch \cup {NoBatch}
      /\ retryBatches \in Seq(TTLBatch) /\ inFlight \subseteq TTLBatch /\ calls \subseteq Call
  BY DEF TypeOK
<1>2. RetrySet \subseteq TTLBatch
  BY <1>1, SeqElem DEF RetrySet
<1>3. CallSet \subseteq TTLBatch /\ NextSet \subseteq TTLBatch
  BY <1>1 DEF CallSet, NextSet, Call
<1>4. Live = ({queueBatch, readerBatch} \cup RetrySet \cup inFlight \cup CallSet
               \cup {c.next : c \in calls}) \ {NoBatch}
  BY DEF Live, RetrySet, CallSet
<1>5. {c.next : c \in calls} \ {NoBatch} = NextSet
  BY DEF NextSet
<1>. QED  BY <1>1, <1>2, <1>3, <1>4, <1>5, NilAssumption DEF Queued, Read

\* The same after a step.
LEMMA LiveIsNext ==
  (TypeOK => /\ Live = Queued \cup Read \cup RetrySet \cup inFlight \cup CallSet \cup NextSet
             /\ Live \subseteq TTLBatch)'
BY LiveIs, PTL

\* Taking the oldest retry.
LEMMA RetryTail ==
  ASSUME retryBatches \in Seq(TTLBatch), retryBatches # <<>>, RetriesDistinct,
         retryBatches' = Tail(retryBatches)
  PROVE  /\ Head(retryBatches) \in RetrySet
         /\ RetrySet' = RetrySet \ {Head(retryBatches)}
         /\ RetriesDistinct'
<1>1. /\ Head(retryBatches) = retryBatches[1] /\ Len(retryBatches) \in Nat \ {0}
      /\ Len(retryBatches') = Len(retryBatches) - 1
      /\ \A i \in 1..Len(retryBatches') : retryBatches'[i] = retryBatches[i + 1]
  BY SeqHeadTail, SeqEmpty
<1>2. Head(retryBatches) \in RetrySet
  BY <1>1 DEF RetrySet
<1>3. RetriesDistinct'
  BY <1>1 DEF RetriesDistinct
<1>4. RetrySet' \subseteq RetrySet \ {Head(retryBatches)}
  BY <1>1 DEF RetrySet, RetriesDistinct
<1>5. ASSUME NEW b \in RetrySet, b # Head(retryBatches) PROVE b \in RetrySet'
  <2>1. PICK i \in 1..Len(retryBatches) : b = retryBatches[i]
    BY DEF RetrySet
  <2>2. i - 1 \in 1..Len(retryBatches') /\ retryBatches'[i - 1] = b
    BY <1>1, <1>5, <2>1
  <2>. QED  BY <2>2, Zenon DEF RetrySet
<1>. QED  BY <1>2, <1>3, <1>4, <1>5

\* Adding a retry.
LEMMA RetryAppend ==
  ASSUME retryBatches \in Seq(TTLBatch), RetriesDistinct, NEW b \in TTLBatch,
         b \notin RetrySet, retryBatches' = Append(retryBatches, b)
  PROVE  RetrySet' = RetrySet \cup {b} /\ RetriesDistinct'
<1>1. /\ Len(retryBatches) \in Nat /\ Len(retryBatches') = Len(retryBatches) + 1
      /\ \A i \in 1..Len(retryBatches) : retryBatches'[i] = retryBatches[i]
      /\ retryBatches'[Len(retryBatches) + 1] = b
  BY SeqAppend, SeqLen
<1>2. \A i \in 1..Len(retryBatches') : i \in 1..Len(retryBatches) \/ i = Len(retryBatches) + 1
  BY <1>1
<1>3. RetrySet' = RetrySet \cup {b}
  BY <1>1, <1>2 DEF RetrySet
<1>4. \A i \in 1..Len(retryBatches) : retryBatches[i] # b
  BY DEF RetrySet
<1>5. RetriesDistinct'
  BY <1>1, <1>2, <1>4 DEF RetriesDistinct
<1>. QED  BY <1>3, <1>5

\* The retry list is left alone.
LEMMA RetrySame ==
  ASSUME UNCHANGED retryBatches
  PROVE  RetrySet' = RetrySet /\ RetriesDistinct' = RetriesDistinct
BY DEF RetrySet, RetriesDistinct

\* A call of retry begins.
LEMMA CallAdd ==
  ASSUME CallsDistinct, NEW b, NEW d, NEW n, NEW w,
         b \notin CallSet, n \notin NextSet,
         calls' = calls \cup {RetryCall(b, d, n, w)}
  PROVE  /\ CallSet' = CallSet \cup {b}
         /\ NextSet' = NextSet \cup ({n} \ {NoBatch})
         /\ CallsDistinct'
<1>. DEFINE r == RetryCall(b, d, n, w)
<1>1. r.batch = b /\ r.next = n
  BY DEF RetryCall
<1>. HIDE DEF r
<1>2. calls' = calls \cup {r}
  BY DEF r
<1>3. CallSet' = CallSet \cup {b}
  BY <1>1, <1>2 DEF CallSet
<1>4. NextSet' = NextSet \cup ({n} \ {NoBatch})
  BY <1>1, <1>2 DEF NextSet
<1>5. \A c \in calls : c.batch # b /\ (c.next = NoBatch \/ c.next # n)
  BY DEF CallSet, NextSet
<1>6. CallsDistinct'
  BY <1>1, <1>2, <1>5 DEF CallsDistinct
<1>. QED  BY <1>3, <1>4, <1>6

\* A call of retry returns, and SplitRetry goes on with the second half.
LEMMA CallEnd ==
  ASSUME CallsDistinct, CallSet \cap NextSet = {}, NoBatch \notin CallSet,
         NEW c \in calls, CallReturns(c)
  PROVE  /\ CallSet' = (CallSet \ {c.batch}) \cup ({c.next} \ {NoBatch})
         /\ NextSet' = NextSet \ {c.next}
         /\ CallsDistinct'
<1>. DEFINE r == RetryCall(c.next, FALSE, NoBatch, c.by)
<1>1. r.batch = c.next /\ r.next = NoBatch
  BY DEF RetryCall
<1>2. calls' = (calls \ {c}) \cup (IF c.next = NoBatch THEN {} ELSE {r})
  BY DEF CallReturns
<1>. HIDE DEF r
<1>3. \A d \in calls : d # c => d.batch # c.batch /\ (d.next = NoBatch \/ d.next # c.next)
  BY DEF CallsDistinct
<1>4. \A d \in calls : d.batch # c.next
  BY DEF CallSet, NextSet
<1>5. CallSet' = (CallSet \ {c.batch}) \cup ({c.next} \ {NoBatch})
  <2>1. CASE c.next = NoBatch
    BY <1>2, <1>3, <2>1 DEF CallSet
  <2>2. CASE c.next # NoBatch
    <3>1. calls' = (calls \ {c}) \cup {r}
      BY <1>2, <2>2
    <3>. QED  BY <1>1, <1>3, <2>2, <3>1 DEF CallSet
  <2>. QED  BY <2>1, <2>2
<1>6. NextSet' = NextSet \ {c.next}
  <2>1. CASE c.next = NoBatch
    BY <1>2, <2>1 DEF NextSet
  <2>2. CASE c.next # NoBatch
    <3>1. calls' = (calls \ {c}) \cup {r}
      BY <1>2, <2>2
    <3>. QED  BY <1>1, <1>3, <2>2, <3>1 DEF NextSet
  <2>. QED  BY <2>1, <2>2
<1>7. CallsDistinct'
  <2>1. \A d, e \in calls' : d # e => d.batch # e.batch
    BY <1>1, <1>2, <1>4 DEF CallsDistinct
  <2>2. \A d, e \in calls' : d # e => d.next = NoBatch \/ d.next # e.next
    BY <1>1, <1>2 DEF CallsDistinct
  <2>. QED  BY <2>1, <2>2 DEF CallsDistinct
<1>. QED  BY <1>5, <1>6, <1>7

\* The calls are left alone.
LEMMA CallsSame ==
  ASSUME UNCHANGED calls
  PROVE  CallSet' = CallSet /\ NextSet' = NextSet /\ CallsDistinct' = CallsDistinct
BY DEF CallSet, NextSet, CallsDistinct

\* No other batch on its way owes what b owes, so a batch that replaces b is
\* in no other place.
LEMMA NoTwin ==
  ASSUME Accounted, NEW b \in Live, NEW n, n.owes \cap b.owes # {}, n \in Live
  PROVE  n = b
BY DEF Accounted, Accounts, Separate

\* The done callback of a batch r with the identity of b, all of whose events
\* are finished now.
LEMMA CallDoneKeeps ==
  ASSUME Accounted, NEW b \in Live, NEW r,
         r.of = b.of, r.owes = b.owes, r.split = b.split, CallDone(r),
         finished' = finished \cup b.events
  PROVE  Accounts(Live \ {b}, queueBatches, outstanding', doneCount', finished',
                  miscounted, done)
<1>1. CASE ~b.split
  <2>1. doneCount' = [doneCount EXCEPT ![b.of] = @ + 1] /\ outstanding' = outstanding
    BY <1>1 DEF CallDone
  <2>. QED  BY <1>1, <2>1, FinishWholeKeeps, Zenon DEF Accounted
<1>2. CASE b.split
  <2>. DEFINE rem == outstanding[b.of] - Cardinality(b.owes)
  <2>1. /\ outstanding' = [outstanding EXCEPT ![b.of] = rem]
        /\ doneCount' = IF rem = 0 THEN [doneCount EXCEPT ![b.of] = @ + 1] ELSE doneCount
    BY <1>2 DEF CallDone
  <2>2. rem = outstanding[b.of] - Cardinality(b.owes)
    OBVIOUS
  <2>. HIDE DEF rem
  <2>. QED  BY <1>2, <2>1, <2>2, FinishFragmentKeeps, Zenon DEF Accounted
<1>. QED  BY <1>1, <1>2

\* A batch on its way: what the provers need to know of it.
LEMMA LiveBatch ==
  ASSUME Accounted, NEW b \in Live
  PROVE  /\ b \in TTLBatch /\ b.of \in Event /\ b.owes # {} /\ b.events # {}
         /\ b.events \subseteq b.owes
         /\ Cardinality(b.owes) \in Nat /\ Cardinality(b.events) \in Nat
<1>1. /\ b \in TTLBatch /\ b.of \in Event
      /\ Cardinality(b.owes) \in Nat /\ Cardinality(b.events) \in Nat
  BY OwesFinite DEF Accounted
<1>2. b.events # {} /\ b.events \subseteq b.owes
  BY DEF Accounted, Accounts, Sound
<1>. QED  BY <1>1, <1>2

-----------------------------------------------------------------------------
(* Type correctness and the handover                                       *)

\* What TopOfLoop leaves.
LEMMA TopOfLoopIs ==
  ASSUME NEW reading \in BOOLEAN, readerReq \in BOOLEAN, TopOfLoop(reading)
  PROVE  /\ pendingRead' \in BOOLEAN /\ readerReq' \in BOOLEAN
         /\ reading => pendingRead' /\ readerReq' = readerReq
         /\ pendingRead' /\ ~reading => queueBatch' = NoBatch /\ readerReq'
         /\ ~pendingRead' => readerReq' = readerReq
BY Zenon DEF TopOfLoop

\* The done callback keeps the types of its counters.
LEMMA CallDoneTyped ==
  ASSUME TypeOK, NEW b, b.of \in Event, Cardinality(b.owes) \in Nat, CallDone(b)
  PROVE  outstanding' \in [Event -> Int] /\ doneCount' \in [Event -> Nat]
<1>1. outstanding \in [Event -> Int] /\ doneCount \in [Event -> Nat]
  BY DEF TypeOK
<1>2. outstanding[b.of] - Cardinality(b.owes) \in Int
  BY <1>1
<1>3. [doneCount EXCEPT ![b.of] = @ + 1] \in [Event -> Nat]
  BY <1>1
<1>. QED  BY <1>1, <1>2, <1>3 DEF CallDone

\* Calls of retry and what follows them.
LEMMA CallReturnsTyped ==
  ASSUME TypeOK, NEW c \in calls, CallReturns(c)
  PROVE  /\ calls' \subseteq Call
         /\ workerPC' \in [Worker -> {"none", "select", "cancel", "connect", "publish",
                                      "exited"}]
<1>1. c \in Call /\ c.next \in TTLBatch \cup {NoBatch} /\ c.by \in Worker \cup {NoBatch}
  BY DEF TypeOK, Call
<1>2. c.next # NoBatch => RetryCall(c.next, FALSE, NoBatch, c.by) \in Call
  BY <1>1 DEF RetryCall, Call
<1>. QED  BY <1>1, <1>2, Zenon DEF TypeOK, CallReturns

\* reduceTTL keeps the identity of a batch and adds no event.
LEMMA ReduceTTLIs ==
  ASSUME NEW b \in TTLBatch
  PROVE  /\ ReduceTTL(b) \in TTLBatch /\ ReduceTTL(b).of = b.of
         /\ ReduceTTL(b).owes = b.owes /\ ReduceTTL(b).split = b.split
         /\ ReduceTTL(b).events \subseteq b.events
         /\ b.events \cap Guaranteed \subseteq ReduceTTL(b).events
<1>1. CASE b.ttl <= 0
  BY <1>1 DEF ReduceTTL
<1>2. CASE ~(b.ttl <= 0) /\ b.ttl > 1
  <2>1. ReduceTTL(b) = [b EXCEPT !.ttl = @ - 1]
    BY <1>2 DEF ReduceTTL
  <2>. QED  BY <2>1 DEF TTLBatch
<1>3. CASE ~(b.ttl <= 0) /\ ~(b.ttl > 1)
  <2>1. ReduceTTL(b) = [b EXCEPT !.events = @ \cap Guaranteed, !.ttl = -1]
    BY <1>3 DEF ReduceTTL
  <2>2. b.events \cap Guaranteed \in SUBSET Event /\ -1 \in Int
    BY DEF TTLBatch
  <2>. QED  BY <2>1, <2>2, Zenon DEF TTLBatch
<1>. QED  BY <1>1, <1>2, <1>3

\* What a retry makes of a batch, decreaseTTL or not.
Retried(c) == IF c.decreaseTTL THEN ReduceTTL(c.batch) ELSE c.batch

\* retry keeps the identity of a batch, and adds no event to it.
LEMMA RetriedIs ==
  ASSUME TypeOK, NEW c \in calls
  PROVE  /\ c.batch \in TTLBatch /\ Retried(c) \in TTLBatch /\ Retried(c).of = c.batch.of
         /\ Retried(c).owes = c.batch.owes /\ Retried(c).split = c.batch.split
         /\ Retried(c).events \subseteq c.batch.events
         /\ c.batch.events \cap Guaranteed \subseteq Retried(c).events
<1>1. c.batch \in TTLBatch
  BY DEF TypeOK, Call
<1>. QED  BY <1>1, ReduceTTLIs DEF Retried

\* A batch in a place is on its way.
LEMMA PlacedIsLive ==
  ASSUME TypeOK
  PROVE  /\ \A c \in calls : c.batch \in Live
         /\ inFlight \subseteq Live
         /\ queueBatch # NoBatch => queueBatch \in Live
         /\ readerBatch # NoBatch => readerBatch \in Live
         /\ RetrySet \subseteq Live /\ NextSet \subseteq Live
BY LiveIs DEF CallSet, Queued, Read

\* The active batch, if there is one, is on its way.
LEMMA ActiveIs ==
  ASSUME TypeOK, Active # NoBatch
  PROVE  Active \in TTLBatch /\ Active \in Live
<1>1. CASE retryBatches # <<>>
  <2>1. retryBatches \in Seq(TTLBatch)
    BY DEF TypeOK
  <2>2. Head(retryBatches) = retryBatches[1] /\ 1 \in 1..Len(retryBatches)
    BY <1>1, <2>1, SeqHeadTail, SeqEmpty
  <2>3. Active \in RetrySet
    BY <1>1, <2>2 DEF Active, RetrySet
  <2>. QED  BY <2>3, PlacedIsLive, LiveIs
<1>2. CASE ~(retryBatches # <<>>)
  <2>1. Active = queueBatch
    BY <1>2 DEF Active
  <2>. QED  BY <2>1, PlacedIsLive, LiveIs
<1>. QED  BY <1>1, <1>2

\* Every action keeps the types.
LEMMA TypeStep ==
  ASSUME IInv, [Next]_vars
  PROVE  TypeOK'
<1>. USE EventConsumerAssumption
<1>0. TypeOK /\ Accounted /\ Handover
  BY DEF IInv
<1>1. CASE UNCHANGED vars
  BY <1>0, <1>1 DEF TypeOK, vars, consumerVars, readerVars, workerVars, controlVars,
                    queueVars, doneVars
<1>2. ASSUME NEW w \in Worker, ConsumerSend(w) PROVE TypeOK'
  <2>1. Active \in TTLBatch
    BY <1>0, <1>2, ActiveIs DEF ConsumerSend
  <2>2. retryBatches' \in Seq(TTLBatch) /\ queueBatch' \in TTLBatch \cup {NoBatch}
    <3>1. retryBatches \in Seq(TTLBatch) /\ queueBatch \in TTLBatch \cup {NoBatch}
      BY <1>0 DEF TypeOK
    <3>2. retryBatches # <<>> => Tail(retryBatches) \in Seq(TTLBatch)
      BY <3>1, SeqHeadTail
    <3>3. IF retryBatches # <<>>
          THEN retryBatches' = Tail(retryBatches) /\ UNCHANGED queueBatch
          ELSE queueBatch' = NoBatch /\ UNCHANGED retryBatches
      BY <1>2 DEF ConsumerSend
    <3>. QED  BY <3>1, <3>2, <3>3
  <2>3. pendingRead' \in BOOLEAN /\ readerReq' \in BOOLEAN
    BY <1>0, <1>2, TopOfLoopIs DEF ConsumerSend, TypeOK
  <2>4. RetryCall(Active, FALSE, NoBatch, w) \in Call
    BY <2>1 DEF RetryCall, Call
  <2>5. inFlight' \subseteq TTLBatch /\ calls' \subseteq Call
    BY <1>0, <1>2, <2>1, <2>4, Zenon DEF ConsumerSend, TypeOK
  <2>6. workerPC' \in [Worker -> {"none", "select", "cancel", "connect", "publish", "exited"}]
    BY <1>0, <1>2, Zenon DEF ConsumerSend, TypeOK
  <2>. QED  BY <1>0, <1>2, <2>2, <2>3, <2>5, <2>6
            DEF ConsumerSend, TypeOK, controlVars, queueVars, doneVars
<1>3. CASE ConsumerRead
  <2>1. pendingRead' \in BOOLEAN /\ readerReq' \in BOOLEAN
    BY <1>0, <1>3, TopOfLoopIs, Zenon DEF ConsumerRead, TypeOK
  <2>. QED  BY <1>0, <1>3, <2>1
            DEF ConsumerRead, TypeOK, workerVars, controlVars, queueVars, doneVars
<1>4. CASE ConsumerStop
  BY <1>0, <1>4 DEF ConsumerStop, TypeOK, readerVars, workerVars, controlVars, queueVars, doneVars
<1>5. ASSUME NEW c \in calls, ConsumerRetry(c) PROVE TypeOK'
  <2>1. c.batch \in Live /\ c.batch \in TTLBatch
    BY <1>0, <1>5, PlacedIsLive, RetriedIs
  <2>2. /\ Retried(c) \in TTLBatch /\ Retried(c).of \in Event
        /\ Cardinality(Retried(c).owes) \in Nat
    BY <1>0, <1>5, <2>1, RetriedIs, LiveBatch
  <2>3. /\ calls' \subseteq Call
        /\ workerPC' \in [Worker -> {"none", "select", "cancel", "connect", "publish", "exited"}]
    BY <1>0, <1>5, CallReturnsTyped DEF ConsumerRetry
  <2>4. pendingRead' \in BOOLEAN /\ readerReq' \in BOOLEAN
    BY <1>0, <1>5, TopOfLoopIs DEF ConsumerRetry, TypeOK
  <2>5. /\ outstanding' \in [Event -> Int] /\ doneCount' \in [Event -> Nat]
        /\ retryBatches' \in Seq(TTLBatch)
    <3>1. CASE Retried(c).events = {}
      <4>1. CallDone(Retried(c)) /\ retryBatches' = retryBatches
        BY <1>5, <3>1 DEF ConsumerRetry, Retried
      <4>. QED  BY <1>0, <2>2, <4>1, CallDoneTyped DEF TypeOK
    <3>2. CASE Retried(c).events # {}
      <4>1. /\ retryBatches' = Append(retryBatches, Retried(c))
            /\ outstanding' = outstanding /\ doneCount' = doneCount
        BY <1>5, <3>2, Zenon DEF ConsumerRetry, Retried
      <4>. QED  BY <1>0, <2>2, <4>1, SeqAppend DEF TypeOK
    <3>. QED  BY <3>1, <3>2
  <2>6. finished' \subseteq Event /\ expired' \subseteq Event
    <3>1. c.batch.events \subseteq Event
      BY <2>1 DEF TTLBatch
    <3>. QED  BY <1>0, <1>5, <3>1 DEF ConsumerRetry, TypeOK
  <2>. QED  BY <1>0, <1>5, <2>3, <2>4, <2>5, <2>6, ZenonT(30)
            DEF ConsumerRetry, TypeOK, controlVars, queueVars
<1>6. ASSUME NEW c \in calls, RetryAfterDone(c) PROVE TypeOK'
  <2>1. c.batch \in Live /\ c.batch \in TTLBatch
    BY <1>0, <1>6, PlacedIsLive, RetriedIs
  <2>2. /\ calls' \subseteq Call
        /\ workerPC' \in [Worker -> {"none", "select", "cancel", "connect", "publish", "exited"}]
    BY <1>0, <1>6, CallReturnsTyped DEF RetryAfterDone
  <2>3. outstanding' \in [Event -> Int] /\ doneCount' \in [Event -> Nat]
    BY <1>0, <1>6, <2>1, LiveBatch, CallDoneTyped DEF RetryAfterDone, FinishBatch
  <2>4. finished' \subseteq Event
    BY <1>0, <1>6, <2>1 DEF RetryAfterDone, FinishBatch, TypeOK, TTLBatch
  <2>. QED  BY <1>0, <1>6, <2>2, <2>3, <2>4
            DEF RetryAfterDone, TypeOK, consumerVars, readerVars, controlVars, queueVars
<1>7. CASE ReaderRequest \/ ReaderStop \/ ReaderGetNothing
  <2>1. CASE ReaderRequest
    BY <1>0, <2>1, ZenonT(30) DEF ReaderRequest, TypeOK, consumerVars, workerVars, controlVars,
                             queueVars, doneVars
  <2>2. CASE ReaderStop
    BY <1>0, <2>2, Zenon DEF ReaderStop, TypeOK, consumerVars, workerVars, controlVars,
                             queueVars, doneVars
  <2>3. CASE ReaderGetNothing
    BY <1>0, <2>3, ZenonT(30) DEF ReaderGetNothing, TypeOK, consumerVars, workerVars, controlVars,
                             queueVars, doneVars
  <2>. QED  BY <1>7, <2>1, <2>2, <2>3
<1>8. ASSUME NEW n \in 1..TargetBatchSize, ReaderGet(n) PROVE TypeOK'
  <2>1. /\ n \in Nat \ {0} /\ nextEvent \in Nat \ {0} /\ load \in Workloads
        /\ load.events \in Nat /\ nextEvent + n - 1 <= load.events
    BY <1>0, <1>8 DEF ReaderGet, TypeOK
  <2>2. nextEvent..(nextEvent + n - 1) \subseteq 1..load.events
    BY <2>1
  <2>3. 1..load.events \subseteq Event
    BY <2>1 DEF Event
  <2>4. nextEvent \in Event
    BY <2>1, <2>2, <2>3
  <2>5. nextEvent' \in 1..(load.events + 1) /\ load' = load
    BY <1>8, <2>1 DEF ReaderGet
  <2>6. queueBatches' \in [Event -> SUBSET Event]
    BY <1>0, <1>8, <2>2, <2>3, <2>4, Zenon DEF ReaderGet, TypeOK
  <2>7. readerBatch' \in TTLBatch
    BY <1>8, <2>2, <2>3, <2>4 DEF ReaderGet, TTLBatch
  <2>. QED  BY <1>0, <1>8, <2>5, <2>6, <2>7
            DEF ReaderGet, TypeOK, consumerVars, workerVars, controlVars, doneVars
<1>9. ASSUME NEW w \in Worker, NEW ok \in BOOLEAN, WorkerConnect(w, ok) PROVE TypeOK'
  BY <1>0, <1>9 DEF WorkerConnect, TypeOK, consumerVars, readerVars, controlVars,
                    queueVars, doneVars
<1>10. ASSUME NEW w \in Worker, NEW ok \in BOOLEAN, PublishReturns(w, ok) PROVE TypeOK'
  BY <1>0, <1>10 DEF PublishReturns, TypeOK, consumerVars, readerVars, controlVars,
                     queueVars, doneVars
<1>11. ASSUME NEW w \in Worker, WorkerExit(w) PROVE TypeOK'
  BY <1>0, <1>11 DEF WorkerExit, TypeOK, consumerVars, readerVars, controlVars,
                     queueVars, doneVars
<1>12. ASSUME NEW b \in inFlight, OutputFinish(b) PROVE TypeOK'
  <2>1. b \in Live /\ b \in TTLBatch
    BY <1>0, <1>12, PlacedIsLive, LiveIs
  <2>2. outstanding' \in [Event -> Int] /\ doneCount' \in [Event -> Nat]
    BY <1>0, <1>12, <2>1, LiveBatch, CallDoneTyped DEF OutputFinish, FinishBatch
  <2>3. finished' \subseteq Event
    BY <1>0, <1>12, <2>1 DEF OutputFinish, FinishBatch, TypeOK, TTLBatch
  <2>. QED  BY <1>0, <1>12, <2>2, <2>3
            DEF OutputFinish, TypeOK, consumerVars, readerVars, workerVars, controlVars, queueVars
<1>13. ASSUME NEW b \in inFlight, NEW dec \in BOOLEAN, NEW events \in SUBSET b.events,
              OutputRetry(b, dec, events) PROVE TypeOK'
  <2>1. b \in TTLBatch
    BY <1>0 DEF TypeOK
  <2>2. [b EXCEPT !.events = events] \in TTLBatch
    BY <2>1 DEF TTLBatch
  <2>3. RetryCall([b EXCEPT !.events = events], dec, NoBatch, NoBatch) \in Call
    BY <2>2 DEF RetryCall, Call
  <2>4. calls' \subseteq Call
    BY <1>0, <1>13, <2>3 DEF OutputRetry, TypeOK
  <2>5. finished' \subseteq Event
    BY <1>0, <1>13, <2>1 DEF OutputRetry, TypeOK, TTLBatch
  <2>6. /\ inFlight' = inFlight \ {b}
        /\ UNCHANGED <<consumerVars, readerVars, workerVars, controlVars, queueVars,
                       outstanding, doneCount, expired, miscounted>>
    BY <1>13 DEF OutputRetry
  <2>. QED  BY <1>0, <2>4, <2>5, <2>6
            DEF TypeOK, consumerVars, readerVars, workerVars, controlVars, queueVars
<1>14. ASSUME NEW b \in inFlight, NEW half \in SUBSET b.events, OutputSplit(b, half)
       PROVE  TypeOK'
  <2>1. b \in TTLBatch /\ b \in Live /\ Cardinality(b.events) \in Nat
    BY <1>0, PlacedIsLive, LiveBatch DEF TypeOK
  <2>2. Fragment(b, half) \in TTLBatch /\ Fragment(b, b.events \ half) \in TTLBatch
    BY <2>1 DEF TTLBatch, Fragment
  <2>3. RetryCall(Fragment(b, half), FALSE, Fragment(b, b.events \ half), NoBatch) \in Call
    BY <2>2 DEF RetryCall, Call
  <2>4. calls' \subseteq Call
    BY <1>0, <1>14, <2>3, Zenon DEF OutputSplit, TypeOK
  <2>5. outstanding' \in [Event -> Int] /\ miscounted' \subseteq Event
    BY <1>0, <1>14, <2>1 DEF OutputSplit, TypeOK, TTLBatch
  <2>6. /\ inFlight' = inFlight \ {b}
        /\ UNCHANGED <<consumerVars, readerVars, workerVars, controlVars, queueVars,
                       doneCount, finished, expired>>
    BY <1>14 DEF OutputSplit
  <2>. QED  BY <1>0, <2>4, <2>5, <2>6
            DEF TypeOK, consumerVars, readerVars, workerVars, controlVars, queueVars
<1>15. CASE SetPause \/ CloseQueue \/ CloseConsumer \/ CloseWorkers
  <2>1. CASE SetPause
    BY <1>0, <2>1, ZenonT(30) DEF SetPause, TypeOK, readerVars, workerVars, queueVars, doneVars
  <2>2. CASE CloseQueue
    BY <1>0, <2>2 DEF CloseQueue, TypeOK, consumerVars, readerVars, workerVars, queueVars,
                      doneVars
  <2>3. CASE CloseConsumer
    BY <1>0, <2>3 DEF CloseConsumer, TypeOK, readerVars, workerVars, queueVars, doneVars
  <2>4. CASE CloseWorkers
    BY <1>0, <2>4, ZenonT(30) DEF CloseWorkers, TypeOK, consumerVars, readerVars, queueVars, doneVars
  <2>. QED  BY <1>15, <2>1, <2>2, <2>3, <2>4
<1>16. CASE SetWorkers
  <2>1. generation' \in 0..load.generations /\ load' = load
    BY <1>0, <1>16 DEF SetWorkers, TypeOK, Handover, queueVars
  <2>2. workerPC' \in [Worker -> {"none", "select", "cancel", "connect", "publish", "exited"}]
    BY <1>0, <1>16 DEF SetWorkers, TypeOK
  <2>. QED  BY <1>0, <1>16, <2>1, <2>2
            DEF SetWorkers, TypeOK, consumerVars, readerVars, queueVars, doneVars
<1>17. CASE SetResume
  <2>1. pendingRead' \in BOOLEAN /\ readerReq' \in BOOLEAN /\ target' \in BOOLEAN
    BY <1>0, <1>17, TopOfLoopIs, Zenon DEF SetResume, TypeOK
  <2>2. /\ controller' = "running"
        /\ UNCHANGED <<queueBatch, retryBatches, consumer, done, reader, readerBatch, workerPC,
                       connected, cancelled, inFlight, calls, generation, closing, load,
                       nextEvent, queueBatches, outstanding, doneCount, finished, expired,
                       miscounted>>
    BY <1>17 DEF SetResume, workerVars, queueVars, doneVars
  <2>. QED  BY <1>0, <2>1, <2>2 DEF TypeOK
<1>18. CASE Consumer
  BY <1>2, <1>3, <1>4, <1>5, <1>6, <1>18 DEF Consumer
<1>19. CASE QueueReader
  BY <1>7, <1>8, <1>19 DEF QueueReader
<1>20. CASE Workers
  BY <1>9, <1>10, <1>11, <1>20 DEF Workers
<1>21. CASE OutputClients
  BY <1>12, <1>13, <1>14, <1>21, Zenon DEF OutputClients
<1>22. CASE Controller
  BY <1>15, <1>16, <1>17, <1>22 DEF Controller
<1>. QED  BY <1>1, <1>18, <1>19, <1>20, <1>21, <1>22 DEF Next

\* Every action keeps the handover: at most one batch is requested, and only
\* when queueBatch is free for it.
LEMMA HandoverStep ==
  ASSUME IInv, [Next]_vars
  PROVE  Handover'
<1>0. /\ TypeOK /\ Handover /\ NoBatch \notin TTLBatch
      /\ readerReq \in BOOLEAN /\ pendingRead \in BOOLEAN
  BY NilAssumption DEF IInv, TypeOK
<1>1. CASE UNCHANGED vars
  BY <1>0, <1>1 DEF Handover, vars, consumerVars, readerVars, controlVars, queueVars
<1>2. ASSUME NEW w \in Worker, ConsumerSend(w) PROVE Handover'
  <2>1. /\ pendingRead => pendingRead' /\ readerReq' = readerReq
        /\ pendingRead' /\ ~pendingRead => queueBatch' = NoBatch /\ readerReq'
        /\ ~pendingRead' => readerReq' = readerReq
    BY <1>0, <1>2, TopOfLoopIs DEF ConsumerSend
  <2>2. queueBatch' = queueBatch \/ queueBatch' = NoBatch
    BY <1>2 DEF ConsumerSend
  <2>3. UNCHANGED <<consumer, done, reader, readerBatch, controlVars, queueVars>>
    BY <1>2 DEF ConsumerSend
  <2>. QED  BY <1>0, <2>1, <2>2, <2>3 DEF Handover, controlVars, queueVars, TypeOK
<1>3. CASE ConsumerRead
  <2>1. /\ pendingRead' => queueBatch' = NoBatch /\ readerReq'
        /\ ~pendingRead' => readerReq' = readerReq
    BY <1>0, <1>3, TopOfLoopIs, Zenon DEF ConsumerRead
  <2>2. ~readerReq /\ reader' = "idle" /\ readerBatch' = NoBatch
    BY <1>0, <1>3 DEF ConsumerRead, Handover
  <2>3. UNCHANGED <<consumer, done, controlVars, queueVars>>
    BY <1>3 DEF ConsumerRead
  <2>. QED  BY <1>0, <2>1, <2>2, <2>3 DEF Handover, controlVars, queueVars
<1>4. CASE ConsumerStop
  BY <1>0, <1>4 DEF ConsumerStop, Handover, readerVars, controlVars, queueVars
<1>5. ASSUME NEW c \in calls, ConsumerRetry(c) PROVE Handover'
  <2>1. /\ pendingRead => pendingRead' /\ readerReq' = readerReq
        /\ pendingRead' /\ ~pendingRead => queueBatch' = NoBatch /\ readerReq'
        /\ ~pendingRead' => readerReq' = readerReq
    BY <1>0, <1>5, TopOfLoopIs DEF ConsumerRetry
  <2>2. UNCHANGED <<queueBatch, consumer, done, reader, readerBatch, controlVars, queueVars>>
    BY <1>5 DEF ConsumerRetry
  <2>. QED  BY <1>0, <2>1, <2>2 DEF Handover, controlVars, queueVars, TypeOK
<1>6. ASSUME NEW c \in calls, RetryAfterDone(c) PROVE Handover'
  BY <1>0, <1>6 DEF RetryAfterDone, Handover, consumerVars, readerVars, controlVars, queueVars
<1>7. CASE ReaderRequest \/ ReaderStop \/ ReaderGetNothing
  BY <1>0, <1>7 DEF ReaderRequest, ReaderStop, ReaderGetNothing, Handover, consumerVars,
                    controlVars, queueVars
<1>8. ASSUME NEW n \in 1..TargetBatchSize, ReaderGet(n) PROVE Handover'
  <2>1. ~readerBatch'.split /\ reader' = "send"
    BY <1>8 DEF ReaderGet
  <2>2. UNCHANGED <<consumerVars, readerReq, controlVars, load>> /\ reader = "get"
    BY <1>8 DEF ReaderGet
  <2>. QED  BY <1>0, <2>1, <2>2 DEF Handover, consumerVars, controlVars
<1>9. ASSUME NEW w \in Worker, NEW ok \in BOOLEAN,
             WorkerConnect(w, ok) \/ PublishReturns(w, ok) \/ WorkerExit(w)
      PROVE  Handover'
  <2>1. UNCHANGED <<consumerVars, readerVars, controlVars, queueVars>>
    BY <1>9 DEF WorkerConnect, PublishReturns, WorkerExit
  <2>. QED  BY <1>0, <2>1 DEF Handover, consumerVars, readerVars, controlVars, queueVars
<1>10. ASSUME NEW b, NEW dec, NEW events,
              OutputFinish(b) \/ OutputRetry(b, dec, events) \/ OutputSplit(b, events)
       PROVE  Handover'
  <2>1. UNCHANGED <<consumerVars, readerVars, controlVars, queueVars>>
    BY <1>10, Zenon DEF OutputFinish, OutputRetry, OutputSplit
  <2>. QED  BY <1>0, <2>1 DEF Handover, consumerVars, readerVars, controlVars, queueVars
<1>11. CASE SetPause
  BY <1>0, <1>11 DEF SetPause, Handover, readerVars, queueVars
<1>12. CASE SetWorkers
  BY <1>0, <1>12 DEF SetWorkers, Handover, consumerVars, readerVars, queueVars
<1>13. CASE SetResume
  <2>1. /\ pendingRead => pendingRead' /\ readerReq' = readerReq
        /\ pendingRead' /\ ~pendingRead => queueBatch' = NoBatch /\ readerReq'
        /\ ~pendingRead' => readerReq' = readerReq
    BY <1>0, <1>13, TopOfLoopIs DEF SetResume
  <2>2. UNCHANGED <<queueBatch, consumer, done, reader, readerBatch>> /\ controller' = "running"
    BY <1>13 DEF SetResume
  <2>. QED  BY <1>0, <2>1, <2>2 DEF Handover, TypeOK
<1>14. CASE CloseQueue \/ CloseConsumer \/ CloseWorkers
  BY <1>0, <1>14 DEF CloseQueue, CloseConsumer, CloseWorkers, Handover, consumerVars,
                     readerVars, queueVars
<1>15. CASE Consumer
  BY <1>2, <1>3, <1>4, <1>5, <1>6, <1>15 DEF Consumer
<1>16. CASE QueueReader
  BY <1>7, <1>8, <1>16 DEF QueueReader
<1>17. CASE Workers
  BY <1>9, <1>17, Zenon DEF Workers
<1>18. CASE OutputClients
  BY <1>10, <1>18, Zenon DEF OutputClients
<1>19. CASE Controller
  BY <1>11, <1>12, <1>13, <1>14, <1>19 DEF Controller
<1>. QED  BY <1>1, <1>15, <1>16, <1>17, <1>18, <1>19 DEF Next

-----------------------------------------------------------------------------
(* The numbers of the events                                               *)

\* The events of a batch on its way were handed out.
LEMMA LiveNumbered ==
  ASSUME TypeOK, Numbered, Accounted, NEW b \in Live
  PROVE  b.events \subseteq 1..(nextEvent - 1)
<1>1. b.of \in Event /\ b.events \subseteq queueBatches[b.of] /\ b.of \in Nat \ {0}
  <2>1. b.of \in Event
    BY LiveBatch
  <2>2. b.of \in Nat \ {0}
    BY <2>1, EventConsumerAssumption DEF Event
  <2>. QED  BY <2>1, <2>2 DEF Accounted, Accounts, Sound
<1>2. queueBatches[b.of] \subseteq b.of..(nextEvent - 1)
  BY <1>1 DEF Numbered
<1>3. nextEvent \in Nat
  BY DEF TypeOK
<1>. QED  BY <1>1, <1>2, <1>3

\* Finishing events of a batch on its way keeps the numbers.
LEMMA NumberedFinish ==
  ASSUME TypeOK, Numbered, Accounted, NEW b \in Live, UNCHANGED queueVars,
         finished' \subseteq finished \cup b.events
  PROVE  Numbered'
<1>1. b.events \subseteq 1..(nextEvent - 1)
  BY LiveNumbered
<1>. QED  BY <1>1 DEF Numbered, queueVars

=============================================================================
