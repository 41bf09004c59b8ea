---------------------------- MODULE PcbTheorems ----------------------------
(***************************************************************************)
(* Lemmas about the operators of Pcb: what finding, inserting and removing *)
(* returns, for every sequence.                                            *)
(***************************************************************************)
EXTENDS Pcb, SequenceTheorems, WellFoundedInduction, TLAPS

\* Every non-empty set of naturals has a least element, and Min is it.
LEMMA MinIsLeast ==
    ASSUME NEW I \in SUBSET Nat, I # {}
    PROVE  Min(I) \in I /\ \A i \in I : Min(I) <= i
<1>1. PICK m \in I : \A y \in I : ~(<<y, m>> \in OpToRel(<, Nat))
  BY NatLessThanWellFounded, WFMin
<1>2. ASSUME NEW y \in I, y < m PROVE FALSE
  <2>1. y \in Nat /\ m \in Nat
    OBVIOUS
  <2>2. <<y, m>> \in OpToRel(<, Nat)
    BY <1>2, <2>1, Zenon DEF OpToRel
  <2>. QED  BY <1>1, <2>2
<1>3. \A y \in I : m <= y
  BY <1>2
<1>. QED  BY <1>3 DEF Min

----------------------------------------------------------------------------
(***************************************************************************)
(* InsertAt and RemoveAt, element by element.                              *)
(***************************************************************************)
LEMMA InsertAtProperties ==
    ASSUME NEW S, NEW s \in Seq(S), NEW k \in 1..(Len(s) + 1), NEW e \in S
    PROVE  /\ InsertAt(s, k, e) \in Seq(S)
           /\ Len(InsertAt(s, k, e)) = Len(s) + 1
           /\ \A i \in 1..(Len(s) + 1) :
                 InsertAt(s, k, e)[i] = IF i < k THEN s[i]
                                        ELSE IF i = k THEN e ELSE s[i - 1]
<1>. DEFINE a == SubSeq(s, 1, k - 1)
            b == <<e>>
            c == SubSeq(s, k, Len(s))
<1>1. Len(s) \in Nat /\ \A i \in 1..Len(s) : s[i] \in S
  BY ElementOfSeq, LenProperties
<1>2. /\ a \in Seq(S)
      /\ Len(a) = k - 1
      /\ \A i \in 1..(k - 1) : a[i] = s[i]
  <2>1. \A i \in 1..(k - 1) : s[i] \in S
    BY <1>1
  <2>. QED  BY <1>1, <2>1, SubSeqProperties
<1>3. /\ c \in Seq(S)
      /\ Len(c) = Len(s) - k + 1
      /\ \A i \in 1..(Len(s) - k + 1) : c[i] = s[k + i - 1]
  <2>1. \A i \in k..Len(s) : s[i] \in S
    BY <1>1
  <2>. QED  BY <1>1, <2>1, SubSeqProperties
<1>4. b \in Seq(S) /\ Len(b) = 1 /\ b[1] = e
  OBVIOUS
<1>5. /\ a \o b \in Seq(S)
      /\ Len(a \o b) = k
      /\ \A i \in 1..k : (a \o b)[i] = IF i < k THEN s[i] ELSE e
  <2>. HIDE DEF a, b
  <2>1. /\ a \o b \in Seq(S)
        /\ Len(a \o b) = Len(a) + Len(b)
        /\ \A i \in 1..(Len(a) + Len(b)) :
              (a \o b)[i] = IF i <= Len(a) THEN a[i] ELSE b[i - Len(a)]
    BY <1>2, <1>4, ConcatProperties
  <2>2. Len(a) + Len(b) = k
    BY <1>1, <1>2, <1>4
  <2>3. ASSUME NEW i \in 1..k PROVE (a \o b)[i] = IF i < k THEN s[i] ELSE e
    <3>1. CASE i < k
      BY <1>1, <1>2, <2>1, <2>2, <3>1
    <3>2. CASE i = k
      <4>1. i - Len(a) = 1 /\ ~(i <= Len(a))
        BY <1>1, <1>2, <3>2
      <4>. QED  BY <1>4, <2>1, <2>2, <3>2, <4>1
    <3>3. i < k \/ i = k
      BY <1>1
    <3>. QED  BY <3>1, <3>2, <3>3
  <2>. QED  BY <2>1, <2>2, <2>3
<1>6. /\ (a \o b) \o c \in Seq(S)
      /\ Len((a \o b) \o c) = Len(s) + 1
      /\ \A i \in 1..(Len(s) + 1) :
            ((a \o b) \o c)[i] = IF i <= k THEN (a \o b)[i] ELSE c[i - k]
  <2>. DEFINE ab == a \o b
  <2>. HIDE DEF ab, c
  <2>1. Len(ab) = k /\ ab \in Seq(S)
    BY <1>5 DEF ab
  <2>2. /\ ab \o c \in Seq(S)
        /\ Len(ab \o c) = Len(s) + 1
        /\ \A i \in 1..(Len(s) + 1) : (ab \o c)[i] = IF i <= k THEN ab[i] ELSE c[i - k]
    BY <1>1, <1>3, <2>1, ConcatProperties
  <2>. QED  BY <2>2 DEF ab
<1>7. InsertAt(s, k, e) = (a \o b) \o c
  BY DEF InsertAt
<1>. HIDE DEF a, b, c
<1>8. \A i \in 1..(Len(s) + 1) :
         ((a \o b) \o c)[i] = IF i < k THEN s[i] ELSE IF i = k THEN e ELSE s[i - 1]
  <2>. TAKE i \in 1..(Len(s) + 1)
  <2>1. CASE i <= k
    BY <2>1, <1>1, <1>5, <1>6
  <2>2. CASE i > k
    <3>1. i - k \in 1..(Len(s) - k + 1) /\ k + (i - k) - 1 = i - 1
      BY <1>1, <2>2
    <3>2. c[i - k] = s[k + (i - k) - 1]
      BY <1>3, <3>1
    <3>. QED  BY <2>2, <3>1, <3>2, <1>6, SMTT(20)
  <2>3. i <= k \/ i > k
    BY <1>1
  <2>. QED  BY <2>1, <2>2, <2>3
<1>. QED  BY <1>6, <1>7, <1>8

\* The same, to be cited where the sequence has other properties too.
Inserted(t, s, k, e) ==
    /\ Len(t) = Len(s) + 1
    /\ \A i \in 1..(Len(s) + 1) : t[i] = IF i < k THEN s[i] ELSE IF i = k THEN e ELSE s[i - 1]

LEMMA InsertAtInserts ==
    ASSUME NEW S, NEW s \in Seq(S), NEW k \in 1..(Len(s) + 1), NEW e \in S
    PROVE  InsertAt(s, k, e) \in Seq(S) /\ Inserted(InsertAt(s, k, e), s, k, e)
<1>. DEFINE t == InsertAt(s, k, e)
<1>1. /\ t \in Seq(S) /\ Len(t) = Len(s) + 1
      /\ \A i \in 1..(Len(s) + 1) : t[i] = IF i < k THEN s[i] ELSE IF i = k THEN e ELSE s[i - 1]
  BY InsertAtProperties
<1>. HIDE DEF t
<1>2. t \in Seq(S) /\ Inserted(t, s, k, e)
  BY <1>1 DEF Inserted
<1>. QED  BY <1>2 DEF t

LEMMA RemoveAtProperties ==
    ASSUME NEW S, NEW s \in Seq(S), NEW k \in 1..Len(s)
    PROVE  /\ RemoveAt(s, k) \in Seq(S)
           /\ Len(RemoveAt(s, k)) = Len(s) - 1
           /\ \A i \in 1..(Len(s) - 1) :
                 RemoveAt(s, k)[i] = IF i < k THEN s[i] ELSE s[i + 1]
<1>. DEFINE a == SubSeq(s, 1, k - 1)
            c == SubSeq(s, k + 1, Len(s))
<1>1. Len(s) \in Nat /\ \A i \in 1..Len(s) : s[i] \in S
  BY ElementOfSeq, LenProperties
<1>2. /\ a \in Seq(S)
      /\ Len(a) = k - 1
      /\ \A i \in 1..(k - 1) : a[i] = s[i]
  <2>1. \A i \in 1..(k - 1) : s[i] \in S
    BY <1>1
  <2>. QED  BY <1>1, <2>1, SubSeqProperties
<1>3. /\ c \in Seq(S)
      /\ Len(c) = Len(s) - k
      /\ \A i \in 1..(Len(s) - k) : c[i] = s[k + i]
  <2>1. \A i \in (k + 1)..Len(s) : s[i] \in S
    BY <1>1
  <2>. QED  BY <1>1, <2>1, SubSeqProperties
<1>4. RemoveAt(s, k) = a \o c
  BY DEF RemoveAt
<1>. HIDE DEF a, c
<1>5. /\ a \o c \in Seq(S)
      /\ Len(a \o c) = Len(s) - 1
      /\ \A i \in 1..(Len(s) - 1) : (a \o c)[i] = IF i <= k - 1 THEN a[i] ELSE c[i - (k - 1)]
  BY <1>1, <1>2, <1>3, ConcatProperties
<1>6. \A i \in 1..(Len(s) - 1) : (a \o c)[i] = IF i < k THEN s[i] ELSE s[i + 1]
  <2>. TAKE i \in 1..(Len(s) - 1)
  <2>1. CASE i < k
    BY <2>1, <1>1, <1>2, <1>5
  <2>2. CASE i >= k
    <3>1. i - (k - 1) \in 1..(Len(s) - k) /\ k + (i - (k - 1)) = i + 1
      BY <1>1, <2>2
    <3>2. c[i - (k - 1)] = s[k + (i - (k - 1))]
      BY <1>3, <3>1
    <3>. QED  BY <2>2, <3>1, <3>2, <1>5
  <2>3. i < k \/ i >= k
    BY <1>1
  <2>. QED  BY <2>1, <2>2, <2>3
<1>. QED  BY <1>4, <1>5, <1>6

----------------------------------------------------------------------------
(***************************************************************************)
(* The same as sets: what is on a queue, and that it is there once.        *)
(***************************************************************************)
LEMMA InsertAtRange ==
    ASSUME NEW S, NEW s \in Seq(S), NEW k \in 1..(Len(s) + 1), NEW e \in S
    PROVE  /\ Range(InsertAt(s, k, e)) = Range(s) \union {e}
           /\ IsInjective(s) /\ e \notin Range(s) => IsInjective(InsertAt(s, k, e))
<1>. DEFINE t == InsertAt(s, k, e)
<1>1. Len(s) \in Nat /\ DOMAIN s = 1..Len(s)
  BY LenProperties
<1>2. /\ t \in Seq(S)
      /\ Len(t) = Len(s) + 1
      /\ \A i \in 1..(Len(s) + 1) : t[i] = IF i < k THEN s[i]
                                           ELSE IF i = k THEN e ELSE s[i - 1]
  BY InsertAtProperties
<1>. HIDE DEF t
<1>3. DOMAIN t = 1..(Len(s) + 1)
  BY <1>2, LenProperties
<1>4. \A i \in 1..Len(s) : \E j \in 1..(Len(s) + 1) : t[j] = s[i]
  <2>. TAKE i \in 1..Len(s)
  <2>1. CASE i < k
    BY <1>1, <1>2, <2>1
  <2>2. CASE i >= k
    <3>1. i + 1 \in 1..(Len(s) + 1) /\ ~(i + 1 < k) /\ i + 1 # k /\ (i + 1) - 1 = i
      BY <1>1, <2>2
    <3>. QED  BY <1>2, <3>1
  <2>3. i < k \/ i >= k
    BY <1>1
  <2>. QED  BY <2>1, <2>2, <2>3
<1>5. \A j \in 1..(Len(s) + 1) : t[j] = e \/ \E i \in 1..Len(s) : t[j] = s[i]
  <2>. TAKE j \in 1..(Len(s) + 1)
  <2>1. CASE j < k
    BY <1>1, <1>2, <2>1
  <2>2. CASE j > k
    <3>1. j - 1 \in 1..Len(s)
      BY <1>1, <2>2
    <3>. QED  BY <1>2, <2>2, <3>1
  <2>3. CASE j = k
    BY <1>2, <2>3
  <2>4. j < k \/ j > k \/ j = k
    BY <1>1
  <2>. QED  BY <2>1, <2>2, <2>3, <2>4
<1>6. t[k] = e
  BY <1>1, <1>2
<1>7. Range(t) = Range(s) \union {e}
  <2>1. k \in 1..(Len(s) + 1)
    OBVIOUS
  <2>2. e \in Range(t)
    BY <1>3, <1>6, <2>1 DEF Range
  <2>3. Range(s) \subseteq Range(t)
    BY <1>1, <1>3, <1>4, Zenon DEF Range
  <2>4. Range(t) \subseteq Range(s) \union {e}
    BY <1>1, <1>3, <1>5, Zenon DEF Range
  <2>. QED  BY <2>2, <2>3, <2>4
<1>8. ASSUME IsInjective(s), e \notin Range(s) PROVE IsInjective(t)
  <2>. DEFINE From(j) == IF j < k THEN j ELSE j - 1
  <2>1. \A j \in 1..(Len(s) + 1) : j # k => From(j) \in 1..Len(s) /\ t[j] = s[From(j)]
    <3>. TAKE j \in 1..(Len(s) + 1)
    <3>. HAVE j # k
    <3>1. From(j) \in 1..Len(s)
      BY <1>1
    <3>2. CASE j < k
      BY <1>2, <3>1, <3>2
    <3>3. CASE ~(j < k)
      BY <1>2, <3>1, <3>3
    <3>. QED  BY <3>1, <3>2, <3>3
  <2>2. \A i, j \in 1..(Len(s) + 1) :
           i # k /\ j # k /\ From(i) = From(j) => i = j
    BY <1>1
  <2>. HIDE DEF From
  <2>3. \A i \in 1..Len(s) : s[i] # e
    BY <1>1, <1>8 DEF Range
  <2>4. \A i, j \in 1..Len(s) : s[i] = s[j] => i = j
    BY <1>1, <1>8 DEF IsInjective
  <2>5. SUFFICES ASSUME NEW i \in 1..(Len(s) + 1), NEW j \in 1..(Len(s) + 1), t[i] = t[j]
                 PROVE  i = j
    BY <1>3 DEF IsInjective
  <2>6. i = k <=> j = k
    BY <1>6, <2>1, <2>3, <2>5
  <2>. QED  BY <2>1, <2>2, <2>4, <2>5, <2>6
<1>. QED  BY <1>7, <1>8 DEF t

LEMMA RemoveFirstRange ==
    ASSUME NEW S, NEW s \in Seq(S), NEW e
    PROVE  /\ RemoveFirst(s, e) \in Seq(S)
           /\ Range(RemoveFirst(s, e)) \subseteq Range(s)
           /\ IsInjective(s) => /\ IsInjective(RemoveFirst(s, e))
                                /\ Range(RemoveFirst(s, e)) = Range(s) \ {e}
<1>1. Len(s) \in Nat /\ DOMAIN s = 1..Len(s)
  BY LenProperties
<1>2. CASE ~\E i \in 1..Len(s) : s[i] = e
  BY <1>1, <1>2 DEF RemoveFirst, Range
<1>3. CASE \E i \in 1..Len(s) : s[i] = e
  <2>. DEFINE I == {i \in 1..Len(s) : s[i] = e}
              k == Min(I)
              t == RemoveAt(s, k)
  <2>1. I \in SUBSET Nat /\ I # {}
    BY <1>3
  <2>2. k \in I
    <3>. HIDE DEF I
    <3>. QED  BY <2>1, MinIsLeast
  <2>3. RemoveFirst(s, e) = t
    BY <1>3, <2>1 DEF RemoveFirst, SelectInSeq
  <2>4. k \in 1..Len(s) /\ s[k] = e
    BY <2>2
  <2>. HIDE DEF I, k
  <2>5. /\ t \in Seq(S)
        /\ Len(t) = Len(s) - 1
        /\ \A i \in 1..(Len(s) - 1) : t[i] = IF i < k THEN s[i] ELSE s[i + 1]
    BY <2>4, RemoveAtProperties
  <2>. HIDE DEF t
  <2>. DEFINE From(i) == IF i < k THEN i ELSE i + 1
  <2>6. DOMAIN t = 1..(Len(s) - 1)
    BY <2>5, LenProperties
  <2>7. \A i \in 1..(Len(s) - 1) : From(i) \in 1..Len(s) /\ From(i) # k
    BY <1>1, <2>4
  <2>8. \A i \in 1..(Len(s) - 1) : t[i] = s[From(i)]
    BY <2>5
  <2>9. \A i, j \in 1..(Len(s) - 1) : From(i) = From(j) => i = j
    BY <1>1, <2>4
  <2>10. \A j \in 1..Len(s) : j # k => \E i \in 1..(Len(s) - 1) : From(i) = j
    <3>. TAKE j \in 1..Len(s)
    <3>. HAVE j # k
    <3>1. CASE j < k
      BY <1>1, <2>4, <3>1
    <3>2. CASE j > k
      <4>1. j - 1 \in 1..(Len(s) - 1) /\ From(j - 1) = j
        BY <1>1, <2>4, <3>2
      <4>. QED  BY <4>1
    <3>. QED  BY <1>1, <2>4, <3>1, <3>2
  <2>. HIDE DEF From
  <2>11. Range(t) \subseteq Range(s)
    BY <1>1, <2>6, <2>7, <2>8 DEF Range
  <2>12. ASSUME IsInjective(s) PROVE IsInjective(t) /\ Range(t) = Range(s) \ {e}
    <3>1. \A i, j \in 1..Len(s) : s[i] = s[j] => i = j
      BY <1>1, <2>12 DEF IsInjective
    <3>2. IsInjective(t)
      <4>1. ASSUME NEW i \in 1..(Len(s) - 1), NEW j \in 1..(Len(s) - 1), t[i] = t[j]
            PROVE  i = j
        <5>1. s[From(i)] = s[From(j)]
          BY <2>8, <4>1
        <5>2. From(i) = From(j)
          BY <2>7, <3>1, <5>1
        <5>. QED  BY <2>9, <5>2
      <4>. QED  BY <2>6, <4>1 DEF IsInjective
    <3>3. e \notin Range(t)
      BY <2>4, <2>6, <2>7, <2>8, <3>1, SMTT(20) DEF Range
    <3>4. \A j \in 1..Len(s) : s[j] # e => s[j] \in Range(t)
      BY <2>4, <2>6, <2>8, <2>10 DEF Range
    <3>5. Range(s) \ {e} \subseteq Range(t)
      BY <1>1, <3>4 DEF Range
    <3>. QED  BY <2>11, <3>2, <3>3, <3>5
  <2>. QED  BY <2>3, <2>5, <2>11, <2>12
<1>. QED  BY <1>2, <1>3

----------------------------------------------------------------------------
(***************************************************************************)
(* pcb_insert, pcb_find and pcb_remove.                                    *)
(***************************************************************************)
LEMMA InsertionPointInRange ==
    ASSUME NEW S, NEW q \in Seq(S), NEW ps, NEW p
    PROVE  InsertionPoint(q, ps, p) \in 1..(Len(q) + 1)
<1>. DEFINE I == {i \in 1..Len(q) : ps[q[i]].process_priority > ps[p].process_priority}
<1>1. Len(q) \in Nat
  BY LenProperties
<1>2. CASE I = {}
  BY <1>1, <1>2 DEF InsertionPoint, SelectInSeq
<1>3. CASE I # {}
  <2>1. Min(I) \in I
    <3>1. I \in SUBSET Nat
      OBVIOUS
    <3>. HIDE DEF I
    <3>. QED  BY <1>3, <3>1, MinIsLeast
  <2>2. Min(I) \in 1..Len(q)
    BY <2>1
  <2>3. InsertionPoint(q, ps, p) = IF Min(I) = 0 THEN Len(q) + 1 ELSE Min(I)
    BY <1>3 DEF InsertionPoint, SelectInSeq
  <2>. HIDE DEF I
  <2>. QED  BY <1>1, <2>2, <2>3
<1>. QED  BY <1>2, <1>3

\* The PCB is added, once, and nothing else changes on the queue.
LEMMA EnqueueAdds ==
    ASSUME NEW S, NEW n \in QueueName, NEW q \in Seq(S), NEW ps, NEW p \in S
    PROVE  /\ Enqueue(n, q, ps, p) \in Seq(S)
           /\ Range(Enqueue(n, q, ps, p)) = Range(q) \union {p}
           /\ IsInjective(q) /\ p \notin Range(q) => IsInjective(Enqueue(n, q, ps, p))
<1>1. CASE n \in PriorityQueue
  BY <1>1, InsertionPointInRange, InsertAtInserts, InsertAtRange DEF Enqueue
<1>2. CASE n \notin PriorityQueue
  <2>. DEFINE t == Append(q, p)
  <2>1. Enqueue(n, q, ps, p) = t
    BY <1>2 DEF Enqueue
  <2>2. Len(q) \in Nat /\ DOMAIN q = 1..Len(q)
    BY LenProperties
  <2>3. /\ t \in Seq(S)
        /\ Len(t) = Len(q) + 1
        /\ \A i \in 1..Len(q) : t[i] = q[i]
        /\ t[Len(q) + 1] = p
    BY AppendProperties
  <2>. HIDE DEF t
  <2>4. DOMAIN t = 1..(Len(q) + 1)
    BY <2>3, LenProperties
  <2>5. \A i \in 1..(Len(q) + 1) : i \in 1..Len(q) \/ i = Len(q) + 1
    BY <2>2
  <2>6. 1..Len(q) \subseteq 1..(Len(q) + 1) /\ Len(q) + 1 \in 1..(Len(q) + 1)
    BY <2>2
  <2>7. Range(t) \subseteq Range(q) \union {p}
    BY <2>2, <2>3, <2>4, <2>5 DEF Range
  <2>8. Range(q) \subseteq Range(t)
    BY <2>2, <2>3, <2>4, <2>6 DEF Range
  <2>9. p \in Range(t)
    BY <2>3, <2>4, <2>6 DEF Range
  <2>10. ASSUME IsInjective(q), p \notin Range(q) PROVE IsInjective(t)
    <3>1. \A i \in 1..Len(q) : q[i] # p
      BY <2>2, <2>10 DEF Range
    <3>2. \A i, j \in 1..Len(q) : q[i] = q[j] => i = j
      BY <2>2, <2>10 DEF IsInjective
    <3>. QED  BY <2>3, <2>4, <2>5, <3>1, <3>2 DEF IsInjective
  <2>. QED  BY <2>1, <2>3, <2>7, <2>8, <2>9, <2>10
<1>. QED  BY <1>1, <1>2

LEMMA FourInARow ==
    ASSUME NEW S, NEW a \in Seq(S), NEW b \in Seq(S), NEW c \in Seq(S), NEW d \in Seq(S)
    PROVE  /\ a \o b \o c \o d \in Seq(S)
           /\ Range(a \o b \o c \o d) = Range(a) \union Range(b) \union Range(c) \union Range(d)
<1>. DEFINE ab  == a \o b
            abc == ab \o c
<1>1. ab \in Seq(S) /\ Range(ab) = Range(a) \union Range(b)
  BY ConcatProperties, RangeConcatenation
<1>. HIDE DEF ab
<1>2. abc \in Seq(S) /\ Range(abc) = Range(ab) \union Range(c)
  BY <1>1, ConcatProperties, RangeConcatenation
<1>. HIDE DEF abc
<1>3. abc \o d \in Seq(S) /\ Range(abc \o d) = Range(abc) \union Range(d)
  BY <1>2, ConcatProperties, RangeConcatenation
<1>. QED  BY <1>1, <1>2, <1>3 DEF ab, abc

\* What is found is on a queue.
LEMMA FoundIsQueued ==
    ASSUME NEW S, NEW qs \in [QueueName -> Seq(S)], NEW ps, NEW name
    PROVE  \/ PcbFind(qs, ps, name) = NULL
           \/ /\ PcbFind(qs, ps, name) \in S
              /\ \E n \in QueueName : PcbFind(qs, ps, name) \in Range(qs[n])
<1>. DEFINE all == Searched(qs)
            I == {i \in 1..Len(all) : ps[all[i]].process_name = name}
<1>1. /\ qs["ready"] \in Seq(S) /\ qs["blocked"] \in Seq(S)
      /\ qs["susp_ready"] \in Seq(S) /\ qs["susp_blocked"] \in Seq(S)
  BY DEF QueueName
<1>2. /\ all \in Seq(S)
      /\ Range(all) = Range(qs["ready"]) \union Range(qs["blocked"])
                      \union Range(qs["susp_ready"]) \union Range(qs["susp_blocked"])
  BY <1>1, FourInARow DEF Searched
<1>3. CASE I = {}
  BY <1>3 DEF PcbFind, SelectInSeq
<1>4. CASE I # {}
  <2>1. I \in SUBSET Nat
    OBVIOUS
  <2>2. Min(I) \in I
    <3>. HIDE DEF I
    <3>. QED  BY <1>4, <2>1, MinIsLeast
  <2>3. Min(I) \in 1..Len(all)
    BY <2>2
  <2>4. PcbFind(qs, ps, name) = all[Min(I)]
    <3>1. PcbFind(qs, ps, name) = IF Min(I) = 0 THEN NULL ELSE all[Min(I)]
      BY <1>4 DEF PcbFind, SelectInSeq
    <3>2. Min(I) # 0
      BY <2>3, <1>2, LenProperties
    <3>. QED  BY <3>1, <3>2
  <2>. HIDE DEF I, all
  <2>5. all[Min(I)] \in S /\ all[Min(I)] \in Range(all)
    BY <1>2, <2>3, ElementOfSeq, LenProperties DEF Range
  <2>. QED  BY <1>2, <2>4, <2>5 DEF QueueName
<1>. QED  BY <1>3, <1>4

\* A PCB that is on at most one queue, and there once, is on none afterwards;
\* nothing else changes.
LEMMA RemoveTakesOff ==
    ASSUME NEW S, NEW qs \in [QueueName -> Seq(S)], NEW p
    PROVE  /\ PcbRemove(qs, p) \in [QueueName -> Seq(S)]
           /\ \A n \in QueueName : Range(PcbRemove(qs, p)[n]) \subseteq Range(qs[n])
           /\ \A n \in QueueName : IsInjective(qs[n]) => IsInjective(PcbRemove(qs, p)[n])
           /\ (/\ \A n \in QueueName : IsInjective(qs[n])
               /\ \A m, n \in QueueName : p \in Range(qs[m]) /\ p \in Range(qs[n]) => m = n)
              => \A n \in QueueName : Range(PcbRemove(qs, p)[n]) = Range(qs[n]) \ {p}
<1>. DEFINE I == {i \in 1..Len(SearchOrder) : Contains(qs[SearchOrder[i]], p)}
            k == Min(I)
            h == SearchOrder[k]
<1>1. /\ Len(SearchOrder) = 4
      /\ \A i \in 1..4 : SearchOrder[i] \in QueueName
      /\ \A n \in QueueName : \E i \in 1..4 : SearchOrder[i] = n
  BY DEF SearchOrder, QueueName
<1>2. \A n \in QueueName : p \in Range(qs[n]) <=> Contains(qs[n], p)
  BY LenProperties DEF Contains, Range
<1>3. CASE I = {}
  <2>1. PcbRemove(qs, p) = qs
    BY <1>3 DEF PcbRemove, SelectInSeq
  <2>2. \A n \in QueueName : p \notin Range(qs[n])
    BY <1>1, <1>2, <1>3
  <2>. QED  BY <2>1, <2>2
<1>4. CASE I # {}
  <2>1. I \in SUBSET Nat
    OBVIOUS
  <2>2. k \in I
    <3>. HIDE DEF I
    <3>. QED  BY <1>4, <2>1, MinIsLeast
  <2>3. k \in 1..4 /\ Contains(qs[h], p)
    BY <1>1, <2>2
  <2>4. h \in QueueName
    BY <1>1, <2>3
  <2>5. PcbRemove(qs, p) = [qs EXCEPT ![h] = RemoveFirst(@, p)]
    <3>1. PcbRemove(qs, p) = IF k = 0 THEN qs ELSE [qs EXCEPT ![h] = RemoveFirst(@, p)]
      BY <1>4 DEF PcbRemove, SelectInSeq
    <3>. HIDE DEF k, I
    <3>. QED  BY <2>3, <3>1
  <2>. HIDE DEF I, k, h
  <2>6. /\ RemoveFirst(qs[h], p) \in Seq(S)
        /\ Range(RemoveFirst(qs[h], p)) \subseteq Range(qs[h])
        /\ IsInjective(qs[h]) => /\ IsInjective(RemoveFirst(qs[h], p))
                                 /\ Range(RemoveFirst(qs[h], p)) = Range(qs[h]) \ {p}
    BY <2>4, RemoveFirstRange
  <2>7. \A n \in QueueName :
           PcbRemove(qs, p)[n] = IF n = h THEN RemoveFirst(qs[h], p) ELSE qs[n]
    BY <2>4, <2>5
  <2>8. PcbRemove(qs, p) \in [QueueName -> Seq(S)]
    BY <2>4, <2>5, <2>6
  <2>9. p \in Range(qs[h])
    BY <1>2, <2>3, <2>4
  <2>. QED  BY <2>4, <2>6, <2>7, <2>8, <2>9
<1>. QED  BY <1>3, <1>4
=============================================================================
