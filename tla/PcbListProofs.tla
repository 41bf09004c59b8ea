--------------------------- MODULE PcbListProofs ---------------------------
(***************************************************************************)
(* Proofs about PcbList, for any number of PCBs and any priorities: the    *)
(* front and next pointers of user/pcb.c always make up four lists, and    *)
(* the calls change them as PcbQueues changes sequences.                   *)
(***************************************************************************)
EXTENDS PcbList, PcbTheorems, FiniteSetTheorems

----------------------------------------------------------------------------
(***************************************************************************)
(* One list.  From f, the pointers nx lead through the elements of s in    *)
(* order, each of them once, and from the last one to NULL.                *)
(***************************************************************************)
IsList(f, nx, s) ==
    /\ s \in Seq(Numbers)
    /\ IsInjective(s)
    /\ f = IF s = << >> THEN NULL ELSE s[1]
    /\ \A i \in 1..Len(s) : nx[s[i]] = IF i = Len(s) THEN NULL ELSE s[i + 1]

LEMMA NumbersArePointers ==
    /\ MaxPcbs \in Nat /\ Numbers \subseteq Nat /\ NULL \notin Numbers /\ Wild \notin Numbers
    /\ NULL \in Nat /\ Wild \in Nat
BY ListAssumption DEF Numbers, NULL, Wild

\* A sequence without repetition is no longer than there are PCBs.
LEMMA NoLongerThanNumbers ==
    ASSUME NEW s \in Seq(Numbers), IsInjective(s)
    PROVE  Len(s) \in 0..MaxPcbs
<1>1. Len(s) \in Nat /\ DOMAIN s = 1..Len(s) /\ s \in [1..Len(s) -> Numbers]
  BY LenProperties
<1>2. s \in Injection(1..Len(s), Numbers)
  BY <1>1 DEF Injection, IsInjective
<1>3. IsFiniteSet(Numbers) /\ Cardinality(Numbers) = MaxPcbs
  BY NumbersArePointers, FS_Interval DEF Numbers
<1>4. Cardinality(1..Len(s)) = Len(s)
  BY <1>1, FS_Interval, SMTT(30)
<1>5. Cardinality(1..Len(s)) <= Cardinality(Numbers)
  BY <1>2, <1>3, FS_Injection
<1>. QED  BY <1>1, <1>3, <1>4, <1>5, NumbersArePointers

\* Following next from the front of a list visits the list.
LEMMA ChainIsTheList ==
    ASSUME NEW f, NEW nx, NEW s, IsList(f, nx, s)
    PROVE  Chain(f, nx) = s
<1>. DEFINE Visit(g, k) == IF k = 1 THEN f ELSE IF g[k - 1] \in Numbers THEN nx[g[k - 1]] ELSE NULL
            G  == [k \in 1..(MaxPcbs + 1) |-> IF k <= Len(s) THEN s[k] ELSE NULL]
            at == CHOOSE g : g = [k \in 1..(MaxPcbs + 1) |-> Visit(g, k)]
<1>1. /\ s \in Seq(Numbers) /\ Len(s) \in 0..MaxPcbs /\ DOMAIN s = 1..Len(s)
      /\ \A i \in 1..Len(s) : s[i] \in Numbers
  BY NoLongerThanNumbers, LenProperties, ElementOfSeq DEF IsList
<1>2. MaxPcbs \in Nat /\ NULL \notin Numbers
  BY NumbersArePointers
<1>3. \A k \in 1..(MaxPcbs + 1) : G[k] = Visit(G, k)
  <2>. TAKE k \in 1..(MaxPcbs + 1)
  <2>1. CASE k = 1
    <3>1. s = << >> <=> Len(s) = 0
      BY <1>1, EmptySeq
    <3>2. f = IF Len(s) = 0 THEN NULL ELSE s[1]
      BY <3>1 DEF IsList
    <3>3. G[1] = IF 1 <= Len(s) THEN s[1] ELSE NULL
      BY <1>2
    <3>. QED  BY <1>1, <1>2, <2>1, <3>2, <3>3
  <2>2. CASE k > 1 /\ k <= Len(s)
    <3>1. k - 1 \in 1..Len(s) /\ k - 1 # Len(s) /\ (k - 1) + 1 = k /\ k - 1 \in 1..(MaxPcbs + 1)
      BY <1>1, <1>2, <2>2
    <3>2. G[k - 1] = s[k - 1] /\ s[k - 1] \in Numbers
      BY <1>1, <3>1
    <3>3. nx[s[k - 1]] = s[k]
      BY <3>1 DEF IsList
    <3>. QED  BY <2>2, <3>2, <3>3
  <2>3. CASE k > 1 /\ k = Len(s) + 1
    <3>1. k - 1 \in 1..Len(s) /\ k - 1 = Len(s) /\ k - 1 \in 1..(MaxPcbs + 1)
      BY <1>1, <1>2, <2>3
    <3>2. G[k - 1] = s[k - 1] /\ s[k - 1] \in Numbers
      BY <1>1, <3>1
    <3>3. nx[s[k - 1]] = NULL
      BY <3>1 DEF IsList
    <3>. QED  BY <1>1, <2>3, <3>2, <3>3
  <2>4. CASE k > 1 /\ k > Len(s) + 1
    <3>1. k - 1 \in 1..(MaxPcbs + 1) /\ ~(k - 1 <= Len(s))
      BY <1>1, <1>2, <2>4
    <3>2. G[k - 1] = NULL
      BY <3>1
    <3>. QED  BY <1>1, <1>2, <2>4, <3>2
  <2>. QED  BY <1>1, <2>1, <2>2, <2>3, <2>4
<1>4. G = [k \in 1..(MaxPcbs + 1) |-> Visit(G, k)]
  BY <1>3, SMTT(30)
<1>5. at = [k \in 1..(MaxPcbs + 1) |-> Visit(at, k)]
  <2>. HIDE DEF G
  <2>. QED  BY <1>4
<1>. HIDE DEF at
<1>6. \A k \in 1..(MaxPcbs + 1) : at[k] = G[k]
  <2>. DEFINE Wrong == {k \in 1..(MaxPcbs + 1) : at[k] # G[k]}
  <2>1. SUFFICES ASSUME Wrong # {} PROVE FALSE
    OBVIOUS
  <2>2. Wrong \in SUBSET Nat
    BY <1>2
  <2>. DEFINE k == Min(Wrong)
  <2>3. k \in Wrong /\ \A j \in Wrong : k <= j
    <3>. HIDE DEF Wrong
    <3>. QED  BY <2>1, <2>2, MinIsLeast
  <2>4. k \in 1..(MaxPcbs + 1) /\ at[k] # G[k]
    BY <2>3
  <2>. HIDE DEF k, G
  <2>5. at[k] = Visit(at, k) /\ G[k] = Visit(G, k)
    BY <1>3, <1>5, <2>4
  <2>6. k # 1 => at[k - 1] = G[k - 1]
    <3>1. k # 1 => k - 1 \in 1..(MaxPcbs + 1) /\ ~(k <= k - 1)
      BY <1>2, <2>4
    <3>. QED  BY <2>3, <3>1
  <2>. QED  BY <2>4, <2>5, <2>6
<1>7. {j \in 1..(MaxPcbs + 1) : at[j] # NULL} = 1..Len(s)
  <2>1. \A j \in 1..(MaxPcbs + 1) : at[j] # NULL <=> j <= Len(s)
    <3>. TAKE j \in 1..(MaxPcbs + 1)
    <3>1. at[j] = IF j <= Len(s) THEN s[j] ELSE NULL
      BY <1>6
    <3>2. j <= Len(s) => s[j] \in Numbers
      BY <1>1
    <3>. QED  BY <1>2, <3>1, <3>2
  <2>2. 1..Len(s) \subseteq 1..(MaxPcbs + 1)
    BY <1>1, <1>2
  <2>. QED  BY <1>1, <2>1, <2>2
<1>8. Cardinality(1..Len(s)) = Len(s)
  <2>1. Len(s) \in Nat
    BY <1>1, <1>2
  <2>. QED  BY <2>1, FS_Interval, SMTT(30)
<1>9. Chain(f, nx) = [k \in 1..Cardinality({j \in 1..(MaxPcbs + 1) : at[j] # NULL}) |-> at[k]]
  BY DEF Chain, at
<1>10. Chain(f, nx) = [k \in 1..Len(s) |-> at[k]]
  BY <1>7, <1>8, <1>9
<1>11. \A k \in 1..Len(s) : at[k] = s[k]
  BY <1>1, <1>2, <1>6
<1>12. s = [k \in 1..Len(s) |-> s[k]]
  BY <1>1
<1>. QED  BY <1>10, <1>11, <1>12

\* A list is no other for pointers outside it.
LEMMA OtherPointers ==
    ASSUME NEW f, NEW nx, NEW s, IsList(f, nx, s), NEW nx2,
           \A r \in Range(s) : nx2[r] = nx[r]
    PROVE  IsList(f, nx2, s)
<1>1. \A i \in 1..Len(s) : s[i] \in Range(s)
  BY LenProperties DEF IsList, Range
<1>. QED  BY <1>1 DEF IsList

LEMMA EmptyList ==
    ASSUME NEW f, NEW nx, NEW s, IsList(f, nx, s)
    PROVE  /\ f = NULL <=> s = << >>
           /\ s = << >> <=> Len(s) = 0
           /\ s # << >> => f = s[1] /\ 1 \in 1..Len(s)
           /\ f \in Numbers \union {NULL}
<1>1. s \in Seq(Numbers) /\ (s = << >> <=> Len(s) = 0) /\ Len(s) \in Nat
  BY EmptySeq, LenProperties DEF IsList
<1>2. s # << >> => 1 \in 1..Len(s) /\ s[1] \in Numbers
  BY <1>1, ElementOfSeq
<1>. QED  BY <1>1, <1>2, NumbersArePointers DEF IsList

LEMMA ListOfOne ==
    ASSUME NEW p \in Numbers, NEW nx, nx[p] = NULL
    PROVE  IsList(p, nx, <<p>>)
<1>1. <<p>> \in Seq(Numbers) /\ Len(<<p>>) = 1 /\ <<p>>[1] = p /\ <<p>> # << >>
  OBVIOUS
<1>2. IsInjective(<<p>>)
  BY DEF IsInjective
<1>. QED  BY <1>1, <1>2 DEF IsList

\* Linking p into a list: in front of it, or behind its element k - 1.
LinksIn(f, nx, s, p, n, k, f2, nx2) ==
    /\ n = Len(s)
    /\ k \in 1..(n + 1)
    /\ f2 = IF k = 1 THEN p ELSE f
    /\ nx2[p] = IF k = n + 1 THEN NULL ELSE s[k]
    /\ k > 1 => nx2[s[k - 1]] = p
    /\ \A i \in 1..n : i # k - 1 => nx2[s[i]] = nx[s[i]]

LEMMA LinkedIn ==
    ASSUME NEW f, NEW nx \in [Numbers -> Nat], NEW s, IsList(f, nx, s),
           NEW p \in Numbers, p \notin Range(s),
           NEW n, NEW k, NEW f2, NEW nx2, LinksIn(f, nx, s, p, n, k, f2, nx2)
    PROVE  IsList(f2, nx2, InsertAt(s, k, p))
<1>. DEFINE t == InsertAt(s, k, p)
<1>0. n = Len(s) /\ n \in Nat /\ k \in Nat /\ k >= 1 /\ k <= n + 1 /\ k \in 1..(n + 1)
  <2>1. n = Len(s) /\ n \in Nat /\ k \in 1..(n + 1)
    BY LenProperties DEF IsList, LinksIn
  <2>. QED  BY <2>1
<1>7. /\ f2 = IF k = 1 THEN p ELSE f
      /\ nx2[p] = IF k = n + 1 THEN NULL ELSE s[k]
      /\ k > 1 => nx2[s[k - 1]] = p
      /\ \A i \in 1..n : i # k - 1 => nx2[s[i]] = nx[s[i]]
  BY DEF LinksIn
<1>1. /\ s \in Seq(Numbers) /\ n \in Nat /\ IsInjective(s)
      /\ f = IF s = << >> THEN NULL ELSE s[1]
      /\ \A i \in 1..n : nx[s[i]] = IF i = n THEN NULL ELSE s[i + 1]
  BY <1>0, LenProperties DEF IsList
<1>2. /\ t \in Seq(Numbers) /\ Len(t) = n + 1
      /\ \A i \in 1..(n + 1) : t[i] = IF i < k THEN s[i] ELSE IF i = k THEN p ELSE s[i - 1]
  <2>1. k \in 1..(Len(s) + 1)
    BY <1>0
  <2>2. /\ t \in Seq(Numbers) /\ Len(t) = Len(s) + 1
        /\ \A i \in 1..(Len(s) + 1) : t[i] = IF i < k THEN s[i] ELSE IF i = k THEN p ELSE s[i - 1]
    BY <1>1, <2>1, InsertAtProperties
  <2>. QED  BY <1>0, <2>2
<1>3. IsInjective(t)
  BY <1>0, <1>1, InsertAtRange
<1>. HIDE DEF t
<1>4. f2 = IF t = << >> THEN NULL ELSE t[1]
  <2>1. t # << >> /\ 1 \in 1..(n + 1)
    BY <1>1, <1>2, EmptySeq
  <2>2. k > 1 => s # << >>
    BY <1>0, <1>1, EmptySeq
  <2>3. t[1] = IF 1 < k THEN s[1] ELSE p
    BY <1>0, <1>2, <2>1
  <2>. QED  BY <1>0, <1>1, <1>7, <2>1, <2>2, <2>3
<1>5. ASSUME NEW i \in 1..(n + 1)
      PROVE  nx2[t[i]] = IF i = n + 1 THEN NULL ELSE t[i + 1]
  <2>1. CASE i = k
    <3>1. t[i] = p
      BY <1>2, <2>1
    <3>2. i # n + 1 => t[i + 1] = s[k]
      <4>1. i # n + 1 => i + 1 \in 1..(n + 1) /\ ~(i + 1 < k) /\ i + 1 # k /\ (i + 1) - 1 = k
        BY <1>0, <2>1
      <4>. QED  BY <1>2, <4>1
    <3>. QED  BY <1>7, <2>1, <3>1, <3>2
  <2>2. CASE i = k - 1
    <3>1. i < k /\ i \in 1..n /\ i + 1 = k /\ k > 1 /\ i # n + 1
      BY <1>0, <2>2
    <3>2. t[i] = s[k - 1]
      BY <1>2, <2>2, <3>1
    <3>3. t[i + 1] = p
      BY <1>2, <3>1
    <3>. QED  BY <1>7, <3>1, <3>2, <3>3
  <2>3. CASE i < k - 1
    <3>1. i < k /\ i \in 1..n /\ i + 1 < k /\ i + 1 \in 1..(n + 1) /\ i # n /\ i # n + 1
      BY <1>0, <2>3
    <3>2. t[i] = s[i] /\ t[i + 1] = s[i + 1]
      BY <1>2, <3>1
    <3>3. nx2[s[i]] = s[i + 1]
      BY <1>1, <1>7, <2>3, <3>1
    <3>. QED  BY <3>1, <3>2, <3>3
  <2>4. CASE i > k
    <3>1. i - 1 \in 1..n /\ ~(i < k) /\ i # k /\ i - 1 # k - 1 /\ (i - 1) + 1 = i
          /\ (i - 1 = n <=> i = n + 1)
      BY <1>0, <2>4
    <3>2. t[i] = s[i - 1]
      BY <1>2, <3>1
    <3>3. nx2[s[i - 1]] = IF i - 1 = n THEN NULL ELSE s[i]
      BY <1>1, <1>7, <3>1
    <3>4. i # n + 1 => t[i + 1] = s[i]
      <4>1. i # n + 1 => i + 1 \in 1..(n + 1) /\ ~(i + 1 < k) /\ i + 1 # k /\ (i + 1) - 1 = i
        BY <1>0, <2>4
      <4>. QED  BY <1>2, <4>1
    <3>. QED  BY <3>1, <3>2, <3>3, <3>4
  <2>. QED  BY <1>0, <2>1, <2>2, <2>3, <2>4
<1>6. IsList(f2, nx2, t)
  BY <1>2, <1>3, <1>4, <1>5 DEF IsList
<1>. QED  BY <1>6 DEF t

\* Taking out the element k: the front, or the pointer of the one before, leads past it.
LinksOut(f, nx, s, n, k, f2, nx2) ==
    /\ n = Len(s)
    /\ k \in 1..n
    /\ f2 = IF k = 1 THEN nx[s[1]] ELSE f
    /\ k > 1 => nx2[s[k - 1]] = nx[s[k]]
    /\ \A i \in 1..n : i # k - 1 /\ i # k => nx2[s[i]] = nx[s[i]]

LEMMA LinkedOut ==
    ASSUME NEW f, NEW nx \in [Numbers -> Nat], NEW s, IsList(f, nx, s),
           NEW n, NEW k, NEW f2, NEW nx2, LinksOut(f, nx, s, n, k, f2, nx2)
    PROVE  IsList(f2, nx2, RemoveAt(s, k))
<1>. DEFINE t == RemoveAt(s, k)
<1>0. n = Len(s) /\ n \in Nat /\ k \in Nat /\ k >= 1 /\ k <= n /\ k \in 1..n
  <2>1. n = Len(s) /\ n \in Nat /\ k \in 1..n
    BY LenProperties DEF IsList, LinksOut
  <2>. QED  BY <2>1
<1>7. /\ f2 = IF k = 1 THEN nx[s[1]] ELSE f
      /\ k > 1 => nx2[s[k - 1]] = nx[s[k]]
      /\ \A i \in 1..n : i # k - 1 /\ i # k => nx2[s[i]] = nx[s[i]]
  BY DEF LinksOut
<1>1. /\ s \in Seq(Numbers) /\ n \in Nat /\ IsInjective(s) /\ DOMAIN s = 1..n
      /\ f = IF s = << >> THEN NULL ELSE s[1]
      /\ \A i \in 1..n : nx[s[i]] = IF i = n THEN NULL ELSE s[i + 1]
  BY <1>0, LenProperties DEF IsList
<1>2. /\ t \in Seq(Numbers) /\ Len(t) = n - 1
      /\ \A i \in 1..(n - 1) : t[i] = IF i < k THEN s[i] ELSE s[i + 1]
  BY <1>0, <1>1, RemoveAtProperties
<1>. HIDE DEF t
<1>3. IsInjective(t)
  <2>1. DOMAIN t = 1..(n - 1)
    BY <1>2, LenProperties
  <2>. DEFINE From(i) == IF i < k THEN i ELSE i + 1
  <2>2. \A i \in 1..(n - 1) : From(i) \in 1..n
    BY <1>0
  <2>3. \A i, j \in 1..(n - 1) : From(i) = From(j) => i = j
    BY <1>0
  <2>4. \A i \in 1..(n - 1) : t[i] = s[From(i)]
    BY <1>2
  <2>5. \A i, j \in 1..n : s[i] = s[j] => i = j
    BY <1>1 DEF IsInjective
  <2>. HIDE DEF From
  <2>. QED  BY <2>1, <2>2, <2>3, <2>4, <2>5 DEF IsInjective
<1>4. f2 = IF t = << >> THEN NULL ELSE t[1]
  <2>0. n - 1 = 0 <=> n = 1
    BY <1>0
  <2>1. t = << >> <=> n = 1
    BY <1>2, <2>0, EmptySeq
  <2>5. n # 1 => 1 \in 1..(n - 1)
    BY <1>0
  <2>2. n # 1 => t[1] = IF 1 < k THEN s[1] ELSE s[1 + 1]
    BY <1>2, <2>5
  <2>3. 1 \in 1..n /\ (k > 1 => n # 1) /\ n # 0
    BY <1>0
  <2>6. s # << >>
    BY <1>1, <2>3, EmptySeq
  <2>4. nx[s[1]] = IF 1 = n THEN NULL ELSE s[1 + 1]
    BY <1>1, <2>3
  <2>7. CASE k = 1
    BY <1>0, <1>7, <2>1, <2>2, <2>4, <2>7
  <2>8. CASE k # 1
    <3>1. 1 < k
      BY <1>0, <2>8
    <3>. QED  BY <1>1, <1>7, <2>1, <2>2, <2>3, <2>6, <2>8, <3>1
  <2>. QED  BY <2>7, <2>8
<1>5. ASSUME NEW i \in 1..(n - 1)
      PROVE  nx2[t[i]] = IF i = n - 1 THEN NULL ELSE t[i + 1]
  <2>1. CASE i = k - 1
    <3>1. i < k /\ k > 1 /\ ~(i + 1 < k) /\ i + 1 = k
      BY <1>0, <2>1
    <3>6. t[i] = s[k - 1] /\ nx[s[k]] = IF k = n THEN NULL ELSE s[k + 1]
      BY <1>0, <1>1, <1>2, <2>1, <3>1
    <3>2. nx2[t[i]] = IF k = n THEN NULL ELSE s[k + 1]
      BY <1>7, <3>1, <3>6
    <3>3. i # n - 1 => i + 1 \in 1..(n - 1)
      BY <1>0
    <3>4. i # n - 1 => t[i + 1] = s[k + 1]
      BY <1>2, <3>1, <3>3
    <3>5. k = n <=> i = n - 1
      BY <1>0, <2>1
    <3>. QED  BY <3>2, <3>4, <3>5
  <2>2. CASE i < k - 1
    <3>1. i < k /\ i + 1 < k /\ i + 1 \in 1..(n - 1) /\ i \in 1..n /\ i # k /\ i # k - 1
          /\ i # n /\ i # n - 1
      BY <1>0, <2>2
    <3>2. t[i] = s[i] /\ t[i + 1] = s[i + 1]
      BY <1>2, <3>1
    <3>. QED  BY <1>1, <1>7, <3>1, <3>2
  <2>3. CASE i >= k
    <3>1. i + 1 \in 1..n /\ i + 1 # k - 1 /\ i + 1 # k /\ ~(i < k)
          /\ (i + 1 = n <=> i = n - 1)
      BY <1>0, <2>3
    <3>2. t[i] = s[i + 1]
      BY <1>2, <3>1
    <3>3. nx2[s[i + 1]] = IF i + 1 = n THEN NULL ELSE s[(i + 1) + 1]
      BY <1>1, <1>7, <3>1
    <3>4. i # n - 1 => i + 1 \in 1..(n - 1) /\ ~(i + 1 < k)
      BY <1>0, <2>3
    <3>5. i # n - 1 => t[i + 1] = s[(i + 1) + 1]
      BY <1>2, <3>4
    <3>. QED  BY <3>1, <3>2, <3>3, <3>5
  <2>. QED  BY <1>0, <2>1, <2>2, <2>3
<1>6. IsList(f2, nx2, t)
  BY <1>1, <1>2, <1>3, <1>4, <1>5 DEF IsList
<1>. QED  BY <1>6 DEF t

----------------------------------------------------------------------------
(***************************************************************************)
(* The four lists.                                                         *)
(***************************************************************************)
Pointers == [front : [QueueName -> Numbers \union {NULL}], next : [Numbers -> Nat]]

\* The pointers l make up the sequences qs, which have no PCB in common.
Lists(l, qs) ==
    /\ l \in Pointers
    /\ qs \in [QueueName -> Seq(Numbers)]
    /\ \A n \in QueueName : IsList(l.front[n], l.next, qs[n])
    /\ \A m, n \in QueueName : m # n => Range(qs[m]) \cap Range(qs[n]) = {}

OnQueue(qs, p) == \E n \in QueueName : p \in Range(qs[n])

LEMMA OnIsTheQueue ==
    ASSUME NEW l, NEW qs, Lists(l, qs)
    PROVE  \A n \in QueueName : On(l, n) = qs[n]
BY ChainIsTheList DEF Lists, On

\* A change to the list n that leaves the pointers of the others alone.
OthersStay(l, qs, n, p, l2) ==
    \A m \in QueueName \ {n} : /\ l2.front[m] = l.front[m]
                               /\ p \notin Range(qs[m])
                               /\ \A r \in Range(qs[m]) : l2.next[r] = l.next[r]

LEMMA OneListChanges ==
    ASSUME NEW l, NEW qs, Lists(l, qs), NEW n \in QueueName, NEW p, NEW l2 \in Pointers, NEW t,
           IsList(l2.front[n], l2.next, t), Range(t) \subseteq Range(qs[n]) \union {p},
           OthersStay(l, qs, n, p, l2)
    PROVE  Lists(l2, [qs EXCEPT ![n] = t])
<1>. DEFINE qs2 == [qs EXCEPT ![n] = t]
<1>1. t \in Seq(Numbers)
  BY DEF IsList
<1>2. /\ qs2 \in [QueueName -> Seq(Numbers)]
      /\ qs2[n] = t
      /\ \A m \in QueueName \ {n} : qs2[m] = qs[m]
  BY <1>1 DEF Lists
<1>. HIDE DEF qs2
<1>3. ASSUME NEW m \in QueueName PROVE IsList(l2.front[m], l2.next, qs2[m])
  <2>1. CASE m = n
    BY <1>2, <2>1
  <2>2. CASE m # n
    <3>1. IsList(l.front[m], l.next, qs[m])
      BY DEF Lists
    <3>2. IsList(l.front[m], l2.next, qs[m])
      BY <2>2, <3>1, OtherPointers DEF OthersStay
    <3>. QED  BY <1>2, <2>2, <3>2 DEF OthersStay
  <2>. QED  BY <2>1, <2>2
<1>4. ASSUME NEW m1 \in QueueName, NEW m2 \in QueueName, m1 # m2
      PROVE  Range(qs2[m1]) \cap Range(qs2[m2]) = {}
  <2>1. Range(qs[m1]) \cap Range(qs[m2]) = {}
    BY <1>4 DEF Lists
  <2>2. CASE m1 = n
    BY <1>2, <1>4, <2>1, <2>2 DEF OthersStay
  <2>3. CASE m2 = n
    BY <1>2, <1>4, <2>1, <2>3 DEF OthersStay
  <2>4. CASE m1 # n /\ m2 # n
    <3>1. qs2[m1] = qs[m1] /\ qs2[m2] = qs[m2]
      BY <1>2, <2>4
    <3>. QED  BY <2>1, <3>1
  <2>. QED  BY <2>2, <2>3, <2>4
<1>. QED  BY <1>2, <1>3, <1>4 DEF Lists, qs2

\* The least element of a set, when it is known.
LEMMA MinIs ==
    ASSUME NEW I \in SUBSET Nat, NEW m \in I, \A i \in I : m <= i
    PROVE  Min(I) = m
<1>1. Min(I) \in I /\ \A i \in I : Min(I) <= i
  BY MinIsLeast
<1>2. Min(I) <= m /\ m <= Min(I) /\ Min(I) \in Nat /\ m \in Nat
  BY <1>1
<1>. QED  BY <1>2

LEMMA RemoveFirstIs ==
    ASSUME NEW s \in Seq(Numbers), IsInjective(s), NEW k \in 1..Len(s)
    PROVE  RemoveFirst(s, s[k]) = RemoveAt(s, k)
<1>. DEFINE I == {i \in 1..Len(s) : s[i] = s[k]}
<1>1. I = {k}
  BY LenProperties DEF IsInjective
<1>2. Min(I) = k
  <2>1. I \in SUBSET Nat /\ k \in I /\ \A i \in I : k <= i
    BY <1>1
  <2>. HIDE DEF I
  <2>. QED  BY <2>1, MinIs
<1>3. SelectInSeq(s, LAMBDA v : v = s[k]) = k
  BY <1>1, <1>2 DEF SelectInSeq
<1>. QED  BY <1>3 DEF RemoveFirst

----------------------------------------------------------------------------
(***************************************************************************)
(* pcb_remove.                                                             *)
(***************************************************************************)
\* A change to one pointer.
LEMMA FrontChanges ==
    ASSUME NEW fr, NEW nx, NEW h, NEW x
    PROVE  [[front |-> fr, next |-> nx] EXCEPT !.front[h] = x]
              = [front |-> [fr EXCEPT ![h] = x], next |-> nx]
OBVIOUS

LEMMA NextChanges ==
    ASSUME NEW fr, NEW nx, NEW p, NEW x
    PROVE  [[front |-> fr, next |-> nx] EXCEPT !.next[p] = x]
              = [front |-> fr, next |-> [nx EXCEPT ![p] = x]]
OBVIOUS

\* The queue that is found is the one the PCB is on.
LEMMA QueueWithFinds ==
    ASSUME NEW l, NEW qs, Lists(l, qs), NEW p
    PROVE  \/ /\ QueueWith(l, p) = 0
              /\ ~ OnQueue(qs, p)
              /\ PcbRemove(qs, p) = qs
           \/ \E n \in QueueName : /\ QueueWith(l, p) # 0
                                   /\ SearchOrder[QueueWith(l, p)] = n
                                   /\ p \in Range(qs[n])
                                   /\ PcbRemove(qs, p) = [qs EXCEPT ![n] = RemoveFirst(@, p)]
<1>. DEFINE I == {i \in 1..Len(SearchOrder) : Contains(qs[SearchOrder[i]], p)}
            J == {i \in 1..Len(SearchOrder) : Contains(On(l, SearchOrder[i]), p)}
<1>1. /\ Len(SearchOrder) = 4
      /\ \A i \in 1..4 : SearchOrder[i] \in QueueName
      /\ \A n \in QueueName : \E i \in 1..4 : SearchOrder[i] = n
  BY DEF SearchOrder, QueueName
<1>2. \A n \in QueueName : p \in Range(qs[n]) <=> Contains(qs[n], p)
  BY LenProperties DEF Contains, Range, Lists
<1>3. J = I
  BY <1>1, OnIsTheQueue
<1>4. QueueWith(l, p) = IF I # {} THEN Min(I) ELSE 0
  <2>1. QueueWith(l, p) = IF J # {} THEN Min(J) ELSE 0
    BY DEF QueueWith, SelectInSeq
  <2>. HIDE DEF I, J
  <2>. QED  BY <1>3, <2>1
<1>5. PcbRemove(qs, p) =
         IF (IF I # {} THEN Min(I) ELSE 0) = 0 THEN qs
         ELSE [qs EXCEPT ![SearchOrder[IF I # {} THEN Min(I) ELSE 0]] = RemoveFirst(@, p)]
  BY DEF PcbRemove, SelectInSeq
<1>6. CASE I = {}
  <2>1. ~ OnQueue(qs, p)
    BY <1>1, <1>2, <1>6 DEF OnQueue
  <2>. QED  BY <1>4, <1>5, <1>6, <2>1
<1>7. CASE I # {}
  <2>. DEFINE k == Min(I)
  <2>1. I \in SUBSET Nat
    OBVIOUS
  <2>2. k \in I
    <3>. HIDE DEF I
    <3>. QED  BY <1>7, <2>1, MinIsLeast
  <2>3. k \in 1..4 /\ Contains(qs[SearchOrder[k]], p)
    BY <1>1, <2>2
  <2>. HIDE DEF I
  <2>4. QueueWith(l, p) = k /\ PcbRemove(qs, p) = [qs EXCEPT ![SearchOrder[k]] = RemoveFirst(@, p)]
    BY <1>4, <1>5, <1>7, <2>3
  <2>5. SearchOrder[k] \in QueueName /\ p \in Range(qs[SearchOrder[k]]) /\ k # 0
    BY <1>1, <1>2, <2>3
  <2>. QED  BY <2>4, <2>5
<1>. QED  BY <1>6, <1>7

\* The pointers after p has been bypassed and its own next cleared.
LEMMA BypassLinks ==
    ASSUME NEW l, NEW qs, Lists(l, qs), NEW h \in QueueName, NEW k \in 1..Len(qs[h]),
           NEW p, p = qs[h][k]
    PROVE  LET l2 == [Bypass(l, h, p) EXCEPT !.next[p] = NULL]
           IN  /\ l2 \in Pointers
               /\ l2.front[h] = IF k = 1 THEN l.next[p] ELSE l.front[h]
               /\ \A m \in QueueName \ {h} : l2.front[m] = l.front[m]
               /\ l2.next[p] = NULL
               /\ k > 1 => l2.next[qs[h][k - 1]] = l.next[p]
               /\ \A r \in Numbers : r # p /\ (k > 1 => r # qs[h][k - 1]) => l2.next[r] = l.next[r]
<1>. DEFINE s == qs[h]
            N == Len(s)
            nx == l.next
            I == {i \in 1..N : nx[s[i]] = p}
<1>1. /\ s \in Seq(Numbers) /\ N \in Nat /\ IsInjective(s) /\ DOMAIN s = 1..N
      /\ \A i \in 1..N : s[i] \in Numbers
      /\ \A i \in 1..N : nx[s[i]] = IF i = N THEN NULL ELSE s[i + 1]
  BY LenProperties, ElementOfSeq DEF Lists, IsList
<1>2. \A i, j \in 1..N : s[i] = s[j] => i = j
  BY <1>1 DEF IsInjective
<1>3. /\ l.front \in [QueueName -> Numbers \union {NULL}] /\ nx \in [Numbers -> Nat]
      /\ l = [front |-> l.front, next |-> l.next]
  BY DEF Lists, Pointers
<1>4. On(l, h) = s
  BY OnIsTheQueue
<1>5. l.front[h] = s[1]
  <2>1. 1 \in 1..N
    BY <1>1
  <2>2. s # << >>
    BY <2>1
  <2>. QED  BY <2>2 DEF Lists, IsList
<1>6. p \in Numbers /\ k \in 1..N /\ p = s[k]
  BY <1>1
<1>. HIDE DEF s, N, nx
<1>7. nx[p] \in Numbers \union {NULL} /\ nx[p] \in Nat
  <2>1. k # N => k + 1 \in 1..N
    BY <1>1, <1>6
  <2>. QED  BY <1>1, <1>6, <2>1, NumbersArePointers
<1>8. k > 1 => /\ k - 1 \in 1..N /\ s[k - 1] \in Numbers /\ s[k - 1] # p /\ s[1] # p
               /\ SelectInSeq(s, LAMBDA c : nx[c] = p) = k - 1
  <2>. SUFFICES ASSUME k > 1
                PROVE  /\ k - 1 \in 1..N /\ s[k - 1] \in Numbers /\ s[k - 1] # p /\ s[1] # p
                       /\ SelectInSeq(s, LAMBDA c : nx[c] = p) = k - 1
    OBVIOUS
  <2>1. k - 1 \in 1..N /\ k - 1 # k /\ 1 \in 1..N /\ 1 # k /\ k - 1 # N /\ (k - 1) + 1 = k
    BY <1>1, <1>6
  <2>2. s[k - 1] \in Numbers /\ s[k - 1] # p /\ s[1] # p
    BY <1>1, <1>2, <1>6, <2>1
  <2>3. \A i \in 1..N : nx[s[i]] = p <=> i = k - 1
    <3>. TAKE i \in 1..N
    <3>1. i # N => i + 1 \in 1..N /\ (i + 1 = k <=> i = k - 1)
      BY <1>1, <1>6
    <3>2. i # N => (s[i + 1] = p <=> i + 1 = k)
      BY <1>2, <1>6, <3>1
    <3>. QED  BY <1>1, <1>6, <2>1, <3>1, <3>2, NumbersArePointers
  <2>4. I = {k - 1}
    BY <2>1, <2>3
  <2>5. Min(I) = k - 1
    <3>0. k - 1 \in Nat
      BY <1>1, <2>1
    <3>1. I \in SUBSET Nat /\ k - 1 \in I /\ \A i \in I : k - 1 <= i
      BY <2>4, <3>0
    <3>. HIDE DEF I
    <3>. QED  BY <3>1, MinIs
  <2>6. SelectInSeq(s, LAMBDA c : nx[c] = p) = IF I # {} THEN Min(I) ELSE 0
    BY DEF SelectInSeq, N
  <2>. QED  BY <2>1, <2>2, <2>4, <2>5, <2>6
<1>9. CASE k = 1
  <2>1. Bypass(l, h, p) = [l EXCEPT !.front[h] = l.next[p]]
    BY <1>5, <1>6, <1>9 DEF Bypass
  <2>. DEFINE l2 == [Bypass(l, h, p) EXCEPT !.next[p] = NULL]
  <2>2. l2 = [front |-> [l.front EXCEPT ![h] = nx[p]], next |-> [nx EXCEPT ![p] = NULL]]
    <3>1. Bypass(l, h, p) = [front |-> [l.front EXCEPT ![h] = nx[p]], next |-> nx]
      <4>1. l = [front |-> l.front, next |-> nx]
        BY <1>3 DEF nx
      <4>. QED  BY <2>1, <4>1, FrontChanges, Zenon DEF nx
    <3>. QED  BY <3>1, NextChanges
  <2>3. /\ [l.front EXCEPT ![h] = nx[p]] \in [QueueName -> Numbers \union {NULL}]
        /\ [nx EXCEPT ![p] = NULL] \in [Numbers -> Nat]
    BY <1>3, <1>6, <1>7, NumbersArePointers
  <2>4. l2 \in Pointers
    BY <2>2, <2>3 DEF Pointers
  <2>5. l2.front = [l.front EXCEPT ![h] = nx[p]] /\ l2.next = [nx EXCEPT ![p] = NULL]
    BY <2>2
  <2>. HIDE DEF l2
  <2>6. l2.front[h] = nx[p] /\ \A m \in QueueName \ {h} : l2.front[m] = l.front[m]
    BY <1>3, <2>5
  <2>7. l2.next[p] = NULL /\ \A r \in Numbers : r # p => l2.next[r] = nx[r]
    BY <1>3, <1>6, <2>5
  <2>. QED  BY <1>9, <2>4, <2>6, <2>7 DEF l2, nx
<1>10. CASE k > 1
  <2>0. On(l, h)[SelectInSeq(On(l, h), LAMBDA c : l.next[c] = p)] = s[k - 1]
    BY <1>4, <1>8, <1>10 DEF nx
  <2>1. Bypass(l, h, p) = [l EXCEPT !.next[s[k - 1]] = l.next[p]]
    BY <1>5, <1>8, <1>10, <2>0 DEF Bypass
  <2>. DEFINE l2 == [Bypass(l, h, p) EXCEPT !.next[p] = NULL]
              c  == s[k - 1]
  <2>2. c \in Numbers /\ c # p
    BY <1>8, <1>10
  <2>3. l2 = [front |-> l.front, next |-> [[nx EXCEPT ![c] = nx[p]] EXCEPT ![p] = NULL]]
    <3>1. l = [front |-> l.front, next |-> nx]
      BY <1>3 DEF nx
    <3>2. Bypass(l, h, p) = [front |-> l.front, next |-> [nx EXCEPT ![c] = nx[p]]]
      BY <2>1, <3>1, NextChanges, Zenon DEF nx
    <3>. QED  BY <3>2, NextChanges
  <2>4. [[nx EXCEPT ![c] = nx[p]] EXCEPT ![p] = NULL] \in [Numbers -> Nat]
    BY <1>3, <1>6, <1>7, <2>2, NumbersArePointers
  <2>5. l2 \in Pointers
    BY <1>3, <2>3, <2>4 DEF Pointers
  <2>6. l2.front = l.front /\ l2.next = [[nx EXCEPT ![c] = nx[p]] EXCEPT ![p] = NULL]
    BY <2>3
  <2>. HIDE DEF l2
  <2>7. /\ l2.next[p] = NULL /\ l2.next[c] = nx[p]
        /\ \A r \in Numbers : r # p /\ r # c => l2.next[r] = nx[r]
    BY <1>3, <1>6, <2>2, <2>6
  <2>. QED  BY <1>10, <2>5, <2>6, <2>7 DEF l2, nx, s
<1>11. k = 1 \/ k > 1
  BY <1>1, <1>6
<1>. QED  BY <1>9, <1>10, <1>11

\* pcb_remove takes a PCB off its list as it is taken out of a sequence, and clears its next.
LEMMA RemoveImplements ==
    ASSUME NEW l, NEW qs, Lists(l, qs), NEW p
    PROVE  /\ Lists(RemovePcb(l, p), PcbRemove(qs, p))
           /\ OnQueue(qs, p) => RemovePcb(l, p).next[p] = NULL
           /\ \A r \in Numbers : ~ OnQueue(qs, r) => RemovePcb(l, p).next[r] = l.next[r]
           /\ QueueWith(l, p) # 0 <=> OnQueue(qs, p)
<1>1. CASE QueueWith(l, p) = 0
  <2>1. ~ OnQueue(qs, p) /\ PcbRemove(qs, p) = qs
    BY <1>1, QueueWithFinds
  <2>2. RemovePcb(l, p) = l
    BY <1>1 DEF RemovePcb
  <2>. QED  BY <1>1, <2>1, <2>2
<1>2. CASE QueueWith(l, p) # 0
  <2>1. PICK h \in QueueName : /\ SearchOrder[QueueWith(l, p)] = h
                               /\ p \in Range(qs[h])
                               /\ PcbRemove(qs, p) = [qs EXCEPT ![h] = RemoveFirst(@, p)]
    BY <1>2, QueueWithFinds
  <2>. DEFINE s  == qs[h]
              l2 == [Bypass(l, h, p) EXCEPT !.next[p] = NULL]
  <2>2. RemovePcb(l, p) = l2
    BY <1>2, <2>1 DEF RemovePcb
  <2>3. /\ s \in Seq(Numbers) /\ IsInjective(s) /\ DOMAIN s = 1..Len(s)
        /\ IsList(l.front[h], l.next, s) /\ Len(s) \in Nat /\ l.next \in [Numbers -> Nat]
        /\ \A i, j \in 1..Len(s) : s[i] = s[j] => i = j
        /\ \A i \in 1..Len(s) : s[i] \in Numbers
    BY LenProperties, ElementOfSeq DEF Lists, IsList, Pointers, IsInjective
  <2>4. PICK k \in 1..Len(s) : s[k] = p
    BY <2>1, <2>3 DEF Range
  <2>5. /\ l2 \in Pointers
        /\ l2.front[h] = IF k = 1 THEN l.next[p] ELSE l.front[h]
        /\ \A m \in QueueName \ {h} : l2.front[m] = l.front[m]
        /\ l2.next[p] = NULL
        /\ k > 1 => l2.next[s[k - 1]] = l.next[p]
        /\ \A r \in Numbers : r # p /\ (k > 1 => r # s[k - 1]) => l2.next[r] = l.next[r]
    BY <2>4, BypassLinks, SMTT(30)
  <2>. HIDE DEF l2
  <2>. DEFINE t == RemoveAt(s, k)
  <2>6. RemoveFirst(s, p) = t
    BY <2>3, <2>4, RemoveFirstIs
  <2>7. Range(t) \subseteq Range(s)
    BY <2>3, <2>6, RemoveFirstRange
  <2>8. k > 1 => k - 1 \in 1..Len(s) /\ k - 1 # k
    BY <2>3
  <2>9. \A r \in Numbers : r \notin Range(s) => l2.next[r] = l.next[r]
    <3>1. p \in Range(s) /\ (k > 1 => s[k - 1] \in Range(s))
      BY <2>1, <2>3, <2>8 DEF Range
    <3>. QED  BY <2>5, <3>1
  <2>10. IsList(l2.front[h], l2.next, t)
    <3>1. k = 1 => l2.front[h] = l.next[s[1]]
      BY <2>4, <2>5
    <3>2. \A i \in 1..Len(s) : i # k - 1 /\ i # k => l2.next[s[i]] = l.next[s[i]]
      <4>. TAKE i \in 1..Len(s)
      <4>. HAVE i # k - 1 /\ i # k
      <4>1. s[i] \in Numbers /\ s[i] # p
        BY <2>3, <2>4
      <4>2. k > 1 => s[i] # s[k - 1]
        BY <2>3, <2>8
      <4>. QED  BY <2>5, <4>1, <4>2
    <3>. HIDE DEF s, t
    <3>. DEFINE n == Len(s)
    <3>3. k \in 1..n /\ n = Len(s)
      OBVIOUS
    <3>4. /\ l2.front[h] = IF k = 1 THEN l.next[s[1]] ELSE l.front[h]
          /\ k > 1 => l2.next[s[k - 1]] = l.next[s[k]]
          /\ \A i \in 1..n : i # k - 1 /\ i # k => l2.next[s[i]] = l.next[s[i]]
      BY <2>4, <2>5, <3>1, <3>2 DEF s
    <3>5. LinksOut(l.front[h], l.next, s, n, k, l2.front[h], l2.next)
      BY <3>3, <3>4 DEF LinksOut
    <3>. HIDE DEF n
    <3>. QED  BY <2>3, <3>5, LinkedOut DEF t
  <2>. HIDE DEF t
  <2>11. \A m \in QueueName \ {h} : Range(qs[m]) \subseteq Numbers /\ p \notin Range(qs[m])
                                    /\ Range(qs[m]) \cap Range(s) = {}
    <3>. TAKE m \in QueueName \ {h}
    <3>1. qs[m] \in Seq(Numbers) /\ Range(qs[m]) \cap Range(s) = {}
      BY DEF Lists
    <3>2. Range(qs[m]) \subseteq Numbers
      BY <3>1, LenProperties, ElementOfSeq DEF Range
    <3>. QED  BY <2>1, <3>1, <3>2
  <2>12. Lists(l2, [qs EXCEPT ![h] = t])
    <3>1. OthersStay(l, qs, h, p, l2)
      BY <2>5, <2>9, <2>11 DEF OthersStay
    <3>2. Range(t) \subseteq Range(qs[h]) \union {p}
      BY <2>7
    <3>. QED  BY <2>5, <2>10, <3>1, <3>2, OneListChanges
  <2>13. PcbRemove(qs, p) = [qs EXCEPT ![h] = t]
    BY <2>1, <2>6 DEF Lists
  <2>14. \A r \in Numbers : ~ OnQueue(qs, r) => l2.next[r] = l.next[r]
    BY <2>9 DEF OnQueue
  <2>15. OnQueue(qs, p)
    BY <2>1 DEF OnQueue
  <2>. QED  BY <1>2, <2>2, <2>5, <2>12, <2>13, <2>14, <2>15
<1>. QED  BY <1>1, <1>2

----------------------------------------------------------------------------
(***************************************************************************)
(* pcb_insert.                                                             *)
(***************************************************************************)
\* Where a sequence takes the PCB.
InsertionIndex(n, q, ps, p) == IF n \in PriorityQueue THEN InsertionPoint(q, ps, p) ELSE Len(q) + 1

LEMMA AppendIsInsertAt ==
    ASSUME NEW s \in Seq(Numbers), NEW p \in Numbers
    PROVE  Append(s, p) = InsertAt(s, Len(s) + 1, p)
<1>. DEFINE t == InsertAt(s, Len(s) + 1, p)
            u == Append(s, p)
            n == Len(s)
<1>1. Len(s) \in Nat /\ Len(s) + 1 \in 1..(Len(s) + 1)
  BY LenProperties
<1>2. /\ t \in Seq(Numbers) /\ Len(t) = Len(s) + 1
      /\ \A i \in 1..(Len(s) + 1) :
            t[i] = IF i < Len(s) + 1 THEN s[i] ELSE IF i = Len(s) + 1 THEN p ELSE s[i - 1]
  BY <1>1, InsertAtProperties, SMTT(30)
<1>3. /\ u \in Seq(Numbers) /\ Len(u) = Len(s) + 1
      /\ \A i \in 1..Len(s) : u[i] = s[i]
      /\ u[Len(s) + 1] = p
  BY AppendProperties
<1>. HIDE DEF t, u, n
<1>4. n \in Nat /\ n = Len(s)
  BY <1>1 DEF n
<1>5. ASSUME NEW i \in 1..(n + 1) PROVE u[i] = t[i]
  <2>1. CASE i < n + 1
    <3>1. i \in 1..n
      BY <1>4, <2>1
    <3>. QED  BY <1>2, <1>3, <1>4, <2>1, <3>1
  <2>2. CASE i = n + 1
    BY <1>2, <1>3, <1>4, <2>2
  <2>. QED  BY <1>4, <2>1, <2>2
<1>6. u = t
  BY <1>2, <1>3, <1>4, <1>5, SeqEqual
<1>. QED  BY <1>6 DEF t, u

LEMMA EnqueueIsInsertAt ==
    ASSUME NEW n, NEW q \in Seq(Numbers), NEW ps, NEW p \in Numbers
    PROVE  /\ Enqueue(n, q, ps, p) = InsertAt(q, InsertionIndex(n, q, ps, p), p)
           /\ InsertionIndex(n, q, ps, p) \in 1..(Len(q) + 1)
           /\ Len(q) \in Nat
           /\ q = << >> => Len(q) = 0 /\ InsertionIndex(n, q, ps, p) = 1
<1>1. Len(q) \in Nat /\ (q = << >> => Len(q) = 0)
  BY LenProperties, EmptySeq
<1>2. InsertionIndex(n, q, ps, p) \in 1..(Len(q) + 1)
  BY <1>1, InsertionPointInRange DEF InsertionIndex
<1>3. Enqueue(n, q, ps, p) = InsertAt(q, InsertionIndex(n, q, ps, p), p)
  BY AppendIsInsertAt DEF Enqueue, InsertionIndex
<1>. QED  BY <1>1, <1>2, <1>3

\* The insertion point is in front of the first PCB with a larger number.
LEMMA InsertionPointIsFirstLarger ==
    ASSUME NEW q \in Seq(Numbers), NEW ps, NEW p, NEW N, N = Len(q),
           NEW k, k = InsertionPoint(q, ps, p)
    PROVE  /\ k \in 1..(N + 1) /\ N \in Nat
           /\ k <= N => Larger(ps, q[k], p)
           /\ \A i \in 1..N : Larger(ps, q[i], p) => k <= i
<1>. DEFINE I == {i \in 1..N : Larger(ps, q[i], p)}
<1>1. k \in 1..(N + 1) /\ N \in Nat
  BY InsertionPointInRange, LenProperties
<1>2. k = IF (IF I # {} THEN Min(I) ELSE 0) = 0 THEN N + 1 ELSE IF I # {} THEN Min(I) ELSE 0
  BY DEF InsertionPoint, SelectInSeq, Larger
<1>3. CASE I = {}
  BY <1>1, <1>2, <1>3
<1>4. CASE I # {}
  <2>1. I \in SUBSET Nat
    OBVIOUS
  <2>2. Min(I) \in I /\ \A i \in I : Min(I) <= i
    <3>. HIDE DEF I
    <3>. QED  BY <1>4, <2>1, MinIsLeast
  <2>3. Min(I) \in 1..N /\ Larger(ps, q[Min(I)], p) /\ \A i \in 1..N : Larger(ps, q[i], p) => Min(I) <= i
    BY <2>2
  <2>. HIDE DEF I
  <2>4. k = Min(I)
    BY <1>1, <1>2, <1>4, <2>3
  <2>. QED  BY <1>1, <2>3, <2>4
<1>. QED  BY <1>3, <1>4

\* The walk along next stops at the PCB in front of the insertion point.
Walk(f, nx, q, ps, p, N, k) ==
    /\ IsList(f, nx, q)
    /\ q # << >>
    /\ ~ Larger(ps, q[1], p)
    /\ N = Len(q)
    /\ k = InsertionPoint(q, ps, p)

LEMMA WalkStopsInFront ==
    ASSUME NEW f, NEW nx, NEW q, NEW ps, NEW p, NEW N, NEW k, Walk(f, nx, q, ps, p, N, k)
    PROVE  /\ k > 1 /\ k - 1 \in 1..N
           /\ nx[q[k - 1]] = NULL \/ Larger(ps, nx[q[k - 1]], p)
           /\ \A i \in 1..N : nx[q[i]] = NULL \/ Larger(ps, nx[q[i]], p) => k - 1 <= i
<1>0. /\ IsList(f, nx, q) /\ q # << >> /\ ~ Larger(ps, q[1], p)
      /\ N = Len(q) /\ k = InsertionPoint(q, ps, p)
  BY DEF Walk
<1>1. q \in Seq(Numbers) /\ N \in Nat /\ N # 0
  BY <1>0, EmptySeq, LenProperties DEF IsList
<1>2. /\ k \in 1..(N + 1)
      /\ k <= N => Larger(ps, q[k], p)
      /\ \A i \in 1..N : Larger(ps, q[i], p) => k <= i
  BY <1>0, <1>1, InsertionPointIsFirstLarger
<1>3. /\ \A i \in 1..N : nx[q[i]] = IF i = N THEN NULL ELSE q[i + 1]
      /\ \A i \in 1..N : q[i] \in Numbers
  BY <1>0, <1>1, ElementOfSeq DEF IsList
<1>. DEFINE I == {i \in 1..N : nx[q[i]] = NULL \/ Larger(ps, nx[q[i]], p)}
<1>4. k # 1
  <2>1. k = 1 => k <= N
    BY <1>1
  <2>. QED  BY <1>0, <1>2, <2>1
<1>5. k > 1 /\ k - 1 \in 1..N
  BY <1>1, <1>2, <1>4
<1>6. k - 1 \in I
  <2>1. (k - 1 = N <=> k = N + 1) /\ (k - 1) + 1 = k /\ (k # N + 1 => k <= N)
    BY <1>1, <1>2
  <2>. QED  BY <1>2, <1>3, <1>5, <2>1
<1>7. \A i \in I : k - 1 <= i
  <2>. TAKE i \in I
  <2>1. i \in 1..N
    OBVIOUS
  <2>2. CASE i = N
    BY <1>1, <1>2, <2>2
  <2>3. CASE i # N
    <3>1. i + 1 \in 1..N
      BY <1>1, <2>1, <2>3
    <3>2. Larger(ps, q[i + 1], p)
      BY <1>3, <2>1, <2>3, <3>1, NumbersArePointers
    <3>3. k <= i + 1
      BY <1>2, <3>1, <3>2
    <3>. QED  BY <1>2, <2>1, <3>3
  <2>. QED  BY <2>2, <2>3
<1>. QED  BY <1>5, <1>6, <1>7

\* Pointers that link p into the list n and leave the rest alone.
FilesAt(l, qs, n, p, k, l2) ==
    /\ l2 \in Pointers
    /\ \A m \in QueueName \ {n} : l2.front[m] = l.front[m]
    /\ LinksIn(l.front[n], l.next, qs[n], p, Len(qs[n]), k, l2.front[n], l2.next)
    /\ \A r \in Numbers : r # p /\ r \notin Range(qs[n]) => l2.next[r] = l.next[r]

LEMMA FiledAt ==
    ASSUME NEW l, NEW qs, Lists(l, qs), NEW n \in QueueName, NEW p \in Numbers, ~ OnQueue(qs, p),
           NEW k, NEW l2, FilesAt(l, qs, n, p, k, l2)
    PROVE  Lists(l2, [qs EXCEPT ![n] = InsertAt(@, k, p)])
<1>. DEFINE t == InsertAt(qs[n], k, p)
<1>1. /\ qs[n] \in Seq(Numbers) /\ l.next \in [Numbers -> Nat]
      /\ IsList(l.front[n], l.next, qs[n]) /\ p \notin Range(qs[n]) /\ l2 \in Pointers
  BY DEF Lists, Pointers, OnQueue, FilesAt
<1>2. LinksIn(l.front[n], l.next, qs[n], p, Len(qs[n]), k, l2.front[n], l2.next)
  BY DEF FilesAt
<1>3. IsList(l2.front[n], l2.next, t)
  BY <1>1, <1>2, LinkedIn
<1>4. Range(t) \subseteq Range(qs[n]) \union {p}
  <2>1. k \in 1..(Len(qs[n]) + 1)
    BY <1>2 DEF LinksIn
  <2>. QED  BY <1>1, <2>1, InsertAtRange
<1>5. OthersStay(l, qs, n, p, l2)
  <2>1. ASSUME NEW m \in QueueName \ {n}
        PROVE  p \notin Range(qs[m]) /\ \A r \in Range(qs[m]) : l2.next[r] = l.next[r]
    <3>1. qs[m] \in Seq(Numbers) /\ Range(qs[m]) \cap Range(qs[n]) = {} /\ p \notin Range(qs[m])
      BY DEF Lists, OnQueue
    <3>2. Range(qs[m]) \subseteq Numbers
      BY <3>1, LenProperties, ElementOfSeq DEF Range
    <3>. QED  BY <3>1, <3>2 DEF FilesAt
  <2>. QED  BY <2>1 DEF OthersStay, FilesAt
<1>. HIDE DEF t
<1>6. Lists(l2, [qs EXCEPT ![n] = t])
  BY <1>1, <1>3, <1>4, <1>5, OneListChanges
<1>. QED  BY <1>6 DEF t, Lists

\* Two ways the code links a PCB in: at the front, and behind the element k - 1.
LEMMA FilesAtFront ==
    ASSUME NEW l, NEW qs, Lists(l, qs), NEW n \in QueueName, NEW p \in Numbers, ~ OnQueue(qs, p),
           NEW fr, fr = [l.front EXCEPT ![n] = p], NEW nx \in [Numbers -> Nat],
           nx[p] = l.front[n], \A r \in Numbers : r # p => nx[r] = l.next[r]
    PROVE  FilesAt(l, qs, n, p, 1, [front |-> fr, next |-> nx])
<1>. DEFINE l2 == [front |-> fr, next |-> nx]
            s  == qs[n]
            N  == Len(s)
<1>1. /\ s \in Seq(Numbers) /\ N \in Nat /\ l.front \in [QueueName -> Numbers \union {NULL}]
      /\ IsList(l.front[n], l.next, s) /\ DOMAIN s = 1..N /\ \A i \in 1..N : s[i] \in Numbers
  BY LenProperties, ElementOfSeq DEF Lists, Pointers
<1>2. l2 \in Pointers
  BY <1>1 DEF Pointers
<1>3. l2.front = fr /\ l2.next = nx
  OBVIOUS
<1>4. \A i \in 1..N : s[i] # p
  BY <1>1 DEF OnQueue, Range
<1>5. l.front[n] = IF 1 = N + 1 THEN NULL ELSE s[1]
  <2>1. (s = << >> <=> N = 0) /\ (1 = N + 1 <=> N = 0)
    BY <1>1, EmptySeq
  <2>. QED  BY <1>1, <2>1 DEF IsList
<1>. HIDE DEF l2
<1>6. LinksIn(l.front[n], l.next, s, p, N, 1, l2.front[n], l2.next)
  <2>1. l2.front[n] = p /\ 1 \in 1..(N + 1) /\ ~(1 > 1)
    BY <1>1, <1>3
  <2>2. \A i \in 1..N : l2.next[s[i]] = l.next[s[i]]
    BY <1>1, <1>3, <1>4
  <2>3. l2.next[p] = IF 1 = N + 1 THEN NULL ELSE s[1]
    BY <1>3, <1>5
  <2>. QED  BY <2>1, <2>2, <2>3 DEF LinksIn
<1>7. FilesAt(l, qs, n, p, 1, l2)
  BY <1>1, <1>2, <1>3, <1>6 DEF FilesAt
<1>. QED  BY <1>7 DEF l2

LEMMA FilesBehind ==
    ASSUME NEW l, NEW qs, Lists(l, qs), NEW n \in QueueName, NEW p \in Numbers, ~ OnQueue(qs, p),
           NEW N, N = Len(qs[n]), NEW k, k - 1 \in 1..N, k \in 1..(N + 1), k > 1,
           NEW nx \in [Numbers -> Nat], nx[p] = l.next[qs[n][k - 1]], nx[qs[n][k - 1]] = p,
           \A r \in Numbers : r # p /\ r # qs[n][k - 1] => nx[r] = l.next[r]
    PROVE  FilesAt(l, qs, n, p, k, [front |-> l.front, next |-> nx])
<1>. DEFINE l2 == [front |-> l.front, next |-> nx]
            s  == qs[n]
<1>1. /\ s \in Seq(Numbers) /\ N \in Nat /\ l.front \in [QueueName -> Numbers \union {NULL}]
      /\ DOMAIN s = 1..N /\ \A i \in 1..N : s[i] \in Numbers
      /\ \A i \in 1..N : l.next[s[i]] = IF i = N THEN NULL ELSE s[i + 1]
  <2>1. IsList(l.front[n], l.next, s) /\ l.front \in [QueueName -> Numbers \union {NULL}]
    BY DEF Lists, Pointers
  <2>2. s \in Seq(Numbers) /\ \A i \in 1..N : l.next[s[i]] = IF i = N THEN NULL ELSE s[i + 1]
    BY <2>1 DEF IsList
  <2>. QED  BY <2>1, <2>2, LenProperties, ElementOfSeq
<1>2. l2 \in Pointers
  BY <1>1 DEF Pointers
<1>3. l2.front = l.front /\ l2.next = nx
  OBVIOUS
<1>4. \A i \in 1..N : s[i] # p
  BY <1>1 DEF OnQueue, Range
<1>. HIDE DEF l2
<1>5. l2.next[p] = IF k = N + 1 THEN NULL ELSE s[k]
  <2>1. (k - 1 = N <=> k = N + 1) /\ (k - 1) + 1 = k
    BY <1>1
  <2>. QED  BY <1>1, <1>3, <2>1
<1>6. ASSUME NEW i \in 1..N, i # k - 1 PROVE l2.next[s[i]] = l.next[s[i]]
  <2>1. s[i] # s[k - 1]
    <3>1. IsList(l.front[n], l.next, s)
      BY DEF Lists
    <3>2. \A j \in DOMAIN s : s[i] = s[j] => i = j
      BY <1>1, <3>1 DEF IsList, IsInjective
    <3>3. DOMAIN s = 1..N
      BY <1>1, LenProperties
    <3>. QED  BY <1>1, <1>6, <3>2, <3>3
  <2>2. s[i] \in Numbers /\ s[i] # p
    BY <1>1, <1>4
  <2>. QED  BY <1>3, <2>1, <2>2
<1>7. LinksIn(l.front[n], l.next, s, p, N, k, l2.front[n], l2.next)
  <2>1. l2.next[s[k - 1]] = p /\ k # 1
    BY <1>3
  <2>. QED  BY <1>3, <1>5, <1>6, <2>1 DEF LinksIn
<1>8. \A r \in Numbers : r # p /\ r \notin Range(s) => l2.next[r] = l.next[r]
  <2>1. s[k - 1] \in Range(s)
    BY <1>1 DEF Range
  <2>. QED  BY <1>3, <2>1
<1>9. FilesAt(l, qs, n, p, k, l2)
  BY <1>2, <1>3, <1>7, <1>8 DEF FilesAt
<1>. QED  BY <1>9 DEF l2

\* pcb_insert links a PCB that is on no queue into the list its fields call for, where a
\* sequence would take it, as long as the queue is not an empty FIFO queue and, if the queue
\* is an empty priority queue, next is NULL already.
MayInsert(l, qs, ps, n, p) ==
    /\ Lists(l, qs)
    /\ p \in Numbers /\ ~ OnQueue(qs, p)
    /\ n \in QueueName /\ n = QueueOf(ps[p])
    /\ ~ WalksNull(l, n)
    /\ n \notin made => qs[n] = << >>
    /\ l.next[p] = NULL \/ n \notin made \/ qs[n] # << >>

LEMMA InsertImplements ==
    ASSUME NEW l, NEW qs, NEW ps, NEW n, NEW p, MayInsert(l, qs, ps, n, p)
    PROVE  /\ Lists(InsertPcb(l, ps, p), [qs EXCEPT ![n] = Enqueue(n, @, ps, p)])
           /\ \A r \in Numbers : r # p /\ ~ OnQueue(qs, r) => InsertPcb(l, ps, p).next[r] = l.next[r]
<1>. SUFFICES ASSUME Lists(l, qs), p \in Numbers, ~ OnQueue(qs, p), n \in QueueName,
                     n = QueueOf(ps[p]), ~ WalksNull(l, n), n \notin made => qs[n] = << >>,
                     l.next[p] = NULL \/ n \notin made \/ qs[n] # << >>
              PROVE  /\ Lists(InsertPcb(l, ps, p), [qs EXCEPT ![n] = Enqueue(n, @, ps, p)])
                     /\ \A r \in Numbers : r # p /\ ~ OnQueue(qs, r) =>
                           InsertPcb(l, ps, p).next[r] = l.next[r]
  BY DEF MayInsert
<1>. DEFINE s  == qs[n]
            N  == Len(s)
            k  == InsertionIndex(n, s, ps, p)
            f  == l.front[n]
            fr == [l.front EXCEPT ![n] = p]
<1>1. /\ s \in Seq(Numbers) /\ IsList(f, l.next, s) /\ l \in Pointers
      /\ l.front \in [QueueName -> Numbers \union {NULL}] /\ l.next \in [Numbers -> Nat]
      /\ l = [front |-> l.front, next |-> l.next]
      /\ qs \in [QueueName -> Seq(Numbers)]
  BY DEF Lists, Pointers
<1>2. /\ N \in Nat /\ (f = NULL <=> s = << >>) /\ (s = << >> <=> N = 0)
      /\ s # << >> => f = s[1] /\ 1 \in 1..N
      /\ f \in Numbers \union {NULL} /\ f \in Nat /\ NULL \in Nat
  BY <1>1, EmptyList, LenProperties, NumbersArePointers
<1>3. /\ Enqueue(n, s, ps, p) = InsertAt(s, k, p)
      /\ k \in 1..(N + 1)
      /\ s = << >> => k = 1
  BY <1>1, EnqueueIsInsertAt
<1>4. fr \in [QueueName -> Numbers \union {NULL}]
  BY <1>1
<1>5. SUFFICES FilesAt(l, qs, n, p, k, InsertPcb(l, ps, p))
  <2>. HIDE DEF k
  <2>1. [qs EXCEPT ![n] = Enqueue(n, @, ps, p)] = [qs EXCEPT ![n] = InsertAt(@, k, p)]
    BY <1>1, <1>3
  <2>2. Lists(InsertPcb(l, ps, p), [qs EXCEPT ![n] = InsertAt(@, k, p)])
    BY <1>5, FiledAt
  <2>. QED  BY <1>5, <2>1, <2>2 DEF FilesAt, OnQueue
<1>6. CASE n \notin made
  <2>. DEFINE nx == [l.next EXCEPT ![p] = NULL]
  <2>1. InsertPcb(l, ps, p) = [front |-> fr, next |-> nx]
    BY <1>6 DEF InsertPcb, InsertFirst
  <2>2. k = 1 /\ f = NULL
    BY <1>2, <1>3, <1>6
  <2>3. nx \in [Numbers -> Nat] /\ nx[p] = f /\ \A r \in Numbers : r # p => nx[r] = l.next[r]
    BY <1>1, <1>2, <2>2
  <2>. HIDE DEF nx, k
  <2>. QED  BY <2>1, <2>2, <2>3, FilesAtFront
<1>7. CASE n \in made /\ n \in PriorityQueue
  <2>0. InsertPcb(l, ps, p) = InsertByPriority(l, ps, n, p) /\ k = InsertionPoint(s, ps, p)
    BY <1>7 DEF InsertPcb, InsertionIndex
  <2>1. CASE f = NULL
    <3>1. InsertPcb(l, ps, p) = [front |-> fr, next |-> l.next]
      <4>1. InsertPcb(l, ps, p) = [l EXCEPT !.front[n] = p]
        BY <2>0, <2>1 DEF InsertByPriority
      <4>. QED  BY <1>1, <4>1, FrontChanges
    <3>2. k = 1 /\ l.next[p] = f
      BY <1>2, <1>3, <1>7, <2>1
    <3>. DEFINE nx == l.next
    <3>3. nx \in [Numbers -> Nat] /\ nx[p] = f /\ \A r \in Numbers : r # p => nx[r] = l.next[r]
      BY <1>1, <3>2
    <3>4. InsertPcb(l, ps, p) = [front |-> fr, next |-> nx]
      BY <3>1
    <3>. HIDE DEF k, nx
    <3>. QED  BY <3>2, <3>3, <3>4, FilesAtFront, SMTT(30)
  <2>2. CASE f # NULL /\ Larger(ps, f, p)
    <3>. DEFINE nx == [l.next EXCEPT ![p] = f]
    <3>1. InsertPcb(l, ps, p) = [front |-> fr, next |-> nx]
      <4>1. InsertPcb(l, ps, p) = [l EXCEPT !.front[n] = p, !.next[p] = f]
        BY <2>0, <2>2 DEF InsertByPriority
      <4>2. InsertPcb(l, ps, p) = [[[front |-> l.front, next |-> l.next] EXCEPT !.front[n] = p]
                                      EXCEPT !.next[p] = f]
        BY <1>1, <4>1
      <4>. QED  BY <4>2, FrontChanges, NextChanges
    <3>2. k = 1
      <4>1. 1 \in 1..N /\ Larger(ps, s[1], p)
        BY <1>2, <2>2
      <4>2. k <= 1
        <5>1. s \in Seq(Numbers) /\ N = Len(s) /\ k = InsertionPoint(s, ps, p)
          BY <1>1, <2>0
        <5>. HIDE DEF s, N, k
        <5>. QED  BY <4>1, <5>1, InsertionPointIsFirstLarger
      <4>. QED  BY <1>2, <1>3, <4>2
    <3>3. nx \in [Numbers -> Nat] /\ nx[p] = f /\ \A r \in Numbers : r # p => nx[r] = l.next[r]
      BY <1>1, <1>2
    <3>. HIDE DEF nx, k
    <3>. QED  BY <3>1, <3>2, <3>3, FilesAtFront, SMTT(30)
  <2>3. CASE f # NULL /\ ~ Larger(ps, f, p)
    <3>. DEFINE c  == s[k - 1]
                nx == [[l.next EXCEPT ![p] = l.next[c]] EXCEPT ![c] = p]
    <3>1. /\ k > 1 /\ k - 1 \in 1..N
          /\ SelectInSeq(s, LAMBDA r : l.next[r] = NULL \/ Larger(ps, l.next[r], p)) = k - 1
      <4>1. s # << >> /\ ~ Larger(ps, s[1], p)
        BY <1>2, <2>3
      <4>. DEFINE I == {i \in 1..N : l.next[s[i]] = NULL \/ Larger(ps, l.next[s[i]], p)}
      <4>2. IsList(f, l.next, s) /\ N = Len(s) /\ k = InsertionPoint(s, ps, p)
        BY <1>1, <2>0
      <4>3. /\ k > 1 /\ k - 1 \in 1..N
            /\ l.next[s[k - 1]] = NULL \/ Larger(ps, l.next[s[k - 1]], p)
            /\ \A i \in 1..N : l.next[s[i]] = NULL \/ Larger(ps, l.next[s[i]], p) => k - 1 <= i
        <5>1. Walk(f, l.next, s, ps, p, N, k)
          BY <4>1, <4>2 DEF Walk
        <5>. HIDE DEF s, N, k, f
        <5>. QED  BY <5>1, WalkStopsInFront
      <4>4. Min(I) = k - 1
        <5>1. I \in SUBSET Nat /\ k - 1 \in I /\ \A i \in I : k - 1 <= i
          BY <4>3
        <5>. HIDE DEF I, k
        <5>. QED  BY <5>1, MinIs
      <4>5. SelectInSeq(s, LAMBDA r : l.next[r] = NULL \/ Larger(ps, l.next[r], p))
               = IF I # {} THEN Min(I) ELSE 0
        BY DEF SelectInSeq
      <4>6. k - 1 \in I
        BY <4>3
      <4>. HIDE DEF I, k
      <4>. QED  BY <4>3, <4>4, <4>5, <4>6
    <3>2. c \in Numbers /\ c # p /\ p \in Nat /\ l.next[c] \in Nat
      <4>1. c \in Numbers /\ c \in Range(s)
        BY <1>1, <3>1, ElementOfSeq, LenProperties DEF Range
      <4>. QED  BY <1>1, <4>1, NumbersArePointers DEF OnQueue
    <3>3. InsertPcb(l, ps, p) = [l EXCEPT !.next[p] = l.next[c], !.next[c] = p]
      <4>1. On(l, n) = s
        BY OnIsTheQueue
      <4>2. On(l, n)[SelectInSeq(On(l, n), LAMBDA r : l.next[r] = NULL \/ Larger(ps, l.next[r], p))] = c
        BY <3>1, <4>1
      <4>. HIDE DEF c
      <4>. QED  BY <2>0, <2>3, <4>2 DEF InsertByPriority
    <3>4. InsertPcb(l, ps, p) = [front |-> l.front, next |-> nx]
      <4>. HIDE DEF c
      <4>1. InsertPcb(l, ps, p) = [[[front |-> l.front, next |-> l.next] EXCEPT !.next[p] = l.next[c]]
                                      EXCEPT !.next[c] = p]
        BY <1>1, <3>3
      <4>. QED  BY <4>1, NextChanges
    <3>. HIDE DEF c, k
    <3>5. nx \in [Numbers -> Nat] /\ nx[p] = l.next[c] /\ nx[c] = p
          /\ \A r \in Numbers : r # p /\ r # c => nx[r] = l.next[r]
      BY <1>1, <3>2
    <3>. HIDE DEF nx, N
    <3>6. N = Len(qs[n])
      BY DEF N
    <3>. QED  BY <1>3, <3>1, <3>4, <3>5, <3>6, FilesBehind, SMTT(30) DEF c
  <2>. QED  BY <2>1, <2>2, <2>3
<1>8. CASE n \in made /\ n \notin PriorityQueue
  <2>0. InsertPcb(l, ps, p) = InsertAtEnd(l, n, p) /\ k = N + 1
    BY <1>8 DEF InsertPcb, InsertionIndex
  <2>1. f # NULL /\ N # 0
    BY <1>2, <1>8 DEF WalksNull
  <2>. DEFINE c  == s[N]
              nx == [[l.next EXCEPT ![c] = p] EXCEPT ![p] = NULL]
  <2>2. k - 1 = N /\ N \in 1..N /\ k > 1
    BY <1>2, <2>0, <2>1
  <2>3. c \in Numbers /\ c # p /\ p \in Nat /\ l.next[c] = NULL
    <3>1. c \in Numbers /\ c \in Range(s) /\ l.next[c] = NULL
      BY <1>1, <2>2, ElementOfSeq, LenProperties DEF Range, IsList
    <3>. QED  BY <1>1, <3>1, NumbersArePointers DEF OnQueue
  <2>4. InsertPcb(l, ps, p) = [front |-> l.front, next |-> nx]
    <3>1. Last(On(l, n)) = c
      BY OnIsTheQueue DEF Last
    <3>. HIDE DEF c
    <3>2. InsertPcb(l, ps, p) = [l EXCEPT !.next[c] = p, !.next[p] = NULL]
      BY <2>0, <3>1 DEF InsertAtEnd
    <3>3. InsertPcb(l, ps, p) = [[[front |-> l.front, next |-> l.next] EXCEPT !.next[c] = p]
                                    EXCEPT !.next[p] = NULL]
      BY <1>1, <3>2
    <3>. QED  BY <3>3, NextChanges
  <2>5. c = s[k - 1]
    BY <2>2
  <2>. HIDE DEF c, k
  <2>6. nx \in [Numbers -> Nat] /\ nx[p] = l.next[c] /\ nx[c] = p
        /\ \A r \in Numbers : r # p /\ r # c => nx[r] = l.next[r]
    BY <1>1, <1>2, <2>3
  <2>. HIDE DEF nx, N
  <2>7. N = Len(qs[n]) /\ k - 1 \in 1..N
    BY <2>2 DEF N
  <2>. QED  BY <1>3, <2>2, <2>4, <2>5, <2>6, <2>7, FilesBehind, ZenonT(40)
<1>. QED  BY <1>6, <1>7, <1>8

----------------------------------------------------------------------------
(***************************************************************************)
(* The inductive invariant.  The links make up four lists of PCBs that     *)
(* have been loaded; a PCB on none of them has no next; and an empty       *)
(* priority queue is never given a new PCB, because the idle process is on *)
(* the ready queue whenever the command handler runs.                      *)
(***************************************************************************)
Record == [process_class : {USER_APP, SYSTEM_PROCESS}, process_priority : Priority,
           execution_state : {READY, BLOCKED}, dispatching_state : {NOT_SUSPENDED, SUSPENDED}]

Queue == [n \in QueueName |-> Chain(front[n], next)]

\* The lists qs of the PCBs ps, with the pointers l, on the queues mk.
Kept(ps, l, qs, mk) ==
    /\ ps \in Seq(Record) /\ Len(ps) <= MaxPcbs
    /\ Lists(l, qs)
    /\ \A n \in QueueName : Range(qs[n]) \subseteq 1..Len(ps)
    /\ mk \subseteq QueueName
    /\ \A n \in QueueName \ mk : qs[n] = << >>

NoNextOffQueues(l, qs) == \A p \in Numbers : ~ OnQueue(qs, p) => l.next[p] = NULL

SysIdleIsReady(ps) ==
    Len(ps) >= 2 => /\ ps[Sys_i].process_class = SYSTEM_PROCESS
                    /\ ps[Sys_i].execution_state = READY
                    /\ ps[Sys_i].dispatching_state = NOT_SUSPENDED

Control(ps, qs, mk, run, m) ==
    /\ m \in {"boot", "on", "off", "page_fault"}
    /\ m = "boot" => /\ run = NULL
                     /\ Len(ps) <= 2
                     /\ 1..Len(ps) \subseteq Range(qs["ready"])
                     /\ "ready" \in mk => Len(ps) > 0
    /\ m = "on" => /\ Len(ps) >= 2
                   /\ run \in 1..Len(ps)
                   /\ ~ OnQueue(qs, run)
                   /\ run = Sys_i \/ Sys_i \in Range(qs["ready"])
    /\ SysIdleIsReady(ps)

ListInv ==
    /\ Kept(pcb, Links, Queue, made)
    /\ NoNextOffQueues(Links, Queue)
    /\ Control(pcb, Queue, made, running, machine)

LEMMA RecordIsFiled ==
    ASSUME NEW rec \in Record
    PROVE  /\ QueueOf(rec) \in QueueName
           /\ rec.execution_state = READY /\ rec.dispatching_state = NOT_SUSPENDED => QueueOf(rec) = "ready"
           /\ rec.execution_state = READY => QueueOf(rec) \in PriorityQueue
BY DEF Record, QueueOf, QueueName, PriorityQueue, READY, BLOCKED, NOT_SUSPENDED, SUSPENDED

\* When the links are l and make up qs, the queues are qs.
LEMMA QueueIs ==
    ASSUME NEW l, NEW qs, Lists(l, qs)
    PROVE  /\ front = l.front /\ next = l.next => Links = l /\ Queue = qs
           /\ front' = l.front /\ next' = l.next => Links' = l /\ Queue' = qs
<1>1. l = [front |-> l.front, next |-> l.next]
  BY DEF Lists, Pointers
<1>2. \A n \in QueueName : Chain(l.front[n], l.next) = qs[n]
  BY ChainIsTheList DEF Lists
<1>3. qs = [n \in QueueName |-> qs[n]]
  BY DEF Lists
<1>4. front = l.front /\ next = l.next => Links = l /\ Queue = qs
  BY <1>1, <1>2, <1>3 DEF Links, Queue
<1>5. front' = l.front /\ next' = l.next => Links' = l /\ Queue' = qs
  BY <1>1, <1>2, <1>3 DEF Links, Queue
<1>. QED  BY <1>4, <1>5

Filed(qs, ps, p) == [qs EXCEPT ![QueueOf(ps[p])] = Enqueue(QueueOf(ps[p]), @, ps, p)]

\* What is on the queues once a PCB is filed.
AddedTo(qs2, qs, h, p) ==
    /\ \A n \in QueueName : Range(qs2[n]) =
          IF n = h THEN Range(qs[n]) \union {p} ELSE Range(qs[n])
    /\ \A r : OnQueue(qs2, r) <=> OnQueue(qs, r) \/ r = p

LEMMA FiledQueues ==
    ASSUME NEW qs \in [QueueName -> Seq(Numbers)], NEW ps, NEW p \in Numbers, ps[p] \in Record
    PROVE  /\ Filed(qs, ps, p) \in [QueueName -> Seq(Numbers)]
           /\ AddedTo(Filed(qs, ps, p), qs, QueueOf(ps[p]), p)
<1>. DEFINE h == QueueOf(ps[p])
            t == Enqueue(h, qs[h], ps, p)
            F == Filed(qs, ps, p)
<1>1. h \in QueueName
  BY RecordIsFiled
<1>2. t \in Seq(Numbers) /\ Range(t) = Range(qs[h]) \union {p}
  BY <1>1, EnqueueAdds
<1>3. F = [qs EXCEPT ![h] = t]
  BY DEF Filed
<1>. HIDE DEF t, F, h
<1>4. F \in [QueueName -> Seq(Numbers)] /\ \A n \in QueueName : F[n] = IF n = h THEN t ELSE qs[n]
  BY <1>1, <1>2, <1>3
<1>5. \A n \in QueueName : Range(F[n]) = IF n = h THEN Range(qs[n]) \union {p} ELSE Range(qs[n])
  BY <1>2, <1>4
<1>6. \A r : OnQueue(F, r) <=> OnQueue(qs, r) \/ r = p
  BY <1>1, <1>5 DEF OnQueue
<1>. QED  BY <1>4, <1>5, <1>6 DEF F, h, AddedTo

\* What is on them once a PCB is removed.
LEMMA RemovedQueues ==
    ASSUME NEW l, NEW qs, Lists(l, qs), NEW p
    PROVE  /\ PcbRemove(qs, p) \in [QueueName -> Seq(Numbers)]
           /\ \A n \in QueueName : Range(PcbRemove(qs, p)[n]) = Range(qs[n]) \ {p}
           /\ \A r : OnQueue(PcbRemove(qs, p), r) <=> OnQueue(qs, r) /\ r # p
<1>1. qs \in [QueueName -> Seq(Numbers)] /\ \A n \in QueueName : IsInjective(qs[n])
  BY DEF Lists, IsList
<1>2. \A m, n \in QueueName : p \in Range(qs[m]) /\ p \in Range(qs[n]) => m = n
  BY DEF Lists
<1>3. PcbRemove(qs, p) \in [QueueName -> Seq(Numbers)]
  BY <1>1, RemoveTakesOff
<1>4. \A n \in QueueName : Range(PcbRemove(qs, p)[n]) = Range(qs[n]) \ {p}
  BY <1>1, <1>2, RemoveTakesOff
<1>5. \A r : OnQueue(PcbRemove(qs, p), r) <=> OnQueue(qs, r) /\ r # p
  BY <1>4 DEF OnQueue
<1>. QED  BY <1>3, <1>4, <1>5

LEMMA NobodyOnIt ==
    ASSUME NEW s \in Seq(Numbers), Range(s) = {}
    PROVE  s = << >>
<1>1. Len(s) \in Nat /\ DOMAIN s = 1..Len(s)
  BY LenProperties
<1>2. DOMAIN s = {}
  <2>1. \A i \in DOMAIN s : s[i] \in Range(s)
    BY DEF Range
  <2>. QED  BY <2>1
<1>3. 1 \notin 1..Len(s)
  BY <1>1, <1>2
<1>4. Len(s) = 0
  BY <1>1, <1>3
<1>. QED  BY <1>4, EmptySeq

\* Removing keeps the lists, and clears the next of what was removed.
LEMMA RemoveKeeps ==
    ASSUME NEW ps, NEW l, NEW qs, NEW mk, Kept(ps, l, qs, mk), NoNextOffQueues(l, qs), NEW p
    PROVE  /\ Kept(ps, RemovePcb(l, p), PcbRemove(qs, p), mk)
           /\ NoNextOffQueues(RemovePcb(l, p), PcbRemove(qs, p))
<1>. DEFINE l2 == RemovePcb(l, p)
            q2 == PcbRemove(qs, p)
<1>1. /\ Lists(l2, q2)
      /\ OnQueue(qs, p) => l2.next[p] = NULL
      /\ \A r \in Numbers : ~ OnQueue(qs, r) => l2.next[r] = l.next[r]
  BY RemoveImplements DEF Kept
<1>2. /\ \A n \in QueueName : Range(q2[n]) = Range(qs[n]) \ {p}
      /\ \A r : OnQueue(q2, r) <=> OnQueue(qs, r) /\ r # p
      /\ q2 \in [QueueName -> Seq(Numbers)]
  BY RemovedQueues DEF Kept
<1>. HIDE DEF l2, q2
<1>3. NoNextOffQueues(l2, q2)
  BY <1>1, <1>2 DEF NoNextOffQueues
<1>4. ASSUME NEW n \in QueueName \ mk PROVE q2[n] = << >>
  <2>1. qs[n] = << >>
    BY DEF Kept
  <2>2. q2[n] \in Seq(Numbers) /\ Range(q2[n]) = {}
    BY <1>2, <2>1 DEF Range
  <2>. QED  BY <2>2, NobodyOnIt
<1>5. Kept(ps, l2, q2, mk)
  BY <1>1, <1>2, <1>4 DEF Kept
<1>. QED  BY <1>3, <1>5 DEF l2, q2

----------------------------------------------------------------------------
(***************************************************************************)
(* Filing a PCB, as the calls do it.                                       *)
(***************************************************************************)
\* Before p is filed: everything is kept, and the next of p is NULL unless p is filed in a
\* list that is not empty.
Filing(ps, l, qs, p) ==
    /\ Kept(ps, l, qs, made)
    /\ p \in 1..Len(ps)
    /\ ~ OnQueue(qs, p)
    /\ \A r \in Numbers : r # p /\ ~ OnQueue(qs, r) => l.next[r] = NULL
    /\ \/ l.next[p] = NULL
       \/ QueueOf(ps[p]) \notin made
       \/ qs[QueueOf(ps[p])] # << >>

LEMMA FileKeeps ==
    ASSUME NEW ps, NEW l, NEW qs, NEW p, Filing(ps, l, qs, p), File(l, ps, p)
    PROVE  /\ pcb' = ps
           /\ Kept(pcb', Links', Queue', made')
           /\ NoNextOffQueues(Links', Queue')
           /\ \/ /\ machine' = machine
                 /\ Queue' = Filed(qs, ps, p)
              \/ /\ machine' = "page_fault"
                 /\ Queue' = qs
                 /\ QueueOf(ps[p]) \notin PriorityQueue
<1>. DEFINE n == QueueOf(ps[p])
<1>1. /\ Lists(l, qs) /\ ps \in Seq(Record) /\ Len(ps) \in Nat /\ Len(ps) <= MaxPcbs
      /\ qs \in [QueueName -> Seq(Numbers)]
      /\ \A m \in QueueName : Range(qs[m]) \subseteq 1..Len(ps)
      /\ made \subseteq QueueName /\ \A m \in QueueName \ made : qs[m] = << >>
  BY LenProperties DEF Filing, Kept, Lists
<1>2. p \in Numbers /\ ps[p] \in Record /\ p \in 1..Len(ps) /\ ~ OnQueue(qs, p)
  BY <1>1, NumbersArePointers, ElementOfSeq DEF Filing, Numbers
<1>3. n \in QueueName
  BY <1>2, RecordIsFiled
<1>4. pcb' = ps
  BY DEF File
<1>5. CASE WalksNull(l, n)
  <2>1. front' = l.front /\ next' = l.next /\ machine' = "page_fault" /\ made' = made
    BY <1>5 DEF File, SetLinks
  <2>2. Links' = l /\ Queue' = qs
    BY <1>1, <2>1, QueueIs
  <2>3. n \in made /\ n \notin PriorityQueue /\ l.front[n] = NULL
    BY <1>5 DEF WalksNull
  <2>4. qs[n] = << >>
    BY <1>1, <1>3, <2>3, EmptyList DEF Lists
  <2>5. NoNextOffQueues(l, qs)
    BY <2>3, <2>4 DEF Filing, NoNextOffQueues
  <2>. QED  BY <1>4, <2>1, <2>2, <2>3, <2>5 DEF Filing
<1>6. CASE ~ WalksNull(l, n)
  <2>. DEFINE l2 == InsertPcb(l, ps, p)
  <2>1. front' = l2.front /\ next' = l2.next /\ machine' = machine /\ made' = made \union {n}
    BY <1>6 DEF File, SetLinks
  <2>2. /\ Lists(l2, [qs EXCEPT ![n] = Enqueue(n, @, ps, p)])
        /\ \A r \in Numbers : r # p /\ ~ OnQueue(qs, r) => l2.next[r] = l.next[r]
    <3>1. n \notin made => qs[n] = << >>
      BY <1>1, <1>3
    <3>2. l.next[p] = NULL \/ n \notin made \/ qs[n] # << >>
      BY DEF Filing
    <3>3. MayInsert(l, qs, ps, n, p)
      <4>1. n = QueueOf(ps[p])
        OBVIOUS
      <4>. HIDE DEF n
      <4>. QED  BY <1>1, <1>2, <1>3, <1>6, <3>1, <3>2, <4>1 DEF MayInsert
    <3>. HIDE DEF n, l2
    <3>4. /\ Lists(InsertPcb(l, ps, p), [qs EXCEPT ![n] = Enqueue(n, @, ps, p)])
          /\ \A r \in Numbers : r # p /\ ~ OnQueue(qs, r) => InsertPcb(l, ps, p).next[r] = l.next[r]
      BY <3>3, InsertImplements
    <3>. QED  BY <3>4 DEF l2
  <2>. DEFINE F == Filed(qs, ps, p)
  <2>3. Lists(l2, F)
    BY <2>2 DEF Filed
  <2>. HIDE DEF l2
  <2>4. /\ \A m \in QueueName : Range(F[m]) = IF m = n THEN Range(qs[m]) \union {p} ELSE Range(qs[m])
        /\ \A r : OnQueue(F, r) <=> OnQueue(qs, r) \/ r = p
        /\ \A m \in QueueName : m # n => F[m] = qs[m]
    <3>1. \A m \in QueueName : m # n => F[m] = qs[m]
      BY <1>1, <1>3 DEF Filed
    <3>2. AddedTo(F, qs, n, p)
      BY <1>1, <1>2, FiledQueues
    <3>. QED  BY <3>1, <3>2 DEF AddedTo
  <2>. HIDE DEF F
  <2>5. Links' = l2 /\ Queue' = F
    BY <2>1, <2>3, QueueIs
  <2>6. NoNextOffQueues(l2, F)
    BY <2>2, <2>4 DEF NoNextOffQueues, Filing
  <2>. HIDE DEF n
  <2>7. \A m \in QueueName : Range(F[m]) \subseteq 1..Len(ps)
    BY <1>1, <1>2, <2>4
  <2>8. made' \subseteq QueueName /\ \A m \in QueueName \ made' : F[m] = << >>
    BY <1>1, <1>3, <2>1, <2>4
  <2>9. Kept(ps, l2, F, made')
    BY <1>1, <2>3, <2>7, <2>8 DEF Kept
  <2>. QED  BY <1>4, <2>1, <2>5, <2>6, <2>9 DEF F
<1>. QED  BY <1>5, <1>6

----------------------------------------------------------------------------
(***************************************************************************)
(* The steps of PcbQueues, in terms of the queues here.                    *)
(***************************************************************************)
LEMMA QueuesOperators ==
    /\ \A qs, ps, p : Queues!File(qs, ps, p) = Filed(qs, ps, p)
    /\ \A qs, p : Queues!PcbRemove(qs, p) = PcbRemove(qs, p)
<1>1. \A I : Queues!Min(I) = Min(I)
  BY DEF Queues!Min, Min
<1>2. \A q, e : Queues!Contains(q, e) <=> Contains(q, e)
  BY DEF Queues!Contains, Contains
<1>3. \A q, k, e : Queues!InsertAt(q, k, e) = InsertAt(q, k, e) /\ Queues!RemoveAt(q, k) = RemoveAt(q, k)
  BY DEF Queues!InsertAt, InsertAt, Queues!RemoveAt, RemoveAt
<1>4. \A rec : Queues!QueueOf(rec) = QueueOf(rec)
  BY DEF Queues!QueueOf, QueueOf, Queues!READY, READY, Queues!BLOCKED, BLOCKED,
         Queues!SUSPENDED, SUSPENDED, Queues!NOT_SUSPENDED, NOT_SUSPENDED
<1>5. \A q, ps, p : Queues!InsertionPoint(q, ps, p) = InsertionPoint(q, ps, p)
  BY <1>1 DEF Queues!InsertionPoint, InsertionPoint, Queues!SelectInSeq, SelectInSeq
<1>6. \A n, q, ps, p : Queues!Enqueue(n, q, ps, p) = Enqueue(n, q, ps, p)
  BY <1>3, <1>5 DEF Queues!Enqueue, Enqueue, Queues!PriorityQueue, PriorityQueue
<1>7. \A q, e : Queues!RemoveFirst(q, e) = RemoveFirst(q, e)
  BY <1>1, <1>3 DEF Queues!RemoveFirst, RemoveFirst, Queues!SelectInSeq, SelectInSeq
<1>8. \A qs, ps, p : Queues!File(qs, ps, p) = Filed(qs, ps, p)
  BY <1>4, <1>6 DEF Queues!File, Filed
<1>9. \A qs, p : Queues!PcbRemove(qs, p) = PcbRemove(qs, p)
  <2>. TAKE qs, p
  <2>1. SelectInSeq(SearchOrder, LAMBDA n : Contains(qs[n], p)) =
        Queues!SelectInSeq(Queues!SearchOrder, LAMBDA n : Queues!Contains(qs[n], p))
    BY <1>1, <1>2 DEF Queues!SelectInSeq, SelectInSeq, Queues!SearchOrder, SearchOrder
  <2>. QED  BY <1>7, <2>1 DEF Queues!PcbRemove, PcbRemove, Queues!SearchOrder, SearchOrder
<1>. QED  BY <1>8, <1>9

LEMMA QueuedIsOnQueue ==
    ASSUME Queue \in [QueueName -> Seq(Numbers)], NEW p
    PROVE  Queues!Queued(p) <=> OnQueue(Queue, p)
<1>1. \A n \in QueueName : Queues!Contains(Queue[n], p) <=> p \in Range(Queue[n])
  <2>. TAKE n \in QueueName
  <2>1. DOMAIN Queue[n] = 1..Len(Queue[n])
    BY LenProperties
  <2>. QED  BY <2>1 DEF Queues!Contains, Range
<1>. QED  BY <1>1 DEF Queues!Queued, OnQueue, Queue, Queues!QueueName, QueueName

\* Each kind of step.
LEMMA QueuesInit ==
    ASSUME pcb = << >>, Queue = [n \in QueueName |-> << >>]
    PROVE  Queues!Init
BY DEF Queues!Init, Queue, Queues!QueueName, QueueName

LEMMA QueuesArrive ==
    ASSUME Len(pcb') = Len(pcb) + 1, SubSeq(pcb', 1, Len(pcb)) = pcb,
           Queue' = Filed(Queue, pcb', Len(pcb'))
    PROVE  Queues!Next
<1>1. Queue' = Queues!File(Queue, pcb', Len(pcb'))
  BY QueuesOperators
<1>2. Queues!Arrive
  BY <1>1 DEF Queues!Arrive, Queue
<1>. QED  BY <1>2 DEF Queues!Next

\* Calls that change the fields of one PCB.
FieldsOf(p) ==
    /\ p \in DOMAIN pcb
    /\ Len(pcb') = Len(pcb)
    /\ \A r \in DOMAIN pcb \ {p} : pcb'[r] = pcb[r]

LEMMA QueuesRefile ==
    ASSUME NEW p, FieldsOf(p), Queue \in [QueueName -> Seq(Numbers)], OnQueue(Queue, p),
           Queue' = Filed(PcbRemove(Queue, p), pcb', p)
    PROVE  Queues!Next
<1>1. Queue' = Queues!File(Queues!PcbRemove(Queue, p), pcb', p)
  BY QueuesOperators
<1>2. Queues!Queued(p)
  BY QueuedIsOnQueue
<1>3. Queues!Refile(p)
  BY <1>1, <1>2 DEF Queues!Refile, Queues!ChangesAtMost, FieldsOf, Queue
<1>. QED  BY <1>3 DEF Queues!Next, FieldsOf

LEMMA QueuesChange ==
    ASSUME NEW p, FieldsOf(p), Queue' = Queue
    PROVE  Queues!Next
<1>1. Queues!Change(p)
  BY DEF Queues!Change, Queues!ChangesAtMost, FieldsOf, Queue
<1>. QED  BY <1>1 DEF Queues!Next, FieldsOf

LEMMA QueuesLeave ==
    ASSUME NEW p, FieldsOf(p), Queue \in [QueueName -> Seq(Numbers)], OnQueue(Queue, p),
           Queue' = PcbRemove(Queue, p)
    PROVE  Queues!Next
<1>1. Queue' = Queues!PcbRemove(Queue, p)
  BY QueuesOperators
<1>2. Queues!Queued(p)
  BY QueuedIsOnQueue
<1>3. Queues!Leave(p)
  BY <1>1, <1>2 DEF Queues!Leave, Queues!ChangesAtMost, FieldsOf, Queue
<1>. QED  BY <1>3 DEF Queues!Next, FieldsOf

LEMMA QueuesSwitch ==
    ASSUME NEW p, FieldsOf(p), Queue \in [QueueName -> Seq(Numbers)], ~ OnQueue(Queue, p),
           Queue["ready"] # << >>,
           Queue' = Filed(PcbRemove(Queue, Head(Queue["ready"])), pcb', p)
    PROVE  Queues!Next
<1>1. Queue' = Queues!File(Queues!PcbRemove(Queue, Head(Queue["ready"])), pcb', p)
  BY QueuesOperators
<1>2. ~ Queues!Queued(p)
  BY QueuedIsOnQueue
<1>3. Queues!Switch(p)
  BY <1>1, <1>2 DEF Queues!Switch, Queues!ChangesAtMost, FieldsOf, Queue
<1>. QED  BY <1>3 DEF Queues!Next, FieldsOf

----------------------------------------------------------------------------
(***************************************************************************)
(* Every call keeps the invariant and is a step of PcbQueues.              *)
(***************************************************************************)
ListStep ==
    /\ ListInv'
    /\ Queues!Next \/ (pcb' = pcb /\ Queue' = Queue)

\* What the invariant says, in the forms the steps use.
LEMMA ListFacts ==
    ASSUME ListInv
    PROVE  /\ pcb \in Seq(Record) /\ Len(pcb) \in Nat /\ Len(pcb) <= MaxPcbs /\ DOMAIN pcb = 1..Len(pcb)
           /\ DOMAIN pcb \subseteq Numbers
           /\ \A p \in DOMAIN pcb : pcb[p] \in Record
           /\ Lists(Links, Queue)
           /\ Queue \in [QueueName -> Seq(Numbers)]
           /\ \A n \in QueueName : Range(Queue[n]) \subseteq DOMAIN pcb
           /\ "ready" \in QueueName /\ "ready" \in PriorityQueue
<1>1. /\ pcb \in Seq(Record) /\ Len(pcb) <= MaxPcbs /\ Lists(Links, Queue)
      /\ \A n \in QueueName : Range(Queue[n]) \subseteq 1..Len(pcb)
  BY DEF ListInv, Kept
<1>2. Len(pcb) \in Nat /\ DOMAIN pcb = 1..Len(pcb) /\ \A p \in 1..Len(pcb) : pcb[p] \in Record
  BY <1>1, LenProperties, ElementOfSeq
<1>3. Queue \in [QueueName -> Seq(Numbers)]
  BY <1>1 DEF Lists
<1>4. DOMAIN pcb \subseteq Numbers
  BY <1>1, <1>2, NumbersArePointers DEF Numbers
<1>. QED  BY <1>1, <1>2, <1>3, <1>4 DEF QueueName, PriorityQueue

\* The front of the ready queue.
LEMMA FrontOfReady ==
    ASSUME ListInv
    PROVE  /\ front["ready"] = NULL <=> Queue["ready"] = << >>
           /\ front["ready"] # NULL => /\ front["ready"] = Head(Queue["ready"])
                                       /\ front["ready"] \in Range(Queue["ready"])
<1>1. IsList(front["ready"], next, Queue["ready"])
  BY ListFacts DEF Lists, Links
<1>2. front["ready"] = NULL <=> Queue["ready"] = << >>
  BY <1>1, EmptyList
<1>3. ASSUME Queue["ready"] # << >>
      PROVE  front["ready"] = Head(Queue["ready"]) /\ front["ready"] \in Range(Queue["ready"])
  <2>1. Queue["ready"] \in Seq(Numbers) /\ front["ready"] = Queue["ready"][1]
    BY <1>1, <1>3 DEF IsList
  <2>2. Len(Queue["ready"]) \in Nat /\ DOMAIN Queue["ready"] = 1..Len(Queue["ready"])
        /\ Len(Queue["ready"]) # 0
    BY <1>3, <2>1, LenProperties, EmptySeq
  <2>3. 1 \in DOMAIN Queue["ready"]
    BY <2>2
  <2>4. Head(Queue["ready"]) = Queue["ready"][1]
    BY <1>3, <2>1
  <2>. QED  BY <2>1, <2>3, <2>4 DEF Range
<1>. QED  BY <1>2, <1>3

\* New fields for one PCB.
LEMMA KeptWithFields ==
    ASSUME NEW ps, NEW l, NEW qs, NEW mk, Kept(ps, l, qs, mk), NEW p \in 1..Len(ps), NEW rec \in Record
    PROVE  /\ Kept([ps EXCEPT ![p] = rec], l, qs, mk)
           /\ Len([ps EXCEPT ![p] = rec]) = Len(ps)
           /\ [ps EXCEPT ![p] = rec][p] = rec
           /\ \A r \in 1..Len(ps) \ {p} : [ps EXCEPT ![p] = rec][r] = ps[r]
<1>1. ps \in Seq(Record)
  BY DEF Kept
<1>2. Len(ps) \in Nat /\ DOMAIN ps = 1..Len(ps)
  BY <1>1, LenProperties
<1>3. [ps EXCEPT ![p] = rec] \in Seq(Record) /\ Len([ps EXCEPT ![p] = rec]) = Len(ps)
  BY <1>1
<1>4. /\ [ps EXCEPT ![p] = rec][p] = rec
      /\ \A r \in 1..Len(ps) \ {p} : [ps EXCEPT ![p] = rec][r] = ps[r]
  BY <1>2
<1>. QED  BY <1>3, <1>4 DEF Kept

\* The idle process stays ready when it does in the new fields.
LEMMA SysIdleStays ==
    ASSUME ListInv, NEW p \in DOMAIN pcb, NEW rec \in Record,
           p = Sys_i => /\ rec.process_class = pcb[p].process_class
                        /\ rec.execution_state = READY
                        /\ rec.dispatching_state = NOT_SUSPENDED
    PROVE  SysIdleIsReady([pcb EXCEPT ![p] = rec])
<1>1. SysIdleIsReady(pcb)
  BY DEF ListInv, Control
<1>2. /\ Len([pcb EXCEPT ![p] = rec]) = Len(pcb)
      /\ [pcb EXCEPT ![p] = rec][p] = rec
      /\ \A r \in DOMAIN pcb \ {p} : [pcb EXCEPT ![p] = rec][r] = pcb[r]
  BY ListFacts, KeptWithFields DEF ListInv
<1>3. Len(pcb) >= 2 => Sys_i \in DOMAIN pcb
  BY ListFacts DEF Sys_i
<1>. QED  BY <1>1, <1>2, <1>3 DEF SysIdleIsReady

\* Where the idle process is, when it is on a queue.
LEMMA SysIdleIsFiledReady ==
    ASSUME NEW ps, SysIdleIsReady(ps), Len(ps) >= 2
    PROVE  QueueOf(ps[Sys_i]) = "ready"
BY DEF SysIdleIsReady, QueueOf, READY, BLOCKED, NOT_SUSPENDED, SUSPENDED

----------------------------------------------------------------------------
LEMMA GarbageKeepsLists ==
    ASSUME NEW l, NEW qs, Lists(l, qs), NEW p \in Numbers, ~ OnQueue(qs, p), NEW g \in Nat
    PROVE  /\ Lists([l EXCEPT !.next[p] = g], qs)
           /\ \A r \in Numbers : r # p => [l EXCEPT !.next[p] = g].next[r] = l.next[r]
<1>. DEFINE nx == [l.next EXCEPT ![p] = g]
            l2 == [front |-> l.front, next |-> nx]
<1>1. l = [front |-> l.front, next |-> l.next] /\ l.front \in [QueueName -> Numbers \union {NULL}]
      /\ l.next \in [Numbers -> Nat]
  BY DEF Lists, Pointers
<1>2. [l EXCEPT !.next[p] = g] = l2
  BY <1>1
<1>3. nx \in [Numbers -> Nat] /\ \A r \in Numbers : r # p => nx[r] = l.next[r]
  BY <1>1
<1>4. l2 \in Pointers /\ l2.front = l.front /\ l2.next = nx
  BY <1>1, <1>3 DEF Pointers
<1>. HIDE DEF nx, l2
<1>5. ASSUME NEW n \in QueueName PROVE IsList(l2.front[n], l2.next, qs[n])
  <2>1. IsList(l.front[n], l.next, qs[n]) /\ qs[n] \in Seq(Numbers)
    BY DEF Lists
  <2>2. DOMAIN qs[n] = 1..Len(qs[n])
    BY <2>1, LenProperties
  <2>3. \A i \in 1..Len(qs[n]) : qs[n][i] \in Numbers /\ qs[n][i] # p
    BY <2>1, <2>2, ElementOfSeq DEF OnQueue, Range
  <2>. QED  BY <1>3, <1>4, <2>1, <2>3 DEF IsList
<1>6. Lists(l2, qs)
  BY <1>4, <1>5 DEF Lists
<1>. QED  BY <1>2, <1>3, <1>4, <1>6

\* load files a new PCB, whatever its memory held, because the ready queue has not been made
\* or is not empty.
LEMMA LoadKeeps ==
    ASSUME ListInv, NEW class \in {USER_APP, SYSTEM_PROCESS}, NEW priority \in Priority,
           Load(class, priority),
           "ready" \notin made \/ Queue["ready"] # << >>
    PROVE  \E rec \in Record :
              /\ rec.process_class = class
              /\ rec.execution_state = READY /\ rec.dispatching_state = NOT_SUSPENDED
              /\ pcb' = Append(pcb, rec)
              /\ made' = made \union {"ready"}
              /\ Kept(pcb', Links', Queue', made')
              /\ NoNextOffQueues(Links', Queue')
              /\ machine' = machine
              /\ Queue' = Filed(Queue, pcb', Len(pcb) + 1)
              /\ Range(Queue'["ready"]) = Range(Queue["ready"]) \union {Len(pcb) + 1}
              /\ \A r : OnQueue(Queue', r) <=> OnQueue(Queue, r) \/ r = Len(pcb) + 1
<1>. DEFINE p   == Len(pcb) + 1
            rec == [process_class |-> class, process_priority |-> priority,
                    execution_state |-> READY, dispatching_state |-> NOT_SUSPENDED]
            ps  == Append(pcb, rec)
<1>1. p <= MaxPcbs
  BY DEF Load
<1>2. PICK garbage \in {NULL, Wild, Comhand} : File([Links EXCEPT !.next[p] = garbage], ps, p)
  BY DEF Load
<1>. DEFINE l == [Links EXCEPT !.next[p] = garbage]
<1>3. rec \in Record /\ QueueOf(rec) = "ready"
      /\ rec.process_class = class /\ rec.execution_state = READY /\ rec.dispatching_state = NOT_SUSPENDED
  <2>1. rec \in Record
    BY DEF Record, READY, NOT_SUSPENDED
  <2>. QED  BY <2>1, RecordIsFiled
<1>. HIDE DEF rec
<1>4. /\ ps \in Seq(Record) /\ Len(ps) = p /\ ps[p] = rec
      /\ \A r \in 1..Len(pcb) : ps[r] = pcb[r]
  BY <1>3, ListFacts, AppendProperties
<1>. HIDE DEF ps
<1>5. p \in Numbers /\ p \notin DOMAIN pcb /\ p \in 1..Len(ps) /\ 1..Len(pcb) \subseteq 1..Len(ps)
  BY <1>1, <1>4, ListFacts, NumbersArePointers DEF Numbers
<1>6. garbage \in Nat
  BY NumbersArePointers DEF Comhand
<1>7. ~ OnQueue(Queue, p)
  BY <1>5, ListFacts DEF OnQueue
<1>. HIDE DEF p
<1>8. Lists(l, Queue) /\ \A r \in Numbers : r # p => l.next[r] = next[r]
  <2>1. Links.next = next
    BY DEF Links
  <2>. QED  BY <1>5, <1>6, <1>7, <2>1, ListFacts, GarbageKeepsLists
<1>. HIDE DEF l
<1>9. Kept(ps, l, Queue, made)
  BY <1>1, <1>4, <1>5, <1>8 DEF Kept, ListInv
<1>10. Filing(ps, l, Queue, p)
  <2>1. \A r \in Numbers : r # p /\ ~ OnQueue(Queue, r) => l.next[r] = NULL
    BY <1>8 DEF ListInv, NoNextOffQueues, Links
  <2>. QED  BY <1>3, <1>4, <1>5, <1>7, <1>9, <2>1 DEF Filing
<1>11. File(l, ps, p)
  BY <1>2 DEF l
<1>12. /\ pcb' = ps
       /\ Kept(pcb', Links', Queue', made') /\ NoNextOffQueues(Links', Queue')
       /\ machine' = machine /\ Queue' = Filed(Queue, ps, p)
  BY <1>3, <1>4, <1>10, <1>11, FileKeeps, ListFacts
<1>13. made' = made \union {"ready"}
  <2>1. ~ WalksNull(l, "ready")
    BY DEF WalksNull, PriorityQueue
  <2>. QED  BY <1>3, <1>4, <1>11, <2>1 DEF File
<1>14. /\ Range(Queue'["ready"]) = Range(Queue["ready"]) \union {p}
       /\ \A r : OnQueue(Queue', r) <=> OnQueue(Queue, r) \/ r = p
  <2>1. ps[p] \in Record /\ QueueOf(ps[p]) = "ready" /\ "ready" \in QueueName
    BY <1>3, <1>4, ListFacts
  <2>2. Queue \in [QueueName -> Seq(Numbers)]
    BY ListFacts
  <2>3. AddedTo(Filed(Queue, ps, p), Queue, QueueOf(ps[p]), p)
    BY <1>5, <2>1, <2>2, FiledQueues
  <2>. QED  BY <1>12, <2>1, <2>3 DEF AddedTo
<1>. QED  BY <1>3, <1>12, <1>13, <1>14 DEF ps, p

LEMMA SubSeqIsPrefix ==
    ASSUME NEW s \in Seq(Record), NEW t \in Seq(Record), Len(t) = Len(s) + 1,
           \A i \in 1..Len(s) : t[i] = s[i]
    PROVE  SubSeq(t, 1, Len(s)) = s
<1>. DEFINE n == Len(s)
            u == SubSeq(t, 1, n)
<1>1. n \in Nat /\ Len(t) = n + 1 /\ \A i \in 1..(n + 1) : t[i] \in Record
  BY LenProperties, ElementOfSeq
<1>. HIDE DEF n
<1>2. 1 \in Int /\ n \in Int /\ \A i \in 1..n : t[i] \in Record
  BY <1>1
<1>3. /\ u \in Seq(Record)
      /\ Len(u) = IF 1 <= n THEN n - 1 + 1 ELSE 0
      /\ \A i \in 1..(n - 1 + 1) : u[i] = t[1 + i - 1]
  BY <1>2, SubSeqProperties
<1>. HIDE DEF u
<1>4. Len(u) = n /\ \A i \in 1..n : u[i] = t[i]
  <2>1. (IF 1 <= n THEN n - 1 + 1 ELSE 0) = n /\ \A i \in 1..n : 1 + i - 1 = i /\ i \in 1..(n - 1 + 1)
    BY <1>1
  <2>. QED  BY <1>3, <2>1
<1>5. Len(u) = Len(s) /\ \A i \in 1..Len(s) : u[i] = s[i]
  BY <1>4 DEF n
<1>6. u = s
  BY <1>3, <1>5
<1>. QED  BY <1>6 DEF u, n

\* kmain's loads and the command handler's.
LEMMA LoadIsAStep ==
    ASSUME ListInv, NEW class \in {USER_APP, SYSTEM_PROCESS}, NEW priority \in Priority,
           Load(class, priority), running' = running,
           \/ machine = "boot" /\ Len(pcb) < 2 /\ class = SYSTEM_PROCESS
           \/ machine = "on" /\ Sys_i \in Range(Queue["ready"])
    PROVE  ListStep
<1>1. Len(pcb) \in Nat /\ DOMAIN pcb = 1..Len(pcb) /\ "ready" \in QueueName
  BY ListFacts
<1>2. Queue["ready"] \in Seq(Numbers) /\ DOMAIN Queue["ready"] = 1..Len(Queue["ready"])
  BY ListFacts, LenProperties
<1>3. "ready" \notin made \/ Queue["ready"] # << >>
  <2>1. CASE machine = "boot"
    <3>1. "ready" \in made => 1 \in Range(Queue["ready"])
      BY <1>1, <2>1 DEF ListInv, Control
    <3>. QED  BY <3>1, <1>2 DEF Range
  <2>2. CASE machine = "on"
    <3>1. Sys_i \in Range(Queue["ready"])
      BY <2>2
    <3>. QED  BY <3>1, <1>2 DEF Range
  <2>. QED  BY <2>1, <2>2
<1>4. PICK rec \in Record :
              /\ rec.process_class = class
              /\ rec.execution_state = READY /\ rec.dispatching_state = NOT_SUSPENDED
              /\ pcb' = Append(pcb, rec)
              /\ made' = made \union {"ready"}
              /\ Kept(pcb', Links', Queue', made')
              /\ NoNextOffQueues(Links', Queue')
              /\ machine' = machine
              /\ Queue' = Filed(Queue, pcb', Len(pcb) + 1)
              /\ Range(Queue'["ready"]) = Range(Queue["ready"]) \union {Len(pcb) + 1}
              /\ \A r : OnQueue(Queue', r) <=> OnQueue(Queue, r) \/ r = Len(pcb) + 1
  BY <1>3, LoadKeeps
<1>5. /\ Len(pcb') = Len(pcb) + 1
      /\ pcb'[Len(pcb) + 1] = rec
      /\ \A r \in 1..Len(pcb) : pcb'[r] = pcb[r]
  BY <1>4, ListFacts, AppendProperties
<1>6. SubSeq(pcb', 1, Len(pcb)) = pcb
  <2>1. pcb' \in Seq(Record)
    BY <1>4 DEF Kept
  <2>. QED  BY <1>1, <1>5, <2>1, ListFacts, SubSeqIsPrefix
<1>7. Queues!Next
  BY <1>4, <1>5, <1>6, QueuesArrive
<1>8. SysIdleIsReady(pcb')
  <2>1. SysIdleIsReady(pcb) /\ (machine = "on" => Len(pcb) >= 2)
    BY DEF ListInv, Control
  <2>2. CASE Len(pcb) >= 2
    <3>1. Sys_i \in 1..Len(pcb)
      BY <1>1, <2>2 DEF Sys_i
    <3>. QED  BY <1>5, <2>1, <2>2, <3>1 DEF SysIdleIsReady
  <2>3. CASE Len(pcb) = 1
    <3>1. pcb'[Sys_i] = rec /\ class = SYSTEM_PROCESS
      BY <1>5, <2>1, <2>3 DEF Sys_i
    <3>. QED  BY <1>4, <3>1 DEF SysIdleIsReady
  <2>4. CASE Len(pcb) = 0
    BY <1>5, <2>4 DEF SysIdleIsReady
  <2>. QED  BY <1>1, <2>2, <2>3, <2>4
<1>9. Control(pcb', Queue', made', running', machine')
  <2>1. CASE machine = "boot"
    <3>1. running = NULL /\ 1..Len(pcb) \subseteq Range(Queue["ready"]) /\ Len(pcb) < 2
      BY <2>1 DEF ListInv, Control
    <3>2. Len(pcb') <= 2 /\ Len(pcb') > 0 /\ 1..Len(pcb') \subseteq Range(Queue'["ready"])
      BY <1>1, <1>4, <1>5, <3>1
    <3>. QED  BY <1>4, <1>8, <2>1, <3>1, <3>2 DEF Control
  <2>2. CASE machine = "on"
    <3>1. /\ Len(pcb) >= 2 /\ running \in 1..Len(pcb) /\ ~ OnQueue(Queue, running)
      BY <2>2 DEF ListInv, Control
    <3>2. /\ Len(pcb') >= 2 /\ running \in 1..Len(pcb') /\ running # Len(pcb) + 1
      BY <1>1, <1>5, <3>1
    <3>3. ~ OnQueue(Queue', running) /\ Sys_i \in Range(Queue'["ready"])
      BY <1>4, <2>2, <3>1, <3>2
    <3>. QED  BY <1>4, <1>8, <2>2, <3>2, <3>3 DEF Control
  <2>. QED  BY <2>1, <2>2
<1>. QED  BY <1>4, <1>7, <1>9 DEF ListStep, ListInv

\* A command gives a PCB that is on a queue new fields and files it again.
LEMMA RefileIsAStep ==
    ASSUME ListInv, NEW p \in DOMAIN pcb, NEW rec \in Record, CommandOn(p), Refile(p, rec),
           p = Sys_i => /\ rec.process_class = pcb[p].process_class
                        /\ rec.execution_state = READY
                        /\ rec.dispatching_state = NOT_SUSPENDED
    PROVE  ListStep
<1>. DEFINE l  == RemovePcb(Links, p)
            qs == PcbRemove(Queue, p)
            ps == [pcb EXCEPT ![p] = rec]
<1>1. Lists(Links, Queue) /\ p \in 1..Len(pcb) /\ p \in Numbers /\ DOMAIN pcb = 1..Len(pcb)
      /\ Queue \in [QueueName -> Seq(Numbers)] /\ Len(pcb) \in Nat
  BY ListFacts
<1>2. OnQueue(Queue, p)
  BY <1>1, RemoveImplements DEF CommandOn, OnSomeQueue
<1>3. Kept(pcb, l, qs, made) /\ NoNextOffQueues(l, qs)
  BY RemoveKeeps DEF ListInv
<1>4. /\ l.next[p] = NULL
      /\ \A n \in QueueName : Range(qs[n]) = Range(Queue[n]) \ {p}
      /\ \A r : OnQueue(qs, r) <=> OnQueue(Queue, r) /\ r # p
      /\ qs \in [QueueName -> Seq(Numbers)]
  <2>1. l.next[p] = NULL
    BY <1>1, <1>2, RemoveImplements
  <2>2. /\ \A n \in QueueName : Range(qs[n]) = Range(Queue[n]) \ {p}
        /\ \A r : OnQueue(qs, r) <=> OnQueue(Queue, r) /\ r # p
        /\ qs \in [QueueName -> Seq(Numbers)]
    BY <1>1, RemovedQueues
  <2>. QED  BY <2>1, <2>2
<1>. HIDE DEF l, qs
<1>5. /\ Kept(ps, l, qs, made) /\ Len(ps) = Len(pcb) /\ ps[p] = rec
      /\ \A r \in DOMAIN pcb \ {p} : ps[r] = pcb[r]
  <2>1. Kept(ps, l, qs, made)
    BY <1>1, <1>3, KeptWithFields
  <2>2. Len(ps) = Len(pcb) /\ ps[p] = rec /\ \A r \in DOMAIN pcb \ {p} : ps[r] = pcb[r]
    BY ListFacts
  <2>. QED  BY <2>1, <2>2
<1>6. SysIdleIsReady(ps)
  BY SysIdleStays
<1>7. File(l, ps, p)
  BY DEF Refile, l
<1>. HIDE DEF ps
<1>8. Filing(ps, l, qs, p)
  BY <1>1, <1>3, <1>4, <1>5 DEF Filing, NoNextOffQueues
<1>9. /\ pcb' = ps
      /\ Kept(pcb', Links', Queue', made')
      /\ NoNextOffQueues(Links', Queue')
      /\ \/ machine' = machine /\ Queue' = Filed(qs, ps, p)
         \/ machine' = "page_fault" /\ Queue' = qs
  BY <1>7, <1>8, FileKeeps
<1>10. FieldsOf(p)
  BY <1>5, <1>9 DEF FieldsOf
<1>11. machine = "on" /\ running' = running /\ running # p /\ ~ OnQueue(Queue, running)
       /\ Len(pcb) >= 2 /\ running \in 1..Len(pcb) /\ Sys_i \in Range(Queue["ready"])
  <2>1. running # Sys_i
    BY DEF CommandOn, Comhand, Sys_i
  <2>. QED  BY <1>2, <2>1 DEF CommandOn, ListInv, Control
<1>12. CASE machine' = machine /\ Queue' = Filed(qs, ps, p)
  <2>1. Queues!Next
    BY <1>1, <1>2, <1>9, <1>10, <1>12, QueuesRefile DEF qs
  <2>2. /\ \A n \in QueueName : Range(Queue'[n]) =
              IF n = QueueOf(ps[p]) THEN Range(qs[n]) \union {p} ELSE Range(qs[n])
        /\ \A r : OnQueue(Queue', r) <=> OnQueue(qs, r) \/ r = p
    <3>1. AddedTo(Filed(qs, ps, p), qs, QueueOf(ps[p]), p)
      BY <1>1, <1>4, <1>5, FiledQueues
    <3>. QED  BY <1>12, <3>1 DEF AddedTo
  <2>3. Sys_i \in Range(Queue'["ready"])
    <3>1. CASE p = Sys_i
      <4>1. QueueOf(ps[p]) = "ready"
        BY <1>5, <1>6, <1>11, <3>1, SysIdleIsFiledReady
      <4>. QED  BY <2>2, <3>1, <4>1, ListFacts
    <3>2. CASE p # Sys_i
      <4>1. Sys_i \in Range(qs["ready"])
        BY <1>4, <1>11, <3>2, ListFacts
      <4>. QED  BY <2>2, <4>1, ListFacts
    <3>. QED  BY <3>1, <3>2
  <2>4. Control(pcb', Queue', made', running', machine')
    BY <1>4, <1>5, <1>6, <1>9, <1>11, <1>12, <2>2, <2>3 DEF Control
  <2>. QED  BY <1>9, <2>1, <2>4 DEF ListStep, ListInv
<1>13. CASE machine' = "page_fault" /\ Queue' = qs
  <2>1. Queues!Next
    BY <1>1, <1>2, <1>10, <1>13, QueuesLeave DEF qs
  <2>2. Control(pcb', Queue', made', running', machine')
    BY <1>6, <1>9, <1>13 DEF Control
  <2>. QED  BY <1>9, <2>1, <2>2 DEF ListStep, ListInv
<1>. QED  BY <1>9, <1>12, <1>13

\* A PCB leaves its queue, and nothing else changes but who runs.
LEMMA LeaveIsAStep ==
    ASSUME ListInv, NEW p \in DOMAIN pcb, OnQueue(Queue, p),
           SetLinks(RemovePcb(Links, p)), pcb' = pcb, made' = made,
           Control(pcb, PcbRemove(Queue, p), made, running', machine')
    PROVE  ListStep
<1>. DEFINE l  == RemovePcb(Links, p)
            qs == PcbRemove(Queue, p)
<1>1. Kept(pcb, l, qs, made) /\ NoNextOffQueues(l, qs)
  BY RemoveKeeps DEF ListInv
<1>2. Lists(l, qs)
  BY <1>1 DEF Kept
<1>3. front' = l.front /\ next' = l.next
  BY DEF SetLinks
<1>. HIDE DEF l
<1>4. Links' = l /\ Queue' = qs
  BY <1>2, <1>3, QueueIs
<1>5. FieldsOf(p)
  BY DEF FieldsOf
<1>6. Queues!Next
  BY <1>4, <1>5, QueuesLeave, ListFacts
<1>7. Control(pcb', Queue', made', running', machine')
  BY <1>4
<1>8. Kept(pcb', Links', Queue', made') /\ NoNextOffQueues(Links', Queue')
  BY <1>1, <1>4
<1>. QED  BY <1>6, <1>7, <1>8 DEF ListStep, ListInv

\* The links stay, and one PCB's fields may change.
LEMMA ChangeIsAStep ==
    ASSUME ListInv, NEW p \in DOMAIN pcb, NEW rec \in Record, pcb' = [pcb EXCEPT ![p] = rec],
           UNCHANGED <<front, next, made>>,
           Control([pcb EXCEPT ![p] = rec], Queue, made, running', machine')
    PROVE  ListStep
<1>1. Links' = Links /\ Queue' = Queue
  BY DEF Links, Queue
<1>2. /\ Kept(pcb', Links', Queue', made') /\ NoNextOffQueues(Links', Queue')
      /\ FieldsOf(p)
  BY <1>1, KeptWithFields, ListFacts DEF ListInv, FieldsOf
<1>3. Queues!Next
  BY <1>1, <1>2, QueuesChange
<1>4. Control(pcb', Queue', made', running', machine')
  BY <1>1
<1>. QED  BY <1>2, <1>3, <1>4 DEF ListStep, ListInv

----------------------------------------------------------------------------
(***************************************************************************)
(* The actions.                                                            *)
(***************************************************************************)
LEMMA KmainYieldStep ==
    ASSUME ListInv, KmainYield
    PROVE  ListStep
<1>. DEFINE n == front["ready"]
<1>1. /\ DOMAIN pcb = 1..2 /\ Len(pcb) = 2 /\ 1 \in Range(Queue["ready"]) /\ 2 \in Range(Queue["ready"])
      /\ Range(Queue["ready"]) \subseteq 1..2 /\ SysIdleIsReady(pcb)
  BY ListFacts DEF ListInv, Control, KmainYield
<1>2. Queue["ready"] # << >>
  BY <1>1 DEF Range
<1>3. n # NULL /\ n \in Range(Queue["ready"]) /\ n \in DOMAIN pcb /\ OnQueue(Queue, n)
  BY <1>1, <1>2, FrontOfReady, ListFacts DEF OnQueue
<1>4. /\ Range(PcbRemove(Queue, n)["ready"]) = Range(Queue["ready"]) \ {n}
      /\ ~ OnQueue(PcbRemove(Queue, n), n)
  BY ListFacts, RemovedQueues
<1>5. n = Sys_i \/ Sys_i \in Range(PcbRemove(Queue, n)["ready"])
  BY <1>1, <1>4 DEF Sys_i
<1>6. running' = n /\ machine' = "on" /\ SetLinks(RemovePcb(Links, n)) /\ pcb' = pcb /\ made' = made
  BY DEF KmainYield
<1>. HIDE DEF n
<1>7. Control(pcb, PcbRemove(Queue, n), made, running', machine')
  BY <1>1, <1>3, <1>4, <1>5, <1>6 DEF Control
<1>. QED  BY <1>3, <1>6, <1>7, LeaveIsAStep

\* A process gives up the CPU with sys_req(IDLE).
LEMMA SysIdleStep ==
    ASSUME ListInv, SysIdle
    PROVE  ListStep
<1>. DEFINE n   == front["ready"]
            p   == running
            rec == [pcb[p] EXCEPT !.execution_state = READY]
            ps  == [pcb EXCEPT ![p] = rec]
            l   == RemovePcb(Links, n)
            qs  == PcbRemove(Queue, n)
<1>1. /\ machine = "on" /\ Len(pcb) >= 2 /\ p \in DOMAIN pcb /\ ~ OnQueue(Queue, p) /\ p # NULL
      /\ p \in 1..Len(pcb) /\ p \in Numbers
      /\ p = Sys_i \/ Sys_i \in Range(Queue["ready"])
      /\ SysIdleIsReady(pcb)
  BY ListFacts, NumbersArePointers DEF ListInv, Control, SysIdle
<1>2. /\ rec \in Record /\ rec.execution_state = READY
      /\ rec.process_class = pcb[p].process_class /\ rec.dispatching_state = pcb[p].dispatching_state
  <2>1. pcb[p] \in Record
    BY <1>1, ListFacts
  <2>. QED  BY <2>1 DEF Record
<1>3. ps = [pcb EXCEPT ![p].execution_state = READY]
  BY <1>1
<1>. HIDE DEF rec
<1>4. SysIdleIsReady(ps)
  <2>1. p = Sys_i => rec.dispatching_state = NOT_SUSPENDED
    BY <1>1, <1>2 DEF SysIdleIsReady
  <2>. QED  BY <1>1, <1>2, <2>1, SysIdleStays
<1>5. /\ Len(ps) = Len(pcb) /\ ps[p] = rec
      /\ \A r \in DOMAIN pcb \ {p} : ps[r] = pcb[r]
  BY <1>1, ListFacts
<1>6. CASE n = NULL
  <2>1. pcb' = ps /\ machine' = "off" /\ UNCHANGED <<front, next, made, running>>
    BY <1>3, <1>6 DEF SysIdle, Dispatch
  <2>2. Control(ps, Queue, made, running', machine')
    BY <1>4, <2>1 DEF Control
  <2>. QED  BY <1>1, <1>2, <2>1, <2>2, ChangeIsAStep
<1>7. CASE n # NULL
  <2>1. running' = n /\ File(l, ps, p)
    BY <1>1, <1>3, <1>7 DEF SysIdle, Dispatch
  <2>2. n = Head(Queue["ready"]) /\ n \in Range(Queue["ready"]) /\ Queue["ready"] # << >>
        /\ OnQueue(Queue, n) /\ n \in DOMAIN pcb /\ n # p
    BY <1>1, <1>7, FrontOfReady, ListFacts DEF OnQueue
  <2>3. Kept(pcb, l, qs, made) /\ NoNextOffQueues(l, qs)
    BY RemoveKeeps DEF ListInv
  <2>4. /\ \A m \in QueueName : Range(qs[m]) = Range(Queue[m]) \ {n}
        /\ \A r : OnQueue(qs, r) <=> OnQueue(Queue, r) /\ r # n
        /\ qs \in [QueueName -> Seq(Numbers)]
    BY ListFacts, RemovedQueues
  <2>. HIDE DEF l, qs
  <2>5. Kept(ps, l, qs, made)
    BY <1>1, <1>2, <2>3, KeptWithFields
  <2>. HIDE DEF ps
  <2>6. Filing(ps, l, qs, p)
    BY <1>1, <1>5, <2>3, <2>4, <2>5 DEF Filing, NoNextOffQueues
  <2>7. QueueOf(ps[p]) \in PriorityQueue
    BY <1>2, <1>5, RecordIsFiled
  <2>8. /\ pcb' = ps
        /\ Kept(pcb', Links', Queue', made')
        /\ NoNextOffQueues(Links', Queue')
        /\ machine' = machine /\ Queue' = Filed(qs, ps, p)
    BY <2>1, <2>6, <2>7, FileKeeps
  <2>9. FieldsOf(p)
    BY <1>1, <1>5, <2>8 DEF FieldsOf
  <2>10. Queue' = Filed(PcbRemove(Queue, Head(Queue["ready"])), pcb', p)
    BY <2>2, <2>8 DEF qs
  <2>11. Queues!Next
    BY <1>1, <2>2, <2>9, <2>10, QueuesSwitch, ListFacts
  <2>12. /\ Range(Queue'["ready"]) =
               IF "ready" = QueueOf(ps[p]) THEN Range(qs["ready"]) \union {p} ELSE Range(qs["ready"])
         /\ ~ OnQueue(Queue', n)
    <3>1. AddedTo(Filed(qs, ps, p), qs, QueueOf(ps[p]), p)
      BY <1>1, <1>2, <1>5, <2>4, FiledQueues
    <3>2. "ready" \in QueueName /\ ~ OnQueue(qs, n) /\ n # p
      BY <2>2, <2>4, ListFacts
    <3>. HIDE DEF n, p
    <3>. QED  BY <2>8, <3>1, <3>2 DEF AddedTo
  <2>13. n = Sys_i \/ Sys_i \in Range(Queue'["ready"])
    <3>1. CASE p = Sys_i
      <4>1. QueueOf(ps[p]) = "ready"
        BY <1>1, <1>4, <1>5, <3>1, SysIdleIsFiledReady
      <4>. QED  BY <2>12, <3>1, <4>1
    <3>2. CASE p # Sys_i
      BY <1>1, <2>4, <2>12, <3>2, ListFacts
    <3>. QED  BY <3>1, <3>2
  <2>14. Control(pcb', Queue', made', running', machine')
    BY <1>1, <1>4, <1>5, <2>1, <2>2, <2>8, <2>12, <2>13, ListFacts DEF Control
  <2>. QED  BY <2>8, <2>11, <2>14 DEF ListStep, ListInv
<1>. QED  BY <1>6, <1>7

\* A process ends with sys_req(EXIT).
LEMMA SysExitStep ==
    ASSUME ListInv, SysExit
    PROVE  ListStep
<1>. DEFINE n == front["ready"]
<1>1. machine = "on" /\ Len(pcb) >= 2 /\ Sys_i \in Range(Queue["ready"]) /\ SysIdleIsReady(pcb)
  BY DEF ListInv, Control, SysExit
<1>2. Queue["ready"] # << >>
  BY <1>1 DEF Range
<1>3. n # NULL /\ n \in Range(Queue["ready"]) /\ n \in DOMAIN pcb /\ OnQueue(Queue, n)
  BY <1>1, <1>2, FrontOfReady, ListFacts DEF OnQueue
<1>4. /\ Range(PcbRemove(Queue, n)["ready"]) = Range(Queue["ready"]) \ {n}
      /\ ~ OnQueue(PcbRemove(Queue, n), n)
  BY ListFacts, RemovedQueues
<1>5. running' = n /\ SetLinks(RemovePcb(Links, n)) /\ pcb' = pcb /\ made' = made /\ machine' = machine
  BY <1>3 DEF SysExit, Dispatch
<1>6. n \in 1..Len(pcb)
  BY <1>3, ListFacts
<1>. HIDE DEF n
<1>7. Control(pcb, PcbRemove(Queue, n), made, running', machine')
  BY <1>1, <1>4, <1>5, <1>6 DEF Control
<1>. QED  BY <1>3, <1>5, <1>7, LeaveIsAStep

LEMMA DeleteStep ==
    ASSUME ListInv, NEW p \in DOMAIN pcb, Delete(p)
    PROVE  ListStep
<1>1. /\ machine = "on" /\ Len(pcb) >= 2 /\ ~ OnQueue(Queue, running) /\ running \in 1..Len(pcb)
      /\ SysIdleIsReady(pcb) /\ running = Comhand
      /\ running = Sys_i \/ Sys_i \in Range(Queue["ready"])
  BY DEF ListInv, Control, Delete, CommandOn
<1>2. Sys_i \in Range(Queue["ready"]) /\ p # Sys_i
  BY <1>1 DEF Delete, IsUser, SysIdleIsReady, Comhand, Sys_i, USER_APP, SYSTEM_PROCESS
<1>3. OnQueue(Queue, p)
  BY ListFacts, RemoveImplements DEF Delete, CommandOn, OnSomeQueue
<1>4. /\ Range(PcbRemove(Queue, p)["ready"]) = Range(Queue["ready"]) \ {p}
      /\ ~ OnQueue(PcbRemove(Queue, p), running)
  BY <1>1, ListFacts, RemovedQueues
<1>5. SetLinks(RemovePcb(Links, p)) /\ pcb' = pcb /\ made' = made /\ machine' = machine /\ running' = running
  BY DEF Delete, CommandOn
<1>6. Control(pcb, PcbRemove(Queue, p), made, running', machine')
  BY <1>1, <1>2, <1>4, <1>5 DEF Control
<1>. QED  BY <1>3, <1>5, <1>6, LeaveIsAStep

LEMMA SetPriorityStep ==
    ASSUME ListInv, NEW p \in DOMAIN pcb, NEW new \in PrioArgs, SetPriority(p, new)
    PROVE  ListStep
<1>. DEFINE rec == [pcb[p] EXCEPT !.process_priority = new]
<1>1. /\ rec \in Record /\ rec.process_class = pcb[p].process_class
      /\ rec.execution_state = pcb[p].execution_state
      /\ rec.dispatching_state = pcb[p].dispatching_state
  <2>1. pcb[p] \in Record /\ new \in Priority
    BY ListFacts, ListAssumption
  <2>. QED  BY <2>1 DEF Record
<1>2. p = Sys_i => rec.execution_state = READY /\ rec.dispatching_state = NOT_SUSPENDED
  BY <1>1 DEF ListInv, Control, SysIdleIsReady, SetPriority, CommandOn
<1>3. CommandOn(p)
  BY DEF SetPriority
<1>4. CASE pcb[p].execution_state = READY
  <2>1. Refile(p, rec)
    BY <1>4 DEF SetPriority
  <2>. HIDE DEF rec
  <2>. QED  BY <1>1, <1>2, <1>3, <2>1, RefileIsAStep
<1>5. CASE pcb[p].execution_state # READY
  <2>1. pcb' = [pcb EXCEPT ![p] = rec] /\ UNCHANGED <<front, next, made, machine, running>>
    BY <1>5 DEF SetPriority, CommandOn
  <2>. HIDE DEF rec
  <2>2. SysIdleIsReady([pcb EXCEPT ![p] = rec])
    BY <1>1, <1>2, SysIdleStays
  <2>3. Len([pcb EXCEPT ![p] = rec]) = Len(pcb)
    BY <1>1, ListFacts
  <2>4. Control([pcb EXCEPT ![p] = rec], Queue, made, running', machine')
    BY <1>3, <2>1, <2>2, <2>3 DEF ListInv, Control, CommandOn
  <2>. QED  BY <1>1, <2>1, <2>4, ChangeIsAStep
<1>. QED  BY <1>4, <1>5

\* The four commands that change a state field and file the PCB again.
LEMMA StateCommandStep ==
    ASSUME ListInv, NEW p \in DOMAIN pcb, Suspend(p) \/ Resume(p) \/ Block(p) \/ Unblock(p)
    PROVE  ListStep
<1>1. pcb[p] \in Record
  BY ListFacts
<1>2. p = Sys_i => /\ pcb[p].process_class # USER_APP
                   /\ pcb[p].execution_state = READY /\ pcb[p].dispatching_state = NOT_SUSPENDED
  BY DEF ListInv, Control, SysIdleIsReady, Suspend, Resume, Block, Unblock, CommandOn, USER_APP, SYSTEM_PROCESS
<1>3. CommandOn(p)
  BY DEF Suspend, Resume, Block, Unblock
<1>4. CASE Suspend(p)
  <2>. DEFINE rec == [pcb[p] EXCEPT !.dispatching_state = SUSPENDED]
  <2>1. Refile(p, rec) /\ p # Sys_i
    BY <1>2, <1>4 DEF Suspend, IsUser
  <2>2. rec \in Record
    BY <1>1 DEF Record
  <2>. QED  BY <1>3, <2>1, <2>2, RefileIsAStep
<1>5. CASE Block(p)
  <2>. DEFINE rec == [pcb[p] EXCEPT !.execution_state = BLOCKED]
  <2>1. Refile(p, rec) /\ p # Sys_i
    BY <1>2, <1>5 DEF Block, IsUser
  <2>2. rec \in Record
    BY <1>1 DEF Record
  <2>. QED  BY <1>3, <2>1, <2>2, RefileIsAStep
<1>6. CASE Resume(p)
  <2>. DEFINE rec == [pcb[p] EXCEPT !.dispatching_state = NOT_SUSPENDED]
  <2>1. Refile(p, rec)
    BY <1>6 DEF Resume
  <2>2. /\ rec \in Record /\ rec.process_class = pcb[p].process_class
        /\ rec.execution_state = pcb[p].execution_state /\ rec.dispatching_state = NOT_SUSPENDED
    BY <1>1 DEF Record
  <2>. HIDE DEF rec
  <2>. QED  BY <1>2, <1>3, <2>1, <2>2, RefileIsAStep
<1>7. CASE Unblock(p)
  <2>. DEFINE rec == [pcb[p] EXCEPT !.execution_state = READY]
  <2>1. Refile(p, rec)
    BY <1>7 DEF Unblock
  <2>2. /\ rec \in Record /\ rec.process_class = pcb[p].process_class
        /\ rec.execution_state = READY /\ rec.dispatching_state = pcb[p].dispatching_state
    BY <1>1 DEF Record
  <2>. HIDE DEF rec
  <2>. QED  BY <1>2, <1>3, <2>1, <2>2, RefileIsAStep
<1>. QED  BY <1>4, <1>5, <1>6, <1>7

----------------------------------------------------------------------------
(***************************************************************************)
(* The theorems.                                                           *)
(***************************************************************************)
LEMMA ListInvInitially ==
    ASSUME Init
    PROVE  ListInv /\ Queues!Init
<1>. DEFINE none == [n \in QueueName |-> << >>]
<1>1. Links \in Pointers /\ \A n \in QueueName : Links.front[n] = NULL
  BY NumbersArePointers DEF Init, Links, Pointers
<1>2. none \in [QueueName -> Seq(Numbers)] /\ \A n \in QueueName : none[n] = << >> /\ Range(none[n]) = {}
  BY DEF Range
<1>3. \A n \in QueueName : IsList(Links.front[n], Links.next, none[n])
  <2>. TAKE n \in QueueName
  <2>1. none[n] \in Seq(Numbers) /\ Len(none[n]) = 0 /\ IsInjective(none[n])
    BY DEF IsInjective
  <2>. QED  BY <1>1, <1>2, <2>1 DEF IsList
<1>4. Lists(Links, none)
  BY <1>1, <1>2, <1>3 DEF Lists
<1>5. Queue = none
  BY <1>4, QueueIs DEF Links
<1>6. Kept(pcb, Links, Queue, made)
  <2>1. pcb \in Seq(Record) /\ Len(pcb) = 0 /\ made = {}
    BY DEF Init
  <2>. QED  BY <1>2, <1>4, <1>5, <2>1, NumbersArePointers DEF Kept
<1>7. NoNextOffQueues(Links, Queue)
  BY DEF NoNextOffQueues, Links, Init
<1>8. Control(pcb, Queue, made, running, machine)
  BY DEF Control, SysIdleIsReady, Init
<1>9. Queues!Init
  BY <1>5, QueuesInit DEF Init
<1>. QED  BY <1>6, <1>7, <1>8, <1>9 DEF ListInv

LEMMA ListInvKept ==
    ASSUME ListInv, [Next]_vars
    PROVE  ListStep
<1>1. CASE KmainLoad
  <2>1. PICK priority \in Priority : Load(SYSTEM_PROCESS, priority)
    BY <1>1 DEF KmainLoad, Priority
  <2>. QED  BY <1>1, <2>1, LoadIsAStep DEF KmainLoad
<1>2. CASE KmainYield
  BY <1>2, KmainYieldStep
<1>3. CASE SysIdle
  BY <1>3, SysIdleStep
<1>4. CASE SysExit
  BY <1>4, SysExitStep
<1>5. CASE LoadUser
  <2>1. Sys_i \in Range(Queue["ready"])
    BY <1>5 DEF LoadUser, ListInv, Control, Comhand, Sys_i
  <2>. QED  BY <1>5, <2>1, ListAssumption, LoadIsAStep DEF LoadUser
<1>6. ASSUME NEW p \in DOMAIN pcb,
             \/ Delete(p)
             \/ Suspend(p) \/ Resume(p) \/ Block(p) \/ Unblock(p)
             \/ \E new \in PrioArgs : SetPriority(p, new)
      PROVE  ListStep
  BY <1>6, DeleteStep, StateCommandStep, SetPriorityStep
<1>7. CASE Stopped \/ UNCHANGED vars
  <2>1. /\ Links' = Links /\ Queue' = Queue
        /\ UNCHANGED <<pcb, made, running, machine>>
    BY <1>7 DEF Stopped, vars, Links, Queue
  <2>. QED  BY <2>1 DEF ListStep, ListInv
<1>. QED  BY <1>1, <1>2, <1>3, <1>4, <1>5, <1>6, <1>7 DEF Next

\* The front and next pointers of the queues always make up four lists that have no PCB in
\* common, of PCBs that have been loaded, and the idle process is on the ready queue or runs.
THEOREM QueuesAreLists == Spec => []ListInv
<1>1. Init => ListInv
  BY ListInvInitially
<1>2. ListInv /\ [Next]_vars => ListInv'
  BY ListInvKept DEF ListStep
<1>. QED  BY <1>1, <1>2, PTL DEF Spec

\* A PCB that is on no queue has a NULL next, so that pcb_insert, which does not write next
\* when it files a PCB in an empty priority queue, still ends the list there.
THEOREM OffTheQueuesNextIsNull == Spec => []UnqueuedHasNoNext
<1>1. ListInv => UnqueuedHasNoNext
  <2>. SUFFICES ASSUME ListInv, NEW p \in DOMAIN pcb, ~ OnSomeQueue(p) PROVE next[p] = NULL
    BY DEF UnqueuedHasNoNext
  <2>1. Lists(Links, Queue) /\ p \in Numbers
    BY ListFacts
  <2>2. ~ OnQueue(Queue, p)
    BY <2>1, RemoveImplements DEF OnSomeQueue
  <2>. QED  BY <2>1, <2>2 DEF ListInv, NoNextOffQueues, Links
<1>. QED  BY <1>1, QueuesAreLists, PTL

\* The pointers of pcb.c implement the queues: every call inserts into, and removes from,
\* the lists as PcbQueues does with sequences, and never anything else.
THEOREM PointersImplementQueues == Spec => ImplementsQueues
<1>1. Init => Queues!Init
  BY ListInvInitially
<1>2. ListInv /\ [Next]_vars => [Queues!Next]_<<pcb, Queue>>
  BY ListInvKept DEF ListStep
<1>3. Spec => Queues!Init /\ [][Queues!Next]_<<pcb, Queue>>
  BY <1>1, <1>2, QueuesAreLists, PTL DEF Spec
<1>. QED  BY <1>3, PTL DEF ImplementsQueues, Queues!Spec, Queue
=============================================================================
