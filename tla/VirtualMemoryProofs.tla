------------------------ MODULE VirtualMemoryProofs ------------------------
(***************************************************************************)
(* Proofs about VirtualMemory, for pages of any length, any memory, image  *)
(* and heap: what vm_init builds maps the memory in use to itself and the  *)
(* heap to frames of its own, and an image that fits comes up.             *)
(***************************************************************************)
EXTENDS VirtualMemory, FiniteSetTheorems, TLAPS

----------------------------------------------------------------------------
(***************************************************************************)
(* Division by the length of a page.                                       *)
(***************************************************************************)
LEMMA DivMod ==
    ASSUME NEW a \in Nat, NEW n \in Nat \ {0}
    PROVE  /\ a \div n \in Nat /\ a % n \in 0..(n - 1)
           /\ a = (a \div n) * n + (a % n)
OBVIOUS

LEMMA DivModOf ==
    ASSUME NEW q \in Nat, NEW n \in Nat \ {0}, NEW r \in 0..(n - 1)
    PROVE  (q * n + r) \div n = q /\ (q * n + r) % n = r
OBVIOUS

LEMMA OneQuotient ==
    ASSUME NEW n \in Nat \ {0}, NEW q \in Nat, NEW s \in Nat,
           NEW r \in 0..(n - 1), NEW t \in 0..(n - 1), q * n + r = s * n + t
    PROVE  q = s /\ r = t
OBVIOUS

LEMMA MultiplesApart ==
    ASSUME NEW n \in Nat \ {0}, NEW q \in Nat, NEW r \in Nat
    PROVE  /\ q < r => q * n + n <= r * n
           /\ q * n < r * n <=> q < r
           /\ q * n <= r * n <=> q <= r
           /\ q * n = r * n <=> q = r
OBVIOUS

LEMMA MultipleDivided ==
    ASSUME NEW n \in Nat \ {0}, NEW q \in Nat
    PROVE  (q * n) \div n = q /\ (q * n) % n = 0 /\ q * n \in Nat
<1>1. 0 \in 0..(n - 1) /\ q * n + 0 = q * n /\ q * n \in Nat
  OBVIOUS
<1>. QED  BY <1>1, DivModOf

LEMMA PagesOf ==
    /\ PAGE_SIZE \in Nat \ {0}
    /\ \A v \in Nat : /\ v \div PAGE_SIZE \in Nat /\ v % PAGE_SIZE \in Index
                      /\ v = (v \div PAGE_SIZE) * PAGE_SIZE + (v % PAGE_SIZE)
    /\ \A v \in Page : v \in Nat /\ v \div PAGE_SIZE \in Index
<1>1. PAGE_SIZE \in Nat \ {0}
  BY MemoryAssumption
<1>2. ASSUME NEW v \in Nat
      PROVE  /\ v \div PAGE_SIZE \in Nat /\ v % PAGE_SIZE \in Index
             /\ v = (v \div PAGE_SIZE) * PAGE_SIZE + (v % PAGE_SIZE)
  BY <1>1, DivMod DEF Index
<1>3. ASSUME NEW v \in Page
      PROVE  v \in Nat /\ v \div PAGE_SIZE \in Index
  <2>1. v \in Nat /\ v < PAGE_SIZE * PAGE_SIZE
    BY <1>1 DEF Page
  <2>. DEFINE q == v \div PAGE_SIZE
  <2>2. q \in Nat /\ v % PAGE_SIZE \in Nat /\ v = q * PAGE_SIZE + (v % PAGE_SIZE)
    BY <1>1, <1>2, <2>1 DEF Index
  <2>. HIDE DEF q
  <2>3. q * PAGE_SIZE <= v
    BY <1>1, <2>1, <2>2
  <2>4. q * PAGE_SIZE < PAGE_SIZE * PAGE_SIZE
    <3>1. q * PAGE_SIZE \in Nat /\ PAGE_SIZE * PAGE_SIZE \in Nat
      BY <1>1, <2>2
    <3>. QED  BY <2>1, <2>3, <3>1
  <2>5. q < PAGE_SIZE
    BY <1>1, <2>2, <2>4, MultiplesApart
  <2>. QED  BY <1>1, <2>1, <2>2, <2>5 DEF q, Index
<1>. QED  BY <1>1, <1>2, <1>3

----------------------------------------------------------------------------
(***************************************************************************)
(* The heap, in pages.                                                     *)
(***************************************************************************)
HeapPage   == KHEAP_BASE \div PAGE_SIZE
HeapLength == KHEAP_SIZE \div PAGE_SIZE
HeapEnd    == KHEAP_BASE + KHEAP_SIZE

LEMMA TheHeap ==
    /\ HeapPage \in Nat /\ HeapLength \in Nat /\ NFRAMES \in Nat /\ Slack \in Nat
    /\ KHEAP_BASE \in Nat /\ KHEAP_SIZE \in Nat /\ HeapEnd \in Nat
    /\ KHEAP_BASE = HeapPage * PAGE_SIZE /\ HeapEnd = (HeapPage + HeapLength) * PAGE_SIZE
    /\ NFRAMES <= HeapPage
    /\ HeapPage + HeapLength < PAGE_SIZE * PAGE_SIZE
    /\ HeapPages = HeapPage..(HeapPage + HeapLength - 1)
<1>1. /\ PAGE_SIZE \in Nat \ {0} /\ NFRAMES \in Nat /\ Slack \in Nat
      /\ KHEAP_BASE \in Nat /\ KHEAP_BASE % PAGE_SIZE = 0
      /\ KHEAP_SIZE \in Nat /\ KHEAP_SIZE % PAGE_SIZE = 0
      /\ NFRAMES * PAGE_SIZE <= KHEAP_BASE
      /\ KHEAP_BASE + KHEAP_SIZE < PAGE_SIZE * PAGE_SIZE * PAGE_SIZE
  BY MemoryAssumption
<1>2. HeapPage \in Nat /\ KHEAP_BASE = HeapPage * PAGE_SIZE
  BY <1>1, DivMod DEF HeapPage
<1>3. HeapLength \in Nat /\ KHEAP_SIZE = HeapLength * PAGE_SIZE
  BY <1>1, DivMod DEF HeapLength
<1>4. HeapEnd \in Nat /\ HeapEnd = (HeapPage + HeapLength) * PAGE_SIZE
  BY <1>1, <1>2, <1>3 DEF HeapEnd
<1>5. NFRAMES <= HeapPage
  BY <1>1, <1>2, MultiplesApart
<1>6. HeapPage + HeapLength < PAGE_SIZE * PAGE_SIZE
  <2>1. HeapPage + HeapLength \in Nat /\ PAGE_SIZE * PAGE_SIZE \in Nat
    BY <1>1, <1>2, <1>3
  <2>2. (HeapPage + HeapLength) * PAGE_SIZE < (PAGE_SIZE * PAGE_SIZE) * PAGE_SIZE
    BY <1>1, <1>4 DEF HeapEnd
  <2>. QED  BY <1>1, <2>1, <2>2, MultiplesApart
<1>7. HeapPages = HeapPage..(HeapPage + HeapLength - 1)
  <2>1. \A v \in Nat : /\ v * PAGE_SIZE >= KHEAP_BASE <=> v >= HeapPage
                       /\ v * PAGE_SIZE < KHEAP_BASE + KHEAP_SIZE <=> v < HeapPage + HeapLength
    <3>. TAKE v \in Nat
    <3>1. HeapPage * PAGE_SIZE <= v * PAGE_SIZE <=> HeapPage <= v
      BY <1>1, <1>2, MultiplesApart
    <3>2. v * PAGE_SIZE < (HeapPage + HeapLength) * PAGE_SIZE <=> v < HeapPage + HeapLength
      BY <1>1, <1>2, <1>3, MultiplesApart
    <3>3. v * PAGE_SIZE \in Nat
      BY <1>1
    <3>. QED  BY <1>1, <1>2, <1>4, <3>1, <3>2, <3>3 DEF HeapEnd
  <2>2. \A v : v \in Page <=> v \in Nat /\ v < PAGE_SIZE * PAGE_SIZE
    BY <1>1 DEF Page
  <2>3. PAGE_SIZE * PAGE_SIZE \in Nat
    BY <1>1
  <2>4. \A v : v \in HeapPages <=> v \in Nat /\ v >= HeapPage /\ v < HeapPage + HeapLength
    BY <1>2, <1>3, <1>6, <2>1, <2>2, <2>3 DEF HeapPages
  <2>5. \A v : v \in HeapPages <=> v \in HeapPage..(HeapPage + HeapLength - 1)
    BY <1>2, <1>3, <2>4
  <2>6. HeapPages \subseteq Int /\ HeapPage..(HeapPage + HeapLength - 1) \subseteq Int
    BY <2>5
  <2>. QED  BY <2>5, <2>6, Zenon
<1>. QED  BY <1>1, <1>2, <1>3, <1>4, <1>5, <1>6, <1>7

----------------------------------------------------------------------------
(***************************************************************************)
(* The tables.                                                             *)
(***************************************************************************)
Made(tabs) == {k \in Index : tabs[k] # NULL}

\* The tables tabs lie behind the directory kd and in front of addr, each at the beginning of
\* a page and none in another one.
TablesOK(tabs, addr, kd) ==
    /\ tabs \in [Index -> Nat]
    /\ \A k \in Made(tabs) : /\ kd + 2 * PAGE_SIZE <= tabs[k]
                             /\ tabs[k] + PAGE_SIZE <= addr
                             /\ tabs[k] % PAGE_SIZE = 0
    /\ \A k, l \in Made(tabs) : tabs[k] = tabs[l] => k = l

\* What is allocated: the image's pages, one that the alignment skips, the directory's two,
\* and for each table two.
Ceil(a)     == (a + PAGE_SIZE - 1) \div PAGE_SIZE
Parts(tabs) == Ceil(__end) + 3 + 2 * Cardinality(Made(tabs))

InSize(tabs, addr) == addr <= Parts(tabs) * PAGE_SIZE

LEMMA CeilIsEnough ==
    ASSUME NEW a \in Nat
    PROVE  Ceil(a) \in Nat /\ a <= Ceil(a) * PAGE_SIZE
<1>. DEFINE b == a + PAGE_SIZE - 1
            q == b \div PAGE_SIZE
            r == b % PAGE_SIZE
<1>1. PAGE_SIZE \in Nat \ {0} /\ b \in Nat
  BY PagesOf
<1>2. q \in Nat /\ r \in 0..(PAGE_SIZE - 1) /\ b = q * PAGE_SIZE + r
  BY <1>1, DivMod
<1>. HIDE DEF q, r
<1>3. q * PAGE_SIZE \in Nat
  BY <1>1, <1>2
<1>4. a <= q * PAGE_SIZE
  BY <1>1, <1>2, <1>3
<1>. QED  BY <1>2, <1>4 DEF Ceil, q

\* An address that is aligned.
LEMMA AlignedAddress ==
    ASSUME NEW a \in Nat, a >= PAGE_SIZE
    PROVE  /\ PageAligned(a) \in Nat
           /\ a < PageAligned(a) /\ PageAligned(a) <= a + PAGE_SIZE
           /\ PageAligned(a) % PAGE_SIZE = 0
           /\ \A n \in Nat : a <= n * PAGE_SIZE => PageAligned(a) <= (n + 1) * PAGE_SIZE
<1>. DEFINE q == a \div PAGE_SIZE
            r == a % PAGE_SIZE
<1>1. PAGE_SIZE \in Nat \ {0}
  BY PagesOf
<1>2. q \in Nat /\ r \in 0..(PAGE_SIZE - 1) /\ a = q * PAGE_SIZE + r
  BY <1>1, DivMod
<1>3. PageAligned(a) = (q + 1) * PAGE_SIZE
  BY DEF PageAligned, NextPage
<1>. HIDE DEF q, r
<1>4. (q + 1) * PAGE_SIZE \in Nat /\ (q + 1) * PAGE_SIZE = q * PAGE_SIZE + PAGE_SIZE
      /\ q * PAGE_SIZE \in Nat
  BY <1>1, <1>2
<1>5. a < (q + 1) * PAGE_SIZE /\ (q + 1) * PAGE_SIZE <= a + PAGE_SIZE
  BY <1>1, <1>2, <1>4
<1>6. ((q + 1) * PAGE_SIZE) % PAGE_SIZE = 0
  BY <1>1, <1>2, MultipleDivided
<1>7. ASSUME NEW n \in Nat, a <= n * PAGE_SIZE
      PROVE  (q + 1) * PAGE_SIZE <= (n + 1) * PAGE_SIZE
  <2>1. q * PAGE_SIZE <= n * PAGE_SIZE
    <3>1. n * PAGE_SIZE \in Nat
      BY <1>1
    <3>. QED  BY <1>2, <1>4, <1>7, <3>1
  <2>2. q <= n
    BY <1>1, <1>2, <2>1, MultiplesApart
  <2>. QED  BY <1>1, <1>2, <2>2, MultiplesApart
<1>. QED  BY <1>3, <1>4, <1>5, <1>6, <1>7

LEMMA MadeIsFinite ==
    ASSUME NEW tabs
    PROVE  IsFiniteSet(Made(tabs)) /\ Cardinality(Made(tabs)) \in Nat
<1>1. IsFiniteSet(Index)
  <2>1. 0 \in Int /\ PAGE_SIZE - 1 \in Int
    BY PagesOf
  <2>. QED  BY <2>1, FS_Interval DEF Index
<1>2. Made(tabs) \in SUBSET Index
  BY DEF Made
<1>. QED  BY <1>1, <1>2, FS_Subset, FS_CardinalityType

\* What get_page does to the tables.
Grown(tabs, addr, kd, index, tabs2, addr2) ==
    /\ TablesOK(tabs2, addr2, kd)
    /\ addr2 \in Nat /\ addr <= addr2
    /\ InSize(tabs2, addr2)
    /\ tabs2[index] # NULL
    /\ \A k \in Index : tabs[k] # NULL => tabs2[k] = tabs[k]
    /\ tabs[index] # NULL => tabs2 = tabs /\ addr2 = addr

LEMMA GetPageGrows ==
    ASSUME NEW tabs, NEW addr \in Nat, NEW kd \in Nat, TablesOK(tabs, addr, kd), InSize(tabs, addr),
           PAGE_SIZE <= addr, kd + 2 * PAGE_SIZE <= addr, __end \in Nat,
           NEW a, TableIndex(a) \in Index
    PROVE  LET m == get_page([addr |-> addr, tables |-> tabs], a)
           IN  Grown(tabs, addr, kd, TableIndex(a), m.tables, m.addr)
<1>. DEFINE index == TableIndex(a)
            table == PageAligned(addr)
            m     == get_page([addr |-> addr, tables |-> tabs], a)
            tabs2 == [tabs EXCEPT ![index] = table]
            addr2 == table + PAGE_SIZE
<1>1. PAGE_SIZE \in Nat \ {0} /\ tabs \in [Index -> Nat] /\ index \in Index
  BY PagesOf DEF TablesOK
<1>2. /\ table \in Nat /\ addr < table /\ table <= addr + PAGE_SIZE /\ table % PAGE_SIZE = 0
      /\ \A n \in Nat : addr <= n * PAGE_SIZE => table <= (n + 1) * PAGE_SIZE
  BY AlignedAddress
<1>3. CASE tabs[index] # NULL
  <2>1. m = [addr |-> addr, tables |-> tabs]
    BY <1>3 DEF get_page
  <2>2. m.addr = addr /\ m.tables = tabs
    BY <2>1
  <2>. HIDE DEF index, m
  <2>3. Grown(tabs, addr, kd, index, tabs, addr)
    BY <1>3 DEF Grown
  <2>. QED  BY <2>2, <2>3 DEF index, m
<1>4. CASE tabs[index] = NULL
  <2>1. m = [addr |-> addr2, tables |-> tabs2]
    BY <1>4 DEF get_page
  <2>2. m.addr = addr2 /\ m.tables = tabs2
    <3>. HIDE DEF m, addr2, tabs2
    <3>. QED  BY <2>1
  <2>. HIDE DEF index, m, table
  <2>3. /\ tabs2 \in [Index -> Nat] /\ tabs2[index] = table
        /\ \A k \in Index : k # index => tabs2[k] = tabs[k]
    BY <1>1, <1>2
  <2>. HIDE DEF tabs2
  <2>4. table # NULL /\ addr2 \in Nat /\ addr < addr2 /\ kd + 2 * PAGE_SIZE <= table
    BY <1>1, <1>2 DEF NULL
  <2>5. Made(tabs2) = Made(tabs) \union {index} /\ index \notin Made(tabs)
    BY <1>1, <1>4, <2>3, <2>4 DEF Made
  <2>6. \A k \in Made(tabs) : k \in Index /\ k # index /\ tabs2[k] = tabs[k] /\ tabs[k] \in Nat
    BY <1>1, <2>3, <2>5 DEF Made
  <2>7. TablesOK(tabs2, addr2, kd)
    <3>1. ASSUME NEW k \in Made(tabs)
          PROVE  /\ kd + 2 * PAGE_SIZE <= tabs2[k] /\ tabs2[k] + PAGE_SIZE <= addr2
                 /\ tabs2[k] % PAGE_SIZE = 0 /\ tabs2[k] # table
      <4>1. tabs2[k] \in Nat /\ tabs2[k] = tabs[k]
        BY <2>6
      <4>2. kd + 2 * PAGE_SIZE <= tabs[k] /\ tabs[k] + PAGE_SIZE <= addr /\ tabs[k] % PAGE_SIZE = 0
        BY DEF TablesOK
      <4>. HIDE DEF addr2
      <4>. QED  BY <1>1, <1>2, <2>4, <4>1, <4>2
    <3>2. \A k \in Made(tabs2) : /\ kd + 2 * PAGE_SIZE <= tabs2[k] /\ tabs2[k] + PAGE_SIZE <= addr2
                                 /\ tabs2[k] % PAGE_SIZE = 0
      BY <1>1, <1>2, <2>3, <2>4, <2>5, <3>1
    <3>3. \A k, l \in Made(tabs2) : tabs2[k] = tabs2[l] => k = l
      BY <2>3, <2>5, <2>6, <3>1 DEF TablesOK
    <3>. QED  BY <2>3, <3>2, <3>3 DEF TablesOK
  <2>8. InSize(tabs2, addr2)
    <3>1. /\ Cardinality(Made(tabs)) \in Nat /\ Cardinality(Made(tabs2)) = Cardinality(Made(tabs)) + 1
      BY <2>5, MadeIsFinite, FS_AddElement
    <3>2. Ceil(__end) \in Nat
      BY CeilIsEnough
    <3>. DEFINE n == Parts(tabs)
    <3>3. n \in Nat /\ Parts(tabs2) = n + 2
      BY <3>1, <3>2 DEF Parts
    <3>. HIDE DEF n
    <3>4. table <= (n + 1) * PAGE_SIZE
      BY <1>2, <3>3 DEF InSize, n
    <3>5. (n + 2) * PAGE_SIZE = (n + 1) * PAGE_SIZE + PAGE_SIZE /\ (n + 1) * PAGE_SIZE \in Nat
      BY <1>1, <3>3
    <3>6. addr2 <= (n + 2) * PAGE_SIZE
      BY <1>1, <1>2, <3>4, <3>5
    <3>. QED  BY <3>3, <3>6 DEF InSize
  <2>9. Grown(tabs, addr, kd, index, tabs2, addr2)
    <3>. HIDE DEF addr2
    <3>. QED  BY <1>4, <2>3, <2>4, <2>7, <2>8 DEF Grown
  <2>. QED  BY <2>2, <2>9 DEF index, m
<1>. QED  BY <1>3, <1>4

----------------------------------------------------------------------------
(***************************************************************************)
(* The entries.  The pages that have been mapped are the first lo pages    *)
(* and the first hi of the heap, and they have the frames in that order.   *)
(***************************************************************************)
Slot(tabs, v)  == tabs[v \div PAGE_SIZE] + (v % PAGE_SIZE)
Done(lo, hi)   == (0..(lo - 1)) \union (HeapPage..(HeapPage + hi - 1))
FrameOf(lo, v) == IF v < lo THEN v ELSE lo + (v - HeapPage)
Present(f)     == [present |-> TRUE, frameaddr |-> f]

\* The entries mm name the frames of the pages, except for the pages that were cleared.
Maps(tabs, mm, lo, hi, cleared) ==
    /\ \A v \in Done(lo, hi) :
          /\ tabs[v \div PAGE_SIZE] # NULL
          /\ Slot(tabs, v) \in DOMAIN mm
          /\ mm[Slot(tabs, v)] = IF v \in cleared THEN Zero ELSE Present(FrameOf(lo, v))
    /\ \A a \in DOMAIN mm : \E v \in Done(lo, hi) : a = Slot(tabs, v)

LEMMA EntryIsSlot ==
    ASSUME NEW tabs, NEW v \in Nat
    PROVE  TableIndex(v * PAGE_SIZE) = v \div PAGE_SIZE /\ EntryAt(tabs, v * PAGE_SIZE) = Slot(tabs, v)
BY PagesOf, MultipleDivided DEF TableIndex, EntryAt, Slot

\* The pages are those of the processor, and the first ones are not the heap's.
LEMMA DonePages ==
    ASSUME NEW lo \in Nat, NEW hi \in Nat, lo <= NFRAMES, hi <= HeapLength
    PROVE  /\ Done(lo, hi) \subseteq Page
           /\ Done(lo, hi) \subseteq Nat
           /\ \A v \in Done(lo, hi) : v < lo \/ (HeapPage <= v /\ v < HeapPage + hi /\ lo <= v)
<1>1. /\ HeapPage \in Nat /\ HeapLength \in Nat /\ lo <= HeapPage
      /\ HeapPage + HeapLength < PAGE_SIZE * PAGE_SIZE /\ PAGE_SIZE * PAGE_SIZE \in Nat
  BY TheHeap, PagesOf
<1>2. ASSUME NEW v \in Done(lo, hi)
      PROVE  v \in Page /\ v \in Nat /\ (v < lo \/ (HeapPage <= v /\ v < HeapPage + hi /\ lo <= v))
  BY <1>1 DEF Done, Page
<1>. QED  BY <1>2

\* Two pages whose tables exist have entries of their own.
LEMMA SlotsApart ==
    ASSUME NEW tabs, NEW addr, NEW kd, TablesOK(tabs, addr, kd), NEW v \in Page, NEW w \in Page,
           tabs[v \div PAGE_SIZE] # NULL, tabs[w \div PAGE_SIZE] # NULL, Slot(tabs, v) = Slot(tabs, w)
    PROVE  v = w
<1>. DEFINE k == v \div PAGE_SIZE
            l == w \div PAGE_SIZE
            r == v % PAGE_SIZE
            t == w % PAGE_SIZE
<1>1. /\ PAGE_SIZE \in Nat \ {0} /\ k \in Index /\ l \in Index
      /\ k \in Nat /\ l \in Nat
      /\ r \in 0..(PAGE_SIZE - 1) /\ t \in 0..(PAGE_SIZE - 1)
      /\ v = k * PAGE_SIZE + r /\ w = l * PAGE_SIZE + t
  BY PagesOf DEF Index
<1>2. tabs[k] # NULL /\ tabs[l] # NULL /\ tabs[k] + r = tabs[l] + t
  BY DEF Slot
<1>. HIDE DEF k, l, r, t
<1>3. k \in Made(tabs) /\ l \in Made(tabs)
  BY <1>1, <1>2 DEF Made
<1>4. tabs[k] \in Nat /\ tabs[l] \in Nat /\ tabs[k] % PAGE_SIZE = 0 /\ tabs[l] % PAGE_SIZE = 0
  BY <1>1, <1>3 DEF TablesOK
<1>0. \A a \in Nat : a % PAGE_SIZE = 0 => \E q \in Nat : a = q * PAGE_SIZE
  <2>. TAKE a \in Nat
  <2>1. a \div PAGE_SIZE \in Nat /\ a = (a \div PAGE_SIZE) * PAGE_SIZE + (a % PAGE_SIZE)
    BY PagesOf
  <2>2. (a \div PAGE_SIZE) * PAGE_SIZE \in Nat
    BY <2>1, PagesOf
  <2>. QED  BY <2>1, <2>2
<1>5. PICK x \in Nat : tabs[k] = x * PAGE_SIZE
  BY <1>0, <1>4
<1>6. PICK y \in Nat : tabs[l] = y * PAGE_SIZE
  BY <1>0, <1>4
<1>7. x = y /\ r = t
  <2>1. x * PAGE_SIZE + r = y * PAGE_SIZE + t
    BY <1>2, <1>5, <1>6
  <2>. QED  BY <1>1, <2>1, OneQuotient
<1>8. k = l
  BY <1>3, <1>5, <1>6, <1>7 DEF TablesOK
<1>. QED  BY <1>1, <1>7, <1>8

\* Mapping one page more, with tables that may have been made for it.
LEMMA MapsOneMore ==
    ASSUME NEW tabs, NEW tabs2, NEW addr2, NEW kd, TablesOK(tabs2, addr2, kd),
           \A k \in Index : tabs[k] # NULL => tabs2[k] = tabs[k],
           NEW lo \in Nat, NEW hi \in Nat, NEW lo2 \in Nat, NEW hi2 \in Nat,
           Maps(tabs, mem, lo, hi, {}), Done(lo, hi) \subseteq Page,
           NEW v \in Page, v \notin Done(lo, hi), tabs2[v \div PAGE_SIZE] # NULL,
           Done(lo2, hi2) = Done(lo, hi) \union {v},
           \A w \in Done(lo, hi) : FrameOf(lo2, w) = FrameOf(lo, w)
    PROVE  /\ Slot(tabs2, v) \notin DOMAIN mem
           /\ Maps(tabs2, Write(Slot(tabs2, v), Present(FrameOf(lo2, v))), lo2, hi2, {})
<1>. DEFINE mm == Write(Slot(tabs2, v), Present(FrameOf(lo2, v)))
<1>1. \A w \in Done(lo, hi) : /\ tabs2[w \div PAGE_SIZE] # NULL
                              /\ Slot(tabs2, w) = Slot(tabs, w)
                              /\ Slot(tabs2, w) \in DOMAIN mem
                              /\ mem[Slot(tabs2, w)] = Present(FrameOf(lo, w))
  <2>. TAKE w \in Done(lo, hi)
  <2>1. /\ tabs[w \div PAGE_SIZE] # NULL /\ Slot(tabs, w) \in DOMAIN mem
        /\ mem[Slot(tabs, w)] = Present(FrameOf(lo, w))
    BY DEF Maps
  <2>2. w \div PAGE_SIZE \in Index
    BY PagesOf
  <2>3. tabs2[w \div PAGE_SIZE] = tabs[w \div PAGE_SIZE]
    BY <2>1, <2>2
  <2>. QED  BY <2>1, <2>3 DEF Slot
<1>2. \A w \in Done(lo, hi) : Slot(tabs2, w) # Slot(tabs2, v)
  BY <1>1, SlotsApart
<1>3. \A a \in DOMAIN mem : \E w \in Done(lo, hi) : a = Slot(tabs2, w)
  BY <1>1 DEF Maps
<1>4. Slot(tabs2, v) \notin DOMAIN mem
  BY <1>2, <1>3
<1>5. /\ DOMAIN mm = DOMAIN mem \union {Slot(tabs2, v)}
      /\ mm[Slot(tabs2, v)] = Present(FrameOf(lo2, v))
      /\ \A a \in DOMAIN mem : a # Slot(tabs2, v) => mm[a] = mem[a]
  BY DEF Write
<1>. HIDE DEF mm
<1>6. \A w \in Done(lo2, hi2) : /\ tabs2[w \div PAGE_SIZE] # NULL
                                /\ Slot(tabs2, w) \in DOMAIN mm
                                /\ mm[Slot(tabs2, w)] = Present(FrameOf(lo2, w))
  BY <1>1, <1>2, <1>5
<1>7. \A a \in DOMAIN mm : \E w \in Done(lo2, hi2) : a = Slot(tabs2, w)
  BY <1>3, <1>5
<1>8. Maps(tabs2, mm, lo2, hi2, {})
  BY <1>6, <1>7 DEF Maps
<1>. QED  BY <1>4, <1>8 DEF mm

\* new_frame gives an entry that was never written the next frame.
LEMMA NewFrameTakesTheNext ==
    ASSUME NEW a, a \notin DOMAIN mem, NEW n \in Nat, n <= NFRAMES, frames = 0..(n - 1), new_frame(a)
    PROVE  \/ at' = "panic" /\ n = NFRAMES /\ mem' = mem /\ frames' = frames
           \/ at' = at /\ n < NFRAMES /\ mem' = Write(a, Present(n)) /\ frames' = 0..n
<1>1. Entry(a).frameaddr = 0
  BY DEF Entry, Zero
<1>2. NFRAMES \in Nat
  BY TheHeap
<1>3. FreeFrames = n..(NFRAMES - 1)
  BY <1>2 DEF FreeFrames, Frame
<1>4. CASE n = NFRAMES
  <2>1. FreeFrames = {}
    BY <1>2, <1>3, <1>4
  <2>. QED  BY <1>1, <1>4, <2>1 DEF new_frame
<1>5. CASE n < NFRAMES
  <2>1. n \in FreeFrames /\ FreeFrames # {} /\ \A f \in FreeFrames : n <= f
    BY <1>2, <1>3, <1>5
  <2>2. Min(FreeFrames) = n
    <3>1. \A f \in FreeFrames : (\A g \in FreeFrames : f <= g) => f = n
      BY <1>2, <1>3, <2>1
    <3>. QED  BY <2>1, <3>1 DEF Min
  <2>3. /\ mem' = Write(a, [present |-> TRUE, frameaddr |-> n])
        /\ frames' = frames \union {n} /\ at' = at
    BY <1>1, <2>1, <2>2 DEF new_frame, set_bit
  <2>4. frames' = 0..n
    BY <2>3
  <2>. QED  BY <1>5, <2>3, <2>4 DEF Present
<1>. QED  BY <1>2, <1>4, <1>5

----------------------------------------------------------------------------
(***************************************************************************)
(* The inductive invariant.  After the first step the directory and the    *)
(* tables lie behind the image and are no larger than their number says.   *)
(* The loops map the pages one by one and give them the frames one by one, *)
(* so when paging is switched on the pages in use have the frames of their *)
(* own numbers and those of the heap the frames that come next.            *)
(***************************************************************************)
Laid ==
    /\ kdir >= __end /\ kdir % PAGE_SIZE = 0
    /\ kdir + 2 * PAGE_SIZE <= phys_alloc_addr
    /\ TablesOK(tables, phys_alloc_addr, kdir)
    /\ InSize(tables, phys_alloc_addr)

HeapHasTables == \A v \in HeapPages : tables[v \div PAGE_SIZE] # NULL

\* The first lo pages and hi pages of the heap are mapped; no more of the first ones than are
\* in use.
Using(lo, hi, cleared) ==
    /\ Maps(tables, mem, lo, hi, cleared)
    /\ frames = 0..(lo + hi - 1)
    /\ lo + hi <= NFRAMES
    /\ hi <= HeapLength
    /\ lo > 0 => (lo - 1) * PAGE_SIZE < UsedEnd

\* All pages are mapped.
Up(cleared) == \E lo \in Nat : UsedEnd <= lo * PAGE_SIZE /\ Using(lo, HeapLength, cleared)

NoBlocks == blocks = {} /\ heap_addr = KHEAP_BASE

\* The blocks lie in the heap in front of top, one behind the other.
Blocks(bs, top) ==
    /\ \A b \in bs : b[1] \in Nat /\ b[2] \in Nat /\ KHEAP_BASE <= b[1] /\ b[1] + b[2] <= top
    /\ \A b, c \in bs : b # c => b[1] + b[2] <= c[1] \/ c[1] + c[2] <= b[1]

Needed(tabs) == Parts(tabs) + Ceil(Slack) + Cardinality(HeapPages)

AtKdir ==
    /\ kdir = NULL /\ phys_alloc_addr = __end /\ tables = [k \in Index |-> NULL]
    /\ mem = << >> /\ frames = {} /\ NoBlocks

AtTables ==
    /\ KHEAP_BASE <= i /\ i <= HeapEnd
    /\ \A j \in KHEAP_BASE..(i - 1) : tables[TableIndex(j)] # NULL
    /\ mem = << >> /\ frames = {} /\ NoBlocks

AtUsed ==
    /\ HeapHasTables /\ NoBlocks
    /\ \E lo \in Nat : i = lo * PAGE_SIZE /\ Using(lo, 0, {})

AtHeap ==
    /\ HeapHasTables /\ NoBlocks
    /\ \E lo, hi \in Nat : /\ UsedEnd <= lo * PAGE_SIZE
                           /\ i = (HeapPage + hi) * PAGE_SIZE
                           /\ Using(lo, hi, {})

AtNull == Up({}) /\ NoBlocks

AtOn ==
    /\ Up({0})
    /\ KHEAP_BASE <= heap_addr /\ heap_addr <= HeapEnd
    /\ Blocks(blocks, heap_addr)

AtPanic ==
    \/ NoBlocks /\ Needed(tables) > NFRAMES
    \/ HeapEnd < heap_addr /\ Up({0}) /\ Blocks(blocks, HeapEnd)

Addresses ==
    /\ __end \in ImageEnds /\ phys_alloc_addr \in Nat /\ __end <= phys_alloc_addr
    /\ kdir \in Nat /\ i \in Nat /\ heap_addr \in Nat

VmInv ==
    /\ Addresses
    /\ \/ at = "kdir" /\ AtKdir
       \/ /\ Laid
          /\ \/ at = "tables" /\ AtTables
             \/ at = "used" /\ AtUsed
             \/ at = "heap" /\ AtHeap
             \/ at = "null" /\ AtNull
             \/ at = "on" /\ AtOn
             \/ at = "panic" /\ AtPanic

LEMMA TheImage ==
    ASSUME Addresses
    PROVE  /\ __end \in Nat /\ PAGE_SIZE <= __end /\ PAGE_SIZE <= phys_alloc_addr
           /\ UsedEnd \in Nat /\ 0 < UsedEnd
<1>1. __end \in Nat /\ PAGE_SIZE <= __end /\ PAGE_SIZE \in Nat \ {0} /\ Slack \in Nat
  BY MemoryAssumption DEF Addresses
<1>2. phys_alloc_addr \in Nat /\ __end <= phys_alloc_addr
  BY DEF Addresses
<1>. QED  BY <1>1, <1>2 DEF UsedEnd

\* The tables there can be.
LEMMA InTheDirectory ==
    /\ \A a \in Nat : a < HeapEnd => TableIndex(a) \in Index
    /\ \A v \in Nat : v <= HeapPage + HeapLength => v \in Page
<1>1. PAGE_SIZE \in Nat \ {0} /\ PAGE_SIZE * PAGE_SIZE \in Nat
  BY PagesOf
<1>2. ASSUME NEW v \in Nat, v <= HeapPage + HeapLength PROVE v \in Page
  BY <1>1, <1>2, TheHeap DEF Page
<1>3. ASSUME NEW a \in Nat, a < HeapEnd PROVE TableIndex(a) \in Index
  <2>. DEFINE q == a \div PAGE_SIZE
              n == HeapPage + HeapLength
  <2>1. q \in Nat /\ a % PAGE_SIZE \in Nat /\ a = q * PAGE_SIZE + (a % PAGE_SIZE)
    BY <1>1, PagesOf DEF Index
  <2>2. n \in Nat /\ HeapEnd = n * PAGE_SIZE
    BY TheHeap
  <2>. HIDE DEF q, n
  <2>3. q * PAGE_SIZE < n * PAGE_SIZE
    <3>1. q * PAGE_SIZE \in Nat /\ n * PAGE_SIZE \in Nat
      BY <1>1, <2>1, <2>2
    <3>. QED  BY <1>3, <2>1, <2>2, <3>1
  <2>4. q < n
    BY <1>1, <2>1, <2>2, <2>3, MultiplesApart
  <2>5. q \in Page
    BY <1>2, <2>1, <2>2, <2>4 DEF n
  <2>6. q \div PAGE_SIZE \in Index
    BY <2>5, PagesOf
  <2>. QED  BY <2>6 DEF TableIndex, q
<1>. QED  BY <1>2, <1>3

\* When the frames run out while lo pages and hi of the heap are mapped, the parts are too many.
LEMMA TooMuch ==
    ASSUME NEW tabs, NEW addr \in Nat, InSize(tabs, addr), __end \in Nat,
           NEW lo \in Nat, NEW hi \in Nat, lo + hi = NFRAMES, hi <= HeapLength,
           lo > 0 => (lo - 1) * PAGE_SIZE < addr + Slack,
           hi < HeapLength \/ lo * PAGE_SIZE < addr + Slack
    PROVE  Needed(tabs) > NFRAMES
<1>. DEFINE n == Parts(tabs)
            c == Ceil(Slack)
            m == n + c
<1>1. PAGE_SIZE \in Nat \ {0} /\ Slack \in Nat /\ HeapLength \in Nat
  BY PagesOf, TheHeap
<1>2. n \in Nat /\ addr <= n * PAGE_SIZE
  BY CeilIsEnough, MadeIsFinite DEF Parts, InSize
<1>3. c \in Nat /\ Slack <= c * PAGE_SIZE
  BY <1>1, CeilIsEnough
<1>4. Cardinality(HeapPages) = HeapLength
  <2>. DEFINE last == HeapPage + HeapLength - 1
  <2>1. HeapPage \in Nat /\ HeapPages = HeapPage..last /\ last \in Int /\ HeapPage \in Int
    BY <1>1, TheHeap
  <2>2. (IF HeapPage > last THEN 0 ELSE last - HeapPage + 1) = HeapLength
    BY <1>1, <2>1
  <2>. HIDE DEF last
  <2>3. Cardinality(HeapPage..last) = IF HeapPage > last THEN 0 ELSE last - HeapPage + 1
    BY <2>1, FS_Interval, SMTT(30)
  <2>. QED  BY <2>1, <2>2, <2>3
<1>. HIDE DEF n, c
<1>5. m \in Nat /\ addr + Slack <= m * PAGE_SIZE
  <2>1. m * PAGE_SIZE = n * PAGE_SIZE + c * PAGE_SIZE /\ n * PAGE_SIZE \in Nat /\ c * PAGE_SIZE \in Nat
    BY <1>1, <1>2, <1>3
  <2>. QED  BY <1>1, <1>2, <1>3, <2>1
<1>6. Needed(tabs) = m + HeapLength
  BY <1>4 DEF Needed, n, c
<1>. HIDE DEF m
<1>7. \A q \in Nat : q * PAGE_SIZE < addr + Slack => q < m
  <2>. TAKE q \in Nat
  <2>1. q * PAGE_SIZE \in Nat /\ m * PAGE_SIZE \in Nat
    BY <1>1, <1>5
  <2>2. q * PAGE_SIZE < m * PAGE_SIZE => q < m
    BY <1>1, <1>5, MultiplesApart
  <2>. QED  BY <1>1, <1>5, <2>1, <2>2
<1>8. lo > 0 => lo - 1 \in Nat /\ lo - 1 < m
  <2>1. lo > 0 => lo - 1 \in Nat
    OBVIOUS
  <2>. QED  BY <1>7, <2>1
<1>9. lo <= m /\ (hi < HeapLength \/ lo < m)
  BY <1>5, <1>7, <1>8
<1>. QED  BY <1>1, <1>5, <1>6, <1>9

----------------------------------------------------------------------------
(***************************************************************************)
(* The steps.                                                              *)
(***************************************************************************)
LEMMA MakeDirectoryStep ==
    ASSUME VmInv, MakeDirectory
    PROVE  VmInv'
<1>1. Addresses /\ AtKdir
  BY DEF VmInv, MakeDirectory
<1>2. __end \in Nat /\ PAGE_SIZE <= __end /\ PAGE_SIZE \in Nat \ {0} /\ KHEAP_BASE \in Nat
      /\ HeapEnd \in Nat /\ KHEAP_BASE <= HeapEnd
  BY <1>1, TheImage, PagesOf, MemoryAssumption DEF HeapEnd
<1>3. /\ kdir' = PageAligned(__end) /\ phys_alloc_addr' = kdir' + 2 * PAGE_SIZE
      /\ at' = "tables" /\ i' = KHEAP_BASE
      /\ UNCHANGED <<__end, tables, mem, frames, heap_addr, blocks>>
  BY <1>1 DEF MakeDirectory, Goto, AtKdir
<1>4. /\ kdir' \in Nat /\ __end < kdir' /\ kdir' % PAGE_SIZE = 0
      /\ \A n \in Nat : __end <= n * PAGE_SIZE => kdir' <= (n + 1) * PAGE_SIZE
  BY <1>2, <1>3, AlignedAddress
<1>5. Addresses'
  BY <1>1, <1>2, <1>3, <1>4 DEF Addresses
<1>6. Made(tables) = {} /\ tables \in [Index -> Nat]
  BY <1>1 DEF AtKdir, Made, NULL
<1>7. TablesOK(tables, phys_alloc_addr', kdir')
  BY <1>6 DEF TablesOK
<1>8. phys_alloc_addr' <= Parts(tables) * PAGE_SIZE
  <2>. DEFINE c == Ceil(__end)
  <2>1. c \in Nat /\ __end <= c * PAGE_SIZE
    BY <1>2, CeilIsEnough
  <2>2. Parts(tables) = c + 3
    <3>1. Cardinality(Made(tables)) = 0
      BY <1>6, FS_EmptySet
    <3>. QED  BY <2>1, <3>1 DEF Parts
  <2>. HIDE DEF c
  <2>3. kdir' <= (c + 1) * PAGE_SIZE
    BY <1>4, <2>1
  <2>4. (c + 3) * PAGE_SIZE = (c + 1) * PAGE_SIZE + 2 * PAGE_SIZE /\ (c + 1) * PAGE_SIZE \in Nat
    BY <1>2, <2>1
  <2>. QED  BY <1>2, <1>3, <1>4, <2>2, <2>3, <2>4
<1>9. Laid'
  <2>1. InSize(tables, phys_alloc_addr)'
    BY <1>3, <1>8 DEF InSize, Parts
  <2>2. kdir' >= __end' /\ kdir' + 2 * PAGE_SIZE <= phys_alloc_addr'
    BY <1>2, <1>3, <1>4
  <2>. QED  BY <1>3, <1>4, <1>7, <2>1, <2>2 DEF Laid
<1>10. AtTables'
  <2>1. \A j \in KHEAP_BASE..(KHEAP_BASE - 1) : FALSE
    BY <1>2
  <2>. QED  BY <1>1, <1>2, <1>3, <2>1 DEF AtTables, AtKdir, NoBlocks
<1>. QED  BY <1>3, <1>5, <1>9, <1>10 DEF VmInv

\* Tables that get_page makes lie where they should.
LEMMA TablesGrow ==
    ASSUME Addresses, Laid, NEW index, UNCHANGED <<__end, kdir>>, i' \in Nat, heap_addr' \in Nat,
           Grown(tables, phys_alloc_addr, kdir, index, tables', phys_alloc_addr')
    PROVE  Addresses' /\ Laid' /\ (HeapHasTables => HeapHasTables')
<1>1. /\ TablesOK(tables', phys_alloc_addr', kdir) /\ phys_alloc_addr' \in Nat
      /\ phys_alloc_addr <= phys_alloc_addr' /\ InSize(tables', phys_alloc_addr')
      /\ \A k \in Index : tables[k] # NULL => tables'[k] = tables[k]
  BY DEF Grown
<1>2. __end \in Nat /\ phys_alloc_addr \in Nat /\ __end <= phys_alloc_addr /\ kdir \in Nat
      /\ PAGE_SIZE \in Nat
  BY TheImage, PagesOf DEF Addresses
<1>3. Addresses'
  BY <1>1, <1>2 DEF Addresses
<1>4. Laid'
  <2>1. InSize(tables, phys_alloc_addr)'
    BY <1>1 DEF InSize, Parts
  <2>2. kdir + 2 * PAGE_SIZE <= phys_alloc_addr'
    BY <1>1, <1>2 DEF Laid
  <2>. QED  BY <1>1, <2>1, <2>2 DEF Laid
<1>5. HeapHasTables => HeapHasTables'
  <2>1. \A v \in HeapPages : v \div PAGE_SIZE \in Index
    BY PagesOf DEF HeapPages
  <2>. QED  BY <1>1, <2>1 DEF HeapHasTables
<1>. QED  BY <1>3, <1>4, <1>5

\* get_page, on the tables as they are.
LEMMA GetPageHere ==
    ASSUME Addresses, Laid, NEW a, TableIndex(a) \in Index
    PROVE  LET m == get_page([addr |-> phys_alloc_addr, tables |-> tables], a)
           IN  Grown(tables, phys_alloc_addr, kdir, TableIndex(a), m.tables, m.addr)
<1>1. /\ phys_alloc_addr \in Nat /\ kdir \in Nat /\ __end \in Nat /\ PAGE_SIZE <= phys_alloc_addr
      /\ TablesOK(tables, phys_alloc_addr, kdir) /\ InSize(tables, phys_alloc_addr)
      /\ kdir + 2 * PAGE_SIZE <= phys_alloc_addr
  BY TheImage DEF Addresses, Laid
<1>. QED  BY <1>1, GetPageGrows

LEMMA MakeHeapTablesStep ==
    ASSUME VmInv, MakeHeapTables
    PROVE  VmInv'
<1>1. Addresses /\ Laid /\ AtTables /\ at = "tables"
  BY DEF VmInv, MakeHeapTables
<1>2. KHEAP_BASE \in Nat /\ HeapEnd \in Nat /\ i \in Nat /\ KHEAP_BASE <= i /\ i <= HeapEnd
  BY <1>1, TheHeap DEF Addresses, AtTables
<1>3. UNCHANGED <<__end, kdir, mem, frames, heap_addr, blocks>>
  BY DEF MakeHeapTables
<1>4. CASE i < HeapEnd
  <2>. DEFINE m == get_page([addr |-> phys_alloc_addr, tables |-> tables], i)
  <2>1. phys_alloc_addr' = m.addr /\ tables' = m.tables /\ i' = i + 1 /\ at' = "tables"
    BY <1>1, <1>4 DEF MakeHeapTables, SetTables, HeapEnd
  <2>2. TableIndex(i) \in Index
    BY <1>2, <1>4, InTheDirectory
  <2>3. Grown(tables, phys_alloc_addr, kdir, TableIndex(i), tables', phys_alloc_addr')
    BY <1>1, <2>1, <2>2, GetPageHere
  <2>4. Addresses' /\ Laid'
    <3>1. i' \in Nat /\ heap_addr' \in Nat
      BY <1>1, <1>2, <1>3, <2>1 DEF Addresses
    <3>. QED  BY <1>1, <1>3, <2>3, <3>1, TablesGrow
  <2>5. AtTables'
    <3>1. ASSUME NEW j \in KHEAP_BASE..i PROVE tables'[TableIndex(j)] # NULL
      <4>1. CASE j = i
        BY <2>3, <4>1 DEF Grown
      <4>2. CASE j # i
        <5>1. j \in KHEAP_BASE..(i - 1) /\ j \in Nat /\ j < HeapEnd
          BY <1>2, <4>2
        <5>2. tables[TableIndex(j)] # NULL /\ TableIndex(j) \in Index
          BY <1>1, <5>1, InTheDirectory DEF AtTables
        <5>. QED  BY <2>3, <5>2 DEF Grown
      <4>. QED  BY <4>1, <4>2
    <3>2. i' - 1 = i /\ KHEAP_BASE <= i' /\ i' <= HeapEnd
      BY <1>2, <1>4, <2>1
    <3>. QED  BY <1>1, <1>3, <3>1, <3>2 DEF AtTables, NoBlocks
  <2>. QED  BY <2>1, <2>4, <2>5 DEF VmInv
<1>5. CASE ~ (i < HeapEnd)
  <2>1. at' = "used" /\ i' = 0 /\ UNCHANGED <<phys_alloc_addr, tables>>
    BY <1>5 DEF MakeHeapTables, Goto, HeapEnd
  <2>2. Addresses' /\ Laid'
    BY <1>1, <1>3, <2>1 DEF Addresses, Laid, InSize, Parts
  <2>3. HeapHasTables'
    <3>1. ASSUME NEW v \in HeapPages PROVE tables[v \div PAGE_SIZE] # NULL
      <4>1. v \in Nat /\ KHEAP_BASE <= v * PAGE_SIZE /\ v * PAGE_SIZE < HeapEnd
        BY PagesOf DEF HeapPages, HeapEnd
      <4>2. v * PAGE_SIZE \in Nat
        BY <4>1, PagesOf
      <4>3. v * PAGE_SIZE \in KHEAP_BASE..(i - 1)
        BY <1>2, <1>5, <4>1, <4>2
      <4>. QED  BY <1>1, <4>1, <4>3, EntryIsSlot DEF AtTables
    <3>. QED  BY <2>1, <3>1 DEF HeapHasTables
  <2>4. Using(0, 0, {})'
    <3>1. Done(0, 0) = {}
      BY TheHeap DEF Done
    <3>2. DOMAIN mem' = {} /\ frames' = {}
      BY <1>1, <1>3 DEF AtTables
    <3>3. Maps(tables', mem', 0, 0, {})
      BY <3>1, <3>2 DEF Maps
    <3>. QED  BY <3>2, <3>3, TheHeap DEF Using
  <2>5. AtUsed'
    <3>1. i' = 0 * PAGE_SIZE
      BY <2>1, PagesOf
    <3>. QED  BY <1>1, <1>3, <2>3, <2>4, <3>1 DEF AtUsed, AtTables, NoBlocks
  <2>. QED  BY <2>1, <2>2, <2>5 DEF VmInv
<1>. QED  BY <1>4, <1>5

\* The loop over the memory in use, while i is in front of its end.
LEMMA MapUsedStep ==
    ASSUME VmInv, MapUsed, i < UsedEnd
    PROVE  VmInv'
<1>1. Addresses /\ Laid /\ AtUsed /\ at = "used"
  BY DEF VmInv, MapUsed
<1>2. PICK lo \in Nat : i = lo * PAGE_SIZE /\ Using(lo, 0, {})
  BY <1>1 DEF AtUsed
<1>3. /\ Maps(tables, mem, lo, 0, {}) /\ frames = 0..(lo - 1) /\ lo <= NFRAMES
      /\ PAGE_SIZE \in Nat \ {0} /\ NFRAMES \in Nat /\ HeapLength \in Nat /\ HeapPage \in Nat
      /\ NFRAMES <= HeapPage /\ Slack \in Nat
  BY <1>2, PagesOf, TheHeap DEF Using
<1>4. lo \in Page /\ lo \div PAGE_SIZE \in Index /\ TableIndex(i) = lo \div PAGE_SIZE
  <2>1. lo \in Page
    BY <1>3, InTheDirectory
  <2>. QED  BY <1>2, <2>1, PagesOf, EntryIsSlot
<1>. DEFINE m    == get_page([addr |-> phys_alloc_addr, tables |-> tables], i)
            slot == Slot(tables', lo)
<1>5. /\ phys_alloc_addr' = m.addr /\ tables' = m.tables /\ i' = i + PAGE_SIZE
      /\ new_frame(slot)
      /\ UNCHANGED <<__end, kdir, heap_addr, blocks>>
  <2>1. /\ phys_alloc_addr' = m.addr /\ tables' = m.tables /\ i' = i + PAGE_SIZE
        /\ new_frame(EntryAt(m.tables, i))
        /\ UNCHANGED <<__end, kdir, heap_addr, blocks>>
    BY DEF MapUsed, MapPage, SetTables
  <2>2. EntryAt(m.tables, i) = Slot(m.tables, lo)
    BY <1>2, EntryIsSlot
  <2>. QED  BY <2>1, <2>2
<1>6. Grown(tables, phys_alloc_addr, kdir, lo \div PAGE_SIZE, tables', phys_alloc_addr')
  BY <1>1, <1>4, <1>5, GetPageHere
<1>. HIDE DEF m, slot
<1>7. Addresses' /\ Laid' /\ HeapHasTables'
  <2>1. i' \in Nat /\ heap_addr' \in Nat
    BY <1>1, <1>3, <1>5 DEF Addresses
  <2>. QED  BY <1>1, <1>5, <1>6, <2>1, TablesGrow DEF AtUsed
<1>8. UsedEnd \in Nat /\ UsedEnd' \in Nat /\ UsedEnd <= UsedEnd'
  <2>1. phys_alloc_addr \in Nat /\ phys_alloc_addr' \in Nat /\ phys_alloc_addr <= phys_alloc_addr'
    BY <1>1, <1>6 DEF Grown, Addresses
  <2>2. UsedEnd = phys_alloc_addr + Slack /\ UsedEnd' = phys_alloc_addr' + Slack /\ Slack \in Nat
    BY <1>3 DEF UsedEnd
  <2>3. \A x, y, c \in Nat : x <= y => x + c \in Nat /\ y + c \in Nat /\ x + c <= y + c
    OBVIOUS
  <2>. QED  BY <2>1, <2>2, <2>3
<1>9. /\ slot \notin DOMAIN mem
      /\ Maps(tables', Write(slot, Present(lo)), lo + 1, 0, {})
  <2>1. TablesOK(tables', phys_alloc_addr', kdir) /\ tables'[lo \div PAGE_SIZE] # NULL
        /\ \A k \in Index : tables[k] # NULL => tables'[k] = tables[k]
    BY <1>6 DEF Grown
  <2>2. /\ Done(lo, 0) = 0..(lo - 1) /\ Done(lo + 1, 0) = Done(lo, 0) \union {lo}
        /\ lo \notin Done(lo, 0) /\ Done(lo, 0) \subseteq Page
    <3>1. Done(lo, 0) = 0..(lo - 1) /\ Done(lo + 1, 0) = 0..lo
      BY <1>3 DEF Done
    <3>2. Done(lo, 0) \subseteq Page
      BY <1>3, DonePages
    <3>. QED  BY <3>1, <3>2
  <2>3. FrameOf(lo + 1, lo) = lo /\ \A w \in Done(lo, 0) : FrameOf(lo + 1, w) = FrameOf(lo, w)
    BY <2>2 DEF FrameOf
  <2>4. /\ Slot(tables', lo) \notin DOMAIN mem
        /\ Maps(tables', Write(Slot(tables', lo), Present(FrameOf(lo + 1, lo))), lo + 1, 0, {})
    BY <1>3, <1>4, <2>1, <2>2, <2>3, MapsOneMore
  <2>. QED  BY <2>3, <2>4 DEF slot
<1>10. \/ at' = "panic" /\ lo = NFRAMES /\ mem' = mem /\ frames' = frames
       \/ at' = at /\ lo < NFRAMES /\ mem' = Write(slot, Present(lo)) /\ frames' = 0..lo
  BY <1>3, <1>5, <1>9, NewFrameTakesTheNext
<1>11. lo * PAGE_SIZE < UsedEnd' /\ (lo > 0 => (lo - 1) * PAGE_SIZE < UsedEnd')
  <2>1. lo * PAGE_SIZE \in Nat /\ lo * PAGE_SIZE < UsedEnd
    BY <1>2, <1>3
  <2>2. lo > 0 => lo - 1 \in Nat /\ (lo - 1) * PAGE_SIZE \in Nat /\ (lo - 1) * PAGE_SIZE < lo * PAGE_SIZE
    BY <1>3, MultiplesApart
  <2>. QED  BY <1>8, <2>1, <2>2
<1>12. CASE at' = "panic" /\ lo = NFRAMES
  <2>1. Needed(tables') > NFRAMES
    <3>1. InSize(tables', phys_alloc_addr') /\ phys_alloc_addr' \in Nat /\ __end \in Nat
      BY <1>1, <1>6, TheImage DEF Grown
    <3>2. lo + 0 = NFRAMES /\ 0 <= HeapLength
          /\ (lo > 0 => (lo - 1) * PAGE_SIZE < phys_alloc_addr' + Slack)
          /\ lo * PAGE_SIZE < phys_alloc_addr' + Slack
      BY <1>3, <1>11, <1>12 DEF UsedEnd
    <3>. QED  BY <3>1, <3>2, TooMuch
  <2>2. Needed(tables)' = Needed(tables')
    BY <1>5 DEF Needed, Parts
  <2>3. AtPanic'
    BY <1>1, <1>5, <2>1, <2>2 DEF AtPanic, AtUsed, NoBlocks
  <2>. QED  BY <1>7, <1>12, <2>3 DEF VmInv
<1>13. CASE at' = at /\ lo < NFRAMES /\ mem' = Write(slot, Present(lo)) /\ frames' = 0..lo
  <2>1. Using(lo + 1, 0, {})'
    <3>1. Maps(tables', mem', lo + 1, 0, {})
      BY <1>9, <1>13
    <3>2. frames' = 0..(lo + 1 + 0 - 1) /\ lo + 1 + 0 <= NFRAMES /\ (lo + 1) - 1 = lo
      BY <1>3, <1>13
    <3>. QED  BY <1>3, <1>11, <3>1, <3>2 DEF Using
  <2>2. i' = (lo + 1) * PAGE_SIZE
    BY <1>2, <1>3, <1>5
  <2>3. AtUsed'
    BY <1>1, <1>5, <1>7, <2>1, <2>2 DEF AtUsed, NoBlocks
  <2>. QED  BY <1>1, <1>7, <1>13, <2>3 DEF VmInv
<1>. QED  BY <1>10, <1>12, <1>13

\* Using in the next state, when what it is about has not changed.
LEMMA UsingStays ==
    ASSUME UNCHANGED <<phys_alloc_addr, tables, mem, frames>>, NEW lo, NEW hi, NEW cleared
    PROVE  /\ Using(lo, hi, cleared)' <=> Using(lo, hi, cleared)
           /\ Up(cleared)' <=> Up(cleared)
BY DEF Using, Maps, Up, UsedEnd

LEMMA MapUsedEnds ==
    ASSUME VmInv, MapUsed, ~ (i < UsedEnd)
    PROVE  VmInv'
<1>1. Addresses /\ Laid /\ AtUsed /\ at = "used"
  BY DEF VmInv, MapUsed
<1>2. /\ at' = "heap" /\ i' = KHEAP_BASE
      /\ UNCHANGED <<phys_alloc_addr, tables, mem, frames, __end, kdir, heap_addr, blocks>>
  BY DEF MapUsed, Goto
<1>3. PICK lo \in Nat : i = lo * PAGE_SIZE /\ Using(lo, 0, {})
  BY <1>1 DEF AtUsed
<1>4. UsedEnd <= lo * PAGE_SIZE /\ UsedEnd' = UsedEnd
  <2>1. UsedEnd \in Nat /\ i \in Nat
    BY <1>1, TheImage DEF Addresses
  <2>. QED  BY <1>2, <1>3, <2>1 DEF UsedEnd
<1>5. KHEAP_BASE = (HeapPage + 0) * PAGE_SIZE /\ KHEAP_BASE \in Nat
  BY TheHeap
<1>6. Using(lo, 0, {})'
  BY <1>2, <1>3, UsingStays
<1>7. AtHeap'
  BY <1>1, <1>2, <1>4, <1>5, <1>6 DEF AtHeap, AtUsed, HeapHasTables, NoBlocks
<1>8. Addresses' /\ Laid'
  BY <1>1, <1>2, <1>5 DEF Addresses, Laid, InSize, Parts
<1>. QED  BY <1>2, <1>7, <1>8 DEF VmInv

\* The loop over the heap: all its tables are there.
LEMMA MapHeapStep ==
    ASSUME VmInv, MapHeap
    PROVE  VmInv'
<1>1. Addresses /\ Laid /\ AtHeap /\ at = "heap"
  BY DEF VmInv, MapHeap
<1>2. PICK lo \in Nat, hi \in Nat :
         /\ UsedEnd <= lo * PAGE_SIZE
         /\ i = (HeapPage + hi) * PAGE_SIZE
         /\ Using(lo, hi, {})
  BY <1>1 DEF AtHeap
<1>3. /\ Maps(tables, mem, lo, hi, {}) /\ frames = 0..(lo + hi - 1) /\ lo + hi <= NFRAMES
      /\ hi <= HeapLength /\ (lo > 0 => (lo - 1) * PAGE_SIZE < UsedEnd)
  BY <1>2 DEF Using
<1>4. /\ PAGE_SIZE \in Nat \ {0} /\ NFRAMES \in Nat /\ HeapLength \in Nat /\ HeapPage \in Nat
      /\ NFRAMES <= HeapPage /\ HeapEnd = (HeapPage + HeapLength) * PAGE_SIZE /\ lo <= HeapPage
      /\ lo <= NFRAMES
  <2>1. /\ PAGE_SIZE \in Nat \ {0} /\ NFRAMES \in Nat /\ HeapLength \in Nat /\ HeapPage \in Nat
        /\ NFRAMES <= HeapPage /\ HeapEnd = (HeapPage + HeapLength) * PAGE_SIZE
    BY PagesOf, TheHeap
  <2>2. lo <= NFRAMES
    BY <1>3, <2>1
  <2>. QED  BY <2>1, <2>2
<1>5. (i < HeapEnd <=> hi < HeapLength) /\ i + PAGE_SIZE = (HeapPage + (hi + 1)) * PAGE_SIZE
  <2>1. i < HeapEnd <=> HeapPage + hi < HeapPage + HeapLength
    BY <1>2, <1>4, MultiplesApart
  <2>. QED  BY <1>2, <1>4, <2>1
<1>6. UNCHANGED <<__end, kdir, heap_addr, blocks>>
  BY DEF MapHeap
<1>7. CASE ~ (i < HeapEnd)
  <2>1. /\ at' = "null" /\ i' = 0 /\ UNCHANGED <<phys_alloc_addr, tables, mem, frames>>
    BY <1>7 DEF MapHeap, Goto, HeapEnd
  <2>2. hi = HeapLength
    BY <1>3, <1>4, <1>5, <1>7
  <2>3. Up({})
    BY <1>2, <2>2 DEF Up
  <2>4. AtNull'
    BY <1>1, <1>6, <2>1, <2>3, UsingStays DEF AtNull, AtHeap, NoBlocks
  <2>5. Addresses' /\ Laid'
    BY <1>1, <1>6, <2>1 DEF Addresses, Laid, InSize, Parts
  <2>. QED  BY <2>1, <2>4, <2>5 DEF VmInv
<1>8. CASE i < HeapEnd
  <2>. DEFINE v    == HeapPage + hi
              slot == Slot(tables, v)
              m    == get_page([addr |-> phys_alloc_addr, tables |-> tables], i)
  <2>1. /\ v \in Nat /\ v \in Page /\ v \in HeapPages /\ v \notin Done(lo, hi)
        /\ TableIndex(i) = v \div PAGE_SIZE
    <3>1. v \in Nat /\ v <= HeapPage + HeapLength /\ v \in HeapPages
      BY <1>4, <1>5, <1>8, TheHeap
    <3>2. v \in Page
      BY <3>1, InTheDirectory
    <3>3. v \notin Done(lo, hi)
      BY <1>4 DEF Done
    <3>4. TableIndex(i) = v \div PAGE_SIZE
      BY <1>2, <3>1, EntryIsSlot
    <3>. QED  BY <3>1, <3>2, <3>3, <3>4
  <2>2. tables[v \div PAGE_SIZE] # NULL
    BY <1>1, <2>1 DEF AtHeap, HeapHasTables
  <2>3. m = [addr |-> phys_alloc_addr, tables |-> tables]
    BY <2>1, <2>2 DEF get_page
  <2>4. EntryAt(tables, i) = slot
    BY <1>2, <2>1, EntryIsSlot
  <2>5. /\ phys_alloc_addr' = phys_alloc_addr /\ tables' = tables /\ i' = i + PAGE_SIZE
        /\ new_frame(slot)
    <3>1. /\ phys_alloc_addr' = m.addr /\ tables' = m.tables /\ i' = i + PAGE_SIZE
          /\ new_frame(EntryAt(m.tables, i))
      BY <1>8 DEF MapHeap, MapPage, SetTables, HeapEnd
    <3>2. m.addr = phys_alloc_addr /\ m.tables = tables
      BY <2>3
    <3>. QED  BY <2>4, <3>1, <3>2
  <2>. HIDE DEF slot, m
  <2>6. /\ slot \notin DOMAIN mem
        /\ Maps(tables, Write(slot, Present(lo + hi)), lo, hi + 1, {})
    <3>1. TablesOK(tables, phys_alloc_addr, kdir)
      BY <1>1 DEF Laid
    <3>2. Done(lo, hi + 1) = Done(lo, hi) \union {v} /\ Done(lo, hi) \subseteq Page
      <4>1. HeapPage..(HeapPage + (hi + 1) - 1) = (HeapPage..(HeapPage + hi - 1)) \union {v}
        BY <1>4
      <4>2. Done(lo, hi) \subseteq Page
        BY <1>3, <1>4, DonePages
      <4>. QED  BY <4>1, <4>2 DEF Done
    <3>3. FrameOf(lo, v) = lo + hi
      BY <1>4 DEF FrameOf
    <3>. HIDE DEF v
    <3>4. /\ Slot(tables, v) \notin DOMAIN mem
          /\ Maps(tables, Write(Slot(tables, v), Present(FrameOf(lo, v))), lo, hi + 1, {})
      <4>1. /\ \A k \in Index : tables[k] # NULL => tables[k] = tables[k]
            /\ \A w \in Done(lo, hi) : FrameOf(lo, w) = FrameOf(lo, w)
            /\ hi + 1 \in Nat
        OBVIOUS
      <4>. QED  BY <1>3, <2>1, <2>2, <3>1, <3>2, <4>1, MapsOneMore, ZenonT(30)
    <3>. QED  BY <3>3, <3>4 DEF slot
  <2>7. \/ at' = "panic" /\ lo + hi = NFRAMES /\ mem' = mem /\ frames' = frames
        \/ at' = at /\ lo + hi < NFRAMES /\ mem' = Write(slot, Present(lo + hi)) /\ frames' = 0..(lo + hi)
    <3>. DEFINE n == lo + hi
    <3>1. n \in Nat /\ n <= NFRAMES /\ frames = 0..(n - 1)
      BY <1>3
    <3>. HIDE DEF n
    <3>2. \/ at' = "panic" /\ n = NFRAMES /\ mem' = mem /\ frames' = frames
          \/ at' = at /\ n < NFRAMES /\ mem' = Write(slot, Present(n)) /\ frames' = 0..n
      BY <2>5, <2>6, <3>1, NewFrameTakesTheNext
    <3>. QED  BY <3>2 DEF n
  <2>8. Addresses' /\ Laid'
    BY <1>1, <1>4, <1>6, <2>5 DEF Addresses, Laid, InSize, Parts
  <2>9. CASE at' = "panic" /\ lo + hi = NFRAMES
    <3>1. Needed(tables) > NFRAMES
      <4>1. InSize(tables, phys_alloc_addr) /\ phys_alloc_addr \in Nat /\ __end \in Nat
        BY <1>1, TheImage DEF Laid, Addresses
      <4>2. hi < HeapLength /\ (lo > 0 => (lo - 1) * PAGE_SIZE < phys_alloc_addr + Slack)
        BY <1>3, <1>5, <1>8 DEF UsedEnd
      <4>. QED  BY <1>3, <2>9, <4>1, <4>2, TooMuch
    <3>2. Needed(tables)' = Needed(tables)
      BY <1>6, <2>5 DEF Needed, Parts
    <3>3. AtPanic'
      BY <1>1, <1>6, <3>1, <3>2 DEF AtPanic, AtHeap, NoBlocks
    <3>. QED  BY <2>8, <2>9, <3>3 DEF VmInv
  <2>10. CASE at' = at /\ lo + hi < NFRAMES /\ mem' = Write(slot, Present(lo + hi)) /\ frames' = 0..(lo + hi)
    <3>1. Using(lo, hi + 1, {})'
      <4>1. Maps(tables', mem', lo, hi + 1, {})
        BY <2>5, <2>6, <2>10
      <4>2. frames' = 0..(lo + (hi + 1) - 1) /\ lo + (hi + 1) <= NFRAMES /\ hi + 1 <= HeapLength
        BY <1>4, <1>5, <1>8, <2>10
      <4>3. lo > 0 => (lo - 1) * PAGE_SIZE < UsedEnd'
        BY <1>3, <2>5 DEF UsedEnd
      <4>. QED  BY <4>1, <4>2, <4>3 DEF Using
    <3>2. UsedEnd' <= lo * PAGE_SIZE /\ hi + 1 \in Nat
      BY <1>2, <2>5 DEF UsedEnd
    <3>3. i' = (HeapPage + (hi + 1)) * PAGE_SIZE
      BY <1>5, <2>5
    <3>4. AtHeap'
      BY <1>1, <1>6, <2>5, <3>1, <3>2, <3>3 DEF AtHeap, HeapHasTables, NoBlocks
    <3>. QED  BY <1>1, <2>8, <2>10, <3>4 DEF VmInv
  <2>. QED  BY <2>7, <2>9, <2>10
<1>. QED  BY <1>7, <1>8

LEMMA EnablePagingStep ==
    ASSUME VmInv, EnablePaging
    PROVE  VmInv'
<1>1. Addresses /\ Laid /\ AtNull /\ at = "null"
  BY DEF VmInv, EnablePaging
<1>2. PICK lo \in Nat : UsedEnd <= lo * PAGE_SIZE /\ Using(lo, HeapLength, {})
  BY <1>1 DEF AtNull, Up
<1>3. /\ Maps(tables, mem, lo, HeapLength, {}) /\ lo + HeapLength <= NFRAMES
      /\ HeapLength \in Nat /\ NFRAMES \in Nat /\ PAGE_SIZE \in Nat \ {0}
      /\ HeapPage \in Nat /\ NFRAMES <= HeapPage
  BY <1>2, PagesOf, TheHeap DEF Using
<1>4. UsedEnd \in Nat /\ 0 < UsedEnd /\ lo # 0
  <2>1. UsedEnd \in Nat /\ 0 < UsedEnd
    BY <1>1, TheImage
  <2>2. 0 * PAGE_SIZE = 0
    BY <1>3
  <2>. QED  BY <1>2, <2>1, <2>2
<1>. DEFINE slot == Slot(tables, 0)
            mm   == Write(slot, Zero)
<1>5. /\ mem' = mm /\ at' = "on" /\ i' = 0
      /\ UNCHANGED <<__end, phys_alloc_addr, kdir, tables, frames, heap_addr, blocks>>
  <2>1. EntryAt(tables, 0) = slot
    <3>1. 0 * PAGE_SIZE = 0
      BY <1>3
    <3>. QED  BY <3>1, EntryIsSlot
  <2>. QED  BY <2>1 DEF EnablePaging, Goto
<1>6. 0 \in Done(lo, HeapLength) /\ Done(lo, HeapLength) \subseteq Page
  <2>1. 0 \in 0..(lo - 1)
    BY <1>4
  <2>2. lo <= NFRAMES
    BY <1>3
  <2>3. Done(lo, HeapLength) \subseteq Page
    BY <1>3, <2>2, DonePages
  <2>. QED  BY <2>1, <2>3 DEF Done
<1>7. /\ DOMAIN mm = DOMAIN mem \union {slot} /\ mm[slot] = Zero
      /\ \A a \in DOMAIN mem : a # slot => mm[a] = mem[a]
  BY DEF Write
<1>. HIDE DEF mm
<1>8. ASSUME NEW v \in Done(lo, HeapLength)
      PROVE  /\ tables[v \div PAGE_SIZE] # NULL
             /\ Slot(tables, v) \in DOMAIN mm
             /\ mm[Slot(tables, v)] = IF v \in {0} THEN Zero ELSE Present(FrameOf(lo, v))
  <2>1. /\ \A w \in Done(lo, HeapLength) : tables[w \div PAGE_SIZE] # NULL
        /\ Slot(tables, v) \in DOMAIN mem /\ mem[Slot(tables, v)] = Present(FrameOf(lo, v))
    BY <1>3 DEF Maps
  <2>2. TablesOK(tables, phys_alloc_addr, kdir)
    BY <1>1 DEF Laid
  <2>3. v # 0 => Slot(tables, v) # slot
    BY <1>6, <2>1, <2>2, SlotsApart
  <2>. QED  BY <1>7, <2>1, <2>3
<1>9. Maps(tables, mm, lo, HeapLength, {0})
  <2>1. \A a \in DOMAIN mm : \E v \in Done(lo, HeapLength) : a = Slot(tables, v)
    BY <1>3, <1>6, <1>7 DEF Maps
  <2>. QED  BY <1>8, <2>1 DEF Maps
<1>10. Up({0})'
  <2>1. Using(lo, HeapLength, {0})'
    BY <1>2, <1>5, <1>9 DEF Using, UsedEnd
  <2>2. UsedEnd' <= lo * PAGE_SIZE
    BY <1>2, <1>5 DEF UsedEnd
  <2>. QED  BY <2>1, <2>2 DEF Up
<1>11. AtOn'
  <2>1. heap_addr' = KHEAP_BASE /\ blocks' = {}
    BY <1>1, <1>5 DEF AtNull, NoBlocks
  <2>2. KHEAP_BASE <= KHEAP_BASE /\ KHEAP_BASE <= HeapEnd
    BY TheHeap DEF HeapEnd
  <2>. QED  BY <1>10, <2>1, <2>2 DEF AtOn, Blocks
<1>12. Addresses' /\ Laid'
  BY <1>1, <1>5 DEF Addresses, Laid, InSize, Parts
<1>. QED  BY <1>5, <1>11, <1>12 DEF VmInv

LEMMA KmallocStep ==
    ASSUME VmInv, NEW size \in Sizes, Kmalloc(size)
    PROVE  VmInv'
<1>1. Addresses /\ Laid /\ AtOn /\ at = "on"
  BY DEF VmInv, Kmalloc
<1>2. /\ heap_addr \in Nat /\ size \in Nat /\ KHEAP_BASE \in Nat /\ HeapEnd \in Nat
      /\ KHEAP_BASE <= heap_addr /\ heap_addr <= HeapEnd
      /\ Up({0}) /\ Blocks(blocks, heap_addr)
  BY <1>1, TheHeap, MemoryAssumption DEF Addresses, AtOn
<1>3. /\ heap_addr' = heap_addr + size
      /\ UNCHANGED <<__end, phys_alloc_addr, kdir, tables, mem, frames, i>>
  BY DEF Kmalloc
<1>4. Addresses' /\ Laid' /\ Up({0})'
  BY <1>1, <1>2, <1>3, UsingStays DEF Addresses, Laid, InSize, Parts
<1>5. CASE HeapFull(size)
  <2>1. at' = "panic" /\ blocks' = blocks
    BY <1>5 DEF Kmalloc
  <2>2. HeapEnd < heap_addr'
    BY <1>2, <1>3, <1>5 DEF HeapFull, HeapEnd
  <2>3. Blocks(blocks', HeapEnd)
    BY <1>2, <2>1 DEF Blocks
  <2>4. AtPanic'
    BY <1>4, <2>2, <2>3 DEF AtPanic
  <2>. QED  BY <1>4, <2>1, <2>4 DEF VmInv
<1>6. CASE ~ HeapFull(size)
  <2>. DEFINE new == <<heap_addr, size>>
  <2>1. at' = "on" /\ blocks' = blocks \union {new}
    BY <1>1, <1>6 DEF Kmalloc
  <2>2. heap_addr' <= HeapEnd /\ KHEAP_BASE <= heap_addr'
    BY <1>2, <1>3, <1>6 DEF HeapFull, HeapEnd
  <2>3. new[1] = heap_addr /\ new[2] = size
    OBVIOUS
  <2>. HIDE DEF new
  <2>4. \A b \in blocks : /\ b[1] \in Nat /\ b[2] \in Nat /\ KHEAP_BASE <= b[1]
                          /\ b[1] + b[2] <= heap_addr /\ b[1] + b[2] <= heap_addr'
    BY <1>2, <1>3 DEF Blocks
  <2>5. \A b \in blocks' : /\ b[1] \in Nat /\ b[2] \in Nat /\ KHEAP_BASE <= b[1]
                           /\ b[1] + b[2] <= heap_addr'
    BY <1>2, <1>3, <2>1, <2>3, <2>4
  <2>6. \A b, c \in blocks' : b # c => b[1] + b[2] <= c[1] \/ c[1] + c[2] <= b[1]
    BY <1>2, <2>1, <2>3, <2>4 DEF Blocks
  <2>7. AtOn'
    BY <1>4, <2>2, <2>5, <2>6 DEF AtOn, Blocks
  <2>. QED  BY <1>4, <2>1, <2>7 DEF VmInv
<1>. QED  BY <1>5, <1>6

\* The invariant holds in every state.
THEOREM MemoryIsLaidOut == Spec => []VmInv
<1>1. Init => VmInv
  <2>. SUFFICES ASSUME Init PROVE VmInv
    OBVIOUS
  <2>1. Addresses
    BY MemoryAssumption DEF Init, Addresses, NULL
  <2>2. AtKdir
    BY DEF Init, AtKdir, NoBlocks
  <2>. QED  BY <2>1, <2>2 DEF Init, VmInv
<1>2. VmInv /\ [Next]_vars => VmInv'
  <2>. SUFFICES ASSUME VmInv, [Next]_vars PROVE VmInv'
    OBVIOUS
  <2>1. CASE MakeDirectory
    BY <2>1, MakeDirectoryStep
  <2>2. CASE MakeHeapTables
    BY <2>2, MakeHeapTablesStep
  <2>3. CASE MapUsed
    BY <2>3, MapUsedStep, MapUsedEnds
  <2>4. CASE MapHeap
    BY <2>4, MapHeapStep
  <2>5. CASE EnablePaging
    BY <2>5, EnablePagingStep
  <2>6. ASSUME NEW size \in Sizes, Kmalloc(size) PROVE VmInv'
    BY <2>6, KmallocStep
  <2>7. CASE UNCHANGED vars
    <3>1. UNCHANGED <<__end, phys_alloc_addr, kdir, tables, mem, frames, i, heap_addr, blocks, at>>
      BY <2>7 DEF vars
    <3>2. /\ Addresses' <=> Addresses
          /\ Laid' <=> Laid
          /\ AtKdir' <=> AtKdir
      BY <3>1 DEF Addresses, Laid, AtKdir, InSize, Parts, NoBlocks
    <3>3. AtTables' <=> AtTables
      BY <3>1 DEF AtTables, NoBlocks
    <3>4. (AtUsed' <=> AtUsed) /\ (AtHeap' <=> AtHeap)
      BY <3>1, UsingStays DEF AtUsed, AtHeap, HeapHasTables, NoBlocks, UsedEnd
    <3>5. (AtNull' <=> AtNull) /\ (AtOn' <=> AtOn) /\ (AtPanic' <=> AtPanic)
      BY <3>1, UsingStays DEF AtNull, AtOn, AtPanic, Blocks, NoBlocks, Needed, Parts
    <3>. QED  BY <3>1, <3>2, <3>3, <3>4, <3>5 DEF VmInv
  <2>. QED  BY <2>1, <2>2, <2>3, <2>4, <2>5, <2>6, <2>7 DEF Next
<1>. QED  BY <1>1, <1>2, PTL DEF Spec

----------------------------------------------------------------------------
(***************************************************************************)
(* What the processor sees.                                                *)
(***************************************************************************)
LEMMA TableOfIsTheTable ==
    ASSUME NEW addr, NEW kd, TablesOK(tables, addr, kd), NEW v \in Page
    PROVE  TableOf(v) = tables[v \div PAGE_SIZE]
<1>. DEFINE k == v \div PAGE_SIZE
<1>1. k \in Index /\ tables[k] \in Nat /\ PAGE_SIZE \in Nat \ {0}
  BY PagesOf DEF TablesOK
<1>2. tables[k] % PAGE_SIZE = 0
  <2>1. CASE tables[k] = NULL
    BY <1>1, <2>1, MultipleDivided DEF NULL
  <2>2. CASE tables[k] # NULL
    BY <1>1, <2>2 DEF TablesOK, Made
  <2>. QED  BY <2>1, <2>2
<1>3. TableOf(v) = tables[k] - (tables[k] % PAGE_SIZE)
  BY DEF TableOf, AlignDown
<1>. QED  BY <1>1, <1>2, <1>3

\* The pages that are mapped are the ones vm_init mapped, but for the first one, and with the
\* frames it gave them.
LEMMA MappedPages ==
    ASSUME Laid, NEW lo \in Nat, Using(lo, HeapLength, {0})
    PROVE  /\ Mapped = Done(lo, HeapLength) \ {0}
           /\ \A v \in Mapped : Translate(v).frameaddr = FrameOf(lo, v)
<1>1. TablesOK(tables, phys_alloc_addr, kdir) /\ Maps(tables, mem, lo, HeapLength, {0})
  BY DEF Laid, Using
<1>2. Done(lo, HeapLength) \subseteq Page
  <2>1. HeapLength \in Nat /\ NFRAMES \in Nat /\ lo + HeapLength <= NFRAMES
    BY TheHeap DEF Using
  <2>2. lo <= NFRAMES
    BY <2>1
  <2>. QED  BY <2>1, <2>2, DonePages
<1>3. \A v \in Page : Translate(v) = Entry(Slot(tables, v))
  BY <1>1, TableOfIsTheTable DEF Translate, Slot
<1>4. ASSUME NEW v \in Done(lo, HeapLength) \ {0}
      PROVE  v \in Mapped /\ Translate(v).frameaddr = FrameOf(lo, v)
  <2>1. /\ v \in Page /\ tables[v \div PAGE_SIZE] # NULL /\ Slot(tables, v) \in DOMAIN mem
        /\ mem[Slot(tables, v)] = Present(FrameOf(lo, v))
    BY <1>1, <1>2 DEF Maps
  <2>2. Translate(v) = Present(FrameOf(lo, v))
    BY <1>3, <2>1 DEF Entry
  <2>3. Translate(v).present /\ Translate(v).frameaddr = FrameOf(lo, v)
    BY <2>2 DEF Present
  <2>4. TableOf(v) # NULL
    BY <1>1, <2>1, TableOfIsTheTable
  <2>. QED  BY <2>1, <2>3, <2>4 DEF Mapped
<1>5. ASSUME NEW v \in Mapped
      PROVE  v \in Done(lo, HeapLength) \ {0}
  <2>1. v \in Page /\ tables[v \div PAGE_SIZE] # NULL /\ Entry(Slot(tables, v)).present
    BY <1>1, <1>3, TableOfIsTheTable DEF Mapped
  <2>2. Slot(tables, v) \in DOMAIN mem /\ mem[Slot(tables, v)].present
    BY <2>1 DEF Entry, Zero
  <2>3. PICK w \in Done(lo, HeapLength) : Slot(tables, v) = Slot(tables, w)
    BY <1>1, <2>2 DEF Maps
  <2>4. tables[w \div PAGE_SIZE] # NULL
        /\ mem[Slot(tables, w)] = IF w \in {0} THEN Zero ELSE Present(FrameOf(lo, w))
    BY <1>1 DEF Maps
  <2>5. v = w
    BY <1>1, <1>2, <2>1, <2>3, <2>4, SlotsApart
  <2>6. v # 0
    BY <2>2, <2>3, <2>4, <2>5 DEF Zero
  <2>. QED  BY <2>5, <2>6
<1>. QED  BY <1>4, <1>5

\* How many pages the memory in use is, when all is mapped.
LEMMA UpPages ==
    ASSUME Addresses, NEW lo \in Nat, UsedEnd <= lo * PAGE_SIZE, Using(lo, HeapLength, {0})
    PROVE  /\ 1 <= lo /\ lo <= HeapPage
           /\ \A v \in Nat : v * PAGE_SIZE < phys_alloc_addr => v < lo
<1>1. /\ UsedEnd \in Nat /\ 0 < UsedEnd /\ phys_alloc_addr \in Nat /\ phys_alloc_addr <= UsedEnd
      /\ PAGE_SIZE \in Nat \ {0} /\ HeapPage \in Nat
  <2>1. Slack \in Nat /\ HeapPage \in Nat
    BY TheHeap
  <2>. QED  BY <2>1, TheImage, PagesOf DEF UsedEnd, Addresses
<1>2. lo # 0
  <2>1. 0 * PAGE_SIZE = 0
    BY <1>1
  <2>. QED  BY <1>1, <2>1
<1>3. lo <= HeapPage
  <2>1. HeapLength \in Nat /\ NFRAMES \in Nat /\ lo + HeapLength <= NFRAMES /\ NFRAMES <= HeapPage
    BY TheHeap DEF Using
  <2>. QED  BY <1>1, <2>1
<1>4. ASSUME NEW v \in Nat, v * PAGE_SIZE < phys_alloc_addr PROVE v < lo
  <2>1. v * PAGE_SIZE \in Nat /\ lo * PAGE_SIZE \in Nat
    BY <1>1
  <2>2. v * PAGE_SIZE < lo * PAGE_SIZE
    BY <1>1, <1>4, <2>1
  <2>. QED  BY <1>1, <2>2, MultiplesApart
<1>. QED  BY <1>2, <1>3, <1>4

\* vm_init puts the directory and its tables behind the image, at the beginning of pages, and
\* no table in another one.
THEOREM TablesApart == Spec => []TablesAreApart
<1>1. VmInv => TablesAreApart
  <2>. SUFFICES ASSUME VmInv PROVE TablesAreApart
    OBVIOUS
  <2>1. CASE at = "kdir" /\ AtKdir
    <3>1. kdir = NULL /\ {k \in Index : tables[k] # NULL} = {}
      BY <2>1 DEF AtKdir
    <3>. QED  BY <3>1 DEF TablesAreApart
  <2>2. CASE Laid
    <3>1. /\ kdir >= __end /\ kdir % PAGE_SIZE = 0
          /\ TablesOK(tables, phys_alloc_addr, kdir)
      BY <2>2 DEF Laid
    <3>2. \A k \in Made(tables) : tables[k] >= kdir + 2 * PAGE_SIZE /\ tables[k] % PAGE_SIZE = 0
      <4>. TAKE k \in Made(tables)
      <4>1. tables[k] \in Nat /\ kdir \in Nat /\ PAGE_SIZE \in Nat
        BY <3>1, PagesOf DEF TablesOK, Made, VmInv, Addresses
      <4>2. kdir + 2 * PAGE_SIZE <= tables[k] /\ tables[k] % PAGE_SIZE = 0
        BY <3>1 DEF TablesOK
      <4>. QED  BY <4>1, <4>2
    <3>. QED  BY <3>1, <3>2 DEF TablesAreApart, TablesOK, Made
  <2>. QED  BY <2>1, <2>2 DEF VmInv
<1>. QED  BY <1>1, MemoryIsLaidOut, PTL

\* When paging is switched on, the memory in use, the tables included, keeps its addresses,
\* and a NULL pointer faults.
THEOREM UsedKeepsItsAddresses == Spec => []UsedIsMappedToItself
<1>1. VmInv => UsedIsMappedToItself
  <2>. SUFFICES ASSUME VmInv, at = "on"
                PROVE  /\ \A v \in UsedPages \ {0} : v \in Mapped /\ Translate(v).frameaddr = v
                       /\ 0 \notin Mapped
    BY DEF UsedIsMappedToItself
  <2>1. Addresses /\ Laid /\ AtOn
    BY DEF VmInv
  <2>2. PICK lo \in Nat : UsedEnd <= lo * PAGE_SIZE /\ Using(lo, HeapLength, {0})
    BY <2>1 DEF AtOn, Up
  <2>3. /\ Mapped = Done(lo, HeapLength) \ {0}
        /\ \A v \in Mapped : Translate(v).frameaddr = FrameOf(lo, v)
    BY <2>1, <2>2, MappedPages
  <2>4. ASSUME NEW v \in UsedPages \ {0}
        PROVE  v \in Mapped /\ Translate(v).frameaddr = v
    <3>1. v \in Nat /\ v < lo
      BY <2>1, <2>2, UpPages, PagesOf DEF UsedPages
    <3>2. v \in 0..(lo - 1)
      BY <3>1
    <3>3. v \in Mapped
      BY <2>3, <3>2 DEF Done
    <3>. QED  BY <2>3, <3>1, <3>3 DEF FrameOf
  <2>. QED  BY <2>3, <2>4
<1>. QED  BY <1>1, MemoryIsLaidOut, PTL

\* No two pages share a frame.
THEOREM FramesApart == Spec => []FramesAreApart
<1>1. VmInv => FramesAreApart
  <2>. SUFFICES ASSUME VmInv, at = "on", NEW v \in Mapped, NEW w \in Mapped,
                       Translate(v).frameaddr = Translate(w).frameaddr
                PROVE  v = w
    BY DEF FramesAreApart
  <2>1. Addresses /\ Laid /\ AtOn
    BY DEF VmInv
  <2>2. PICK lo \in Nat : UsedEnd <= lo * PAGE_SIZE /\ Using(lo, HeapLength, {0})
    BY <2>1 DEF AtOn, Up
  <2>3. /\ v \in Done(lo, HeapLength) /\ w \in Done(lo, HeapLength)
        /\ FrameOf(lo, v) = FrameOf(lo, w)
    BY <2>1, <2>2, MappedPages
  <2>4. HeapPage \in Nat /\ HeapLength \in Nat /\ lo <= NFRAMES /\ NFRAMES \in Nat
    <3>1. HeapPage \in Nat /\ HeapLength \in Nat /\ NFRAMES \in Nat
      BY TheHeap
    <3>2. lo + HeapLength <= NFRAMES
      BY <2>2 DEF Using
    <3>. QED  BY <3>1, <3>2
  <2>5. /\ v \in Nat /\ (v < lo \/ (HeapPage <= v /\ lo <= v))
        /\ w \in Nat /\ (w < lo \/ (HeapPage <= w /\ lo <= w))
    BY <2>3, <2>4, DonePages
  <2>. QED  BY <2>3, <2>4, <2>5 DEF FrameOf
<1>. QED  BY <1>1, MemoryIsLaidOut, PTL

\* What kmalloc returns is mapped memory, and no two blocks overlap.
THEOREM KmallocGivesMemory == Spec => []BlocksAreMemory
<1>1. VmInv => BlocksAreMemory
  <2>. SUFFICES ASSUME VmInv PROVE BlocksAreMemory
    OBVIOUS
  <2>1. CASE blocks = {}
    BY <2>1 DEF BlocksAreMemory
  <2>2. CASE blocks # {}
    <3>1. Addresses /\ Laid /\ Up({0}) /\ Blocks(blocks, HeapEnd)
      <4>1. CASE at = "on" /\ Laid /\ AtOn
        <5>1. heap_addr \in Nat /\ heap_addr <= HeapEnd /\ HeapEnd \in Nat /\ Blocks(blocks, heap_addr)
          BY <4>1, TheHeap DEF AtOn, VmInv, Addresses
        <5>2. Blocks(blocks, HeapEnd)
          BY <5>1 DEF Blocks
        <5>. QED  BY <4>1, <5>2 DEF AtOn, VmInv
      <4>2. CASE at = "panic" /\ Laid /\ AtPanic
        BY <2>2, <4>2 DEF AtPanic, NoBlocks, VmInv
      <4>. QED  BY <2>2, <4>1, <4>2 DEF VmInv, AtKdir, AtTables, AtUsed, AtHeap, AtNull, NoBlocks
    <3>2. PICK lo \in Nat : UsedEnd <= lo * PAGE_SIZE /\ Using(lo, HeapLength, {0})
      BY <3>1 DEF Up
    <3>3. Mapped = Done(lo, HeapLength) \ {0}
      BY <3>1, <3>2, MappedPages
    <3>4. ASSUME NEW b \in blocks, NEW a \in b[1]..(b[1] + b[2] - 1)
          PROVE  a \div PAGE_SIZE \in Mapped
      <4>1. b[1] \in Nat /\ b[2] \in Nat /\ KHEAP_BASE <= b[1] /\ b[1] + b[2] <= HeapEnd
        BY <3>1 DEF Blocks
      <4>2. /\ HeapPage \in Nat /\ HeapLength \in Nat /\ PAGE_SIZE \in Nat \ {0}
            /\ KHEAP_BASE = HeapPage * PAGE_SIZE /\ HeapEnd = (HeapPage + HeapLength) * PAGE_SIZE
            /\ KHEAP_BASE \in Nat /\ HeapEnd \in Nat
        BY TheHeap, PagesOf
      <4>3. a \in Nat /\ HeapPage * PAGE_SIZE <= a /\ a < (HeapPage + HeapLength) * PAGE_SIZE
        BY <4>1, <4>2
      <4>. DEFINE q == a \div PAGE_SIZE
                  r == a % PAGE_SIZE
                  n == HeapPage + HeapLength
      <4>4. q \in Nat /\ r \in 0..(PAGE_SIZE - 1) /\ a = q * PAGE_SIZE + r /\ n \in Nat
        <5>1. a \in Nat /\ PAGE_SIZE \in Nat \ {0}
          BY <4>2, <4>3
        <5>2. q \in Nat /\ r \in 0..(PAGE_SIZE - 1) /\ a = q * PAGE_SIZE + r
          BY <5>1, DivMod
        <5>3. n \in Nat
          BY <4>2
        <5>. QED  BY <5>2, <5>3
      <4>. HIDE DEF q, r
      <4>5. q < n /\ HeapPage < q + 1
        <5>1. q * PAGE_SIZE \in Nat /\ (q + 1) * PAGE_SIZE = q * PAGE_SIZE + PAGE_SIZE
              /\ n * PAGE_SIZE \in Nat /\ HeapPage * PAGE_SIZE \in Nat /\ q + 1 \in Nat
          BY <4>2, <4>4
        <5>2. q * PAGE_SIZE < n * PAGE_SIZE /\ HeapPage * PAGE_SIZE < (q + 1) * PAGE_SIZE
          BY <4>2, <4>3, <4>4, <5>1
        <5>. HIDE DEF n
        <5>. QED  BY <4>2, <4>4, <5>1, <5>2, MultiplesApart
      <4>6. q \in HeapPage..(HeapPage + HeapLength - 1) /\ q # 0
        <5>1. 1 <= lo /\ lo <= HeapPage
          BY <3>1, <3>2, UpPages
        <5>. QED  BY <4>2, <4>4, <4>5, <5>1
      <4>. QED  BY <3>3, <4>6 DEF Done, q
    <3>. QED  BY <3>1, <3>4 DEF BlocksAreMemory, Blocks
  <2>. QED  BY <2>1, <2>2
<1>. QED  BY <1>1, MemoryIsLaidOut, PTL

\* An image that fits in the frames there are, with its tables and the heap, comes up.
THEOREM AnImageThatFitsComesUp == Spec => []ComesUpIfItFits
<1>1. VmInv => ComesUpIfItFits
  <2>. SUFFICES ASSUME VmInv, at = "panic", heap_addr = KHEAP_BASE PROVE ComesUpIfItFits
    BY DEF ComesUpIfItFits
  <2>1. AtPanic
    BY DEF VmInv
  <2>2. KHEAP_BASE \in Nat /\ HeapEnd \in Nat /\ KHEAP_BASE <= HeapEnd
    BY TheHeap DEF HeapEnd
  <2>3. Needed(tables) > NFRAMES
    BY <2>1, <2>2 DEF AtPanic
  <2>. QED  BY <2>3 DEF ComesUpIfItFits, Needed, Parts, Ceil, Made
<1>. QED  BY <1>1, MemoryIsLaidOut, PTL
=============================================================================
