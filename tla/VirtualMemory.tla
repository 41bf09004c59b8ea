--------------------------- MODULE VirtualMemory ---------------------------
(***************************************************************************)
(* Virtual memory and the first heap (kernel/core-c.c): vm_init builds the *)
(* page tables in the memory behind the kernel's image, while the memory   *)
(* it has to map grows with every table, and then switches paging on; from *)
(* then on kmalloc hands out addresses of the heap.                        *)
(*                                                                         *)
(* Addresses count in page entries: a page is as long as a table, and the  *)
(* page directory, two words for each table, as long as two.  Memory is    *)
(* zero where nothing was written.                                         *)
(***************************************************************************)
EXTENDS Integers, FiniteSets, FiniteSetsExt, Functions

CONSTANTS
    PAGE_SIZE,      \* the words of a page; entries in a table, tables in a directory (1024)
    NFRAMES,        \* the frames of physical memory
    KHEAP_BASE,     \* where the heap begins
    KHEAP_SIZE,     \* how long it is
    Slack,          \* what is mapped behind the memory in use (0x10000)
    ImageEnds,      \* where the kernel's image may end
    Sizes           \* the sizes that are asked for once the heap is there

ASSUME MemoryAssumption ==
    /\ PAGE_SIZE \in Nat \ {0}
    /\ NFRAMES \in Nat
    /\ KHEAP_BASE \in Nat /\ KHEAP_BASE % PAGE_SIZE = 0
    /\ KHEAP_SIZE \in Nat /\ KHEAP_SIZE % PAGE_SIZE = 0
    /\ NFRAMES * PAGE_SIZE <= KHEAP_BASE
    /\ KHEAP_BASE + KHEAP_SIZE < PAGE_SIZE * PAGE_SIZE * PAGE_SIZE
    /\ Slack \in Nat
    /\ \A end \in ImageEnds : end \in Nat /\ end >= PAGE_SIZE
    /\ Sizes \subseteq Nat

NULL  == 0
Index == 0..(PAGE_SIZE - 1)
Frame == 0..(NFRAMES - 1)
Page  == 0..(PAGE_SIZE * PAGE_SIZE - 1)

HeapPages == {v \in Page : v * PAGE_SIZE >= KHEAP_BASE
                           /\ v * PAGE_SIZE < KHEAP_BASE + KHEAP_SIZE}

VARIABLES
    __end,              \* where the image ends
    phys_alloc_addr,    \* the next free physical address
    kdir,               \* the page directory
    tables,             \* the address of each table; tables_phys holds the same
    mem,                \* the page entries that have been written, by address
    frames,             \* the frames marked as used
    i,                  \* the variable of the loops
    heap_addr,          \* the next free address of the heap
    blocks,             \* what kmalloc returned once paging was on, with the sizes
    at                  \* "kdir", "tables", "used", "heap", "null", "on" or "panic"

vars == <<__end, phys_alloc_addr, kdir, tables, mem, frames, i, heap_addr, blocks, at>>

----------------------------------------------------------------------------
(***************************************************************************)
(* kmalloc, as long as there is no heap.  What is asked for page by page   *)
(* begins on the next page, even where a page begins already.              *)
(***************************************************************************)
NextPage(a) == (a \div PAGE_SIZE + 1) * PAGE_SIZE

\* A plausible slip: the address is rounded down, not up.
AlignDown(a) == a - (a % PAGE_SIZE)

PageAligned(a) == IF a >= PAGE_SIZE THEN NextPage(a) ELSE a

TableIndex(addr) == (addr \div PAGE_SIZE) \div PAGE_SIZE

(***************************************************************************)
(* get_page: the table is made if it is missing.  m is phys_alloc_addr and *)
(* the tables.                                                             *)
(***************************************************************************)
\* A plausible slip: a table is made in any case.
GetPageMakesTable(m, addr) ==
    LET table == PageAligned(m.addr)
    IN  [addr |-> table + PAGE_SIZE, tables |-> [m.tables EXCEPT ![TableIndex(addr)] = table]]

get_page(m, addr) ==
    LET index == TableIndex(addr)
        table == PageAligned(m.addr)
    IN  IF m.tables[index] # NULL THEN m
        ELSE [addr |-> table + PAGE_SIZE, tables |-> [m.tables EXCEPT ![index] = table]]

EntryAt(tabs, addr) ==
    tabs[TableIndex(addr)] + ((addr \div PAGE_SIZE) % PAGE_SIZE)

Zero == [present |-> FALSE, frameaddr |-> 0]

Entry(a) == IF a \in DOMAIN mem THEN mem[a] ELSE Zero

\* An entry is written.
Write(a, entry) == [b \in DOMAIN mem \union {a} |-> IF b = a THEN entry ELSE mem[b]]

SetTables(m) == phys_alloc_addr' = m.addr /\ tables' = m.tables

\* A plausible slip: the frame is not marked as used.
MarkNothing(f) == {}

set_bit(f) == {f}

FreeFrames == Frame \ frames

(***************************************************************************)
(* new_frame: the entry at a gets the first free frame, unless it has one. *)
(***************************************************************************)
new_frame(a) ==
    LET f == Min(FreeFrames)
    IN  IF Entry(a).frameaddr # 0 THEN UNCHANGED <<mem, frames, at>>
        ELSE IF FreeFrames = {} THEN at' = "panic" /\ UNCHANGED <<mem, frames>>
        ELSE /\ mem' = Write(a, [present |-> TRUE, frameaddr |-> f])
             /\ frames' = frames \union set_bit(f)
             /\ UNCHANGED at

----------------------------------------------------------------------------
(***************************************************************************)
(* vm_init, loop by loop.                                                  *)
(***************************************************************************)
Init ==
    /\ __end \in ImageEnds
    /\ phys_alloc_addr = __end
    /\ kdir = NULL
    /\ tables = [k \in Index |-> NULL]
    /\ mem = << >>
    /\ frames = {}
    /\ i = 0
    /\ heap_addr = KHEAP_BASE
    /\ blocks = {}
    /\ at = "kdir"

Goto(phase, first) == at' = phase /\ i' = first

\* kdir is made and cleared.
MakeDirectory ==
    /\ at = "kdir"
    /\ kdir' = PageAligned(phys_alloc_addr)
    /\ phys_alloc_addr' = kdir' + 2 * PAGE_SIZE
    /\ Goto("tables", KHEAP_BASE)
    /\ UNCHANGED <<__end, tables, mem, frames, heap_addr, blocks>>

\* The heap's tables come before the memory they are in is mapped.
MakeHeapTables ==
    /\ at = "tables"
    /\ IF i < KHEAP_BASE + KHEAP_SIZE
       THEN /\ SetTables(get_page([addr |-> phys_alloc_addr, tables |-> tables], i))
            /\ i' = i + 1
            /\ UNCHANGED at
       ELSE Goto("used", 0) /\ UNCHANGED <<phys_alloc_addr, tables>>
    /\ UNCHANGED <<__end, kdir, mem, frames, heap_addr, blocks>>

MapPage ==
    LET m == get_page([addr |-> phys_alloc_addr, tables |-> tables], i)
    IN  /\ SetTables(m)
        /\ new_frame(EntryAt(m.tables, i))
        /\ i' = i + PAGE_SIZE

\* A plausible slip: only the image is mapped, and not what was allocated behind it.
ImageOnly == __end

UsedEnd == phys_alloc_addr + Slack

\* phys_alloc_addr is read again in each turn: a new table moves it.
MapUsed ==
    /\ at = "used"
    /\ IF i < UsedEnd THEN MapPage
       ELSE Goto("heap", KHEAP_BASE) /\ UNCHANGED <<phys_alloc_addr, tables, mem, frames>>
    /\ UNCHANGED <<__end, kdir, heap_addr, blocks>>

MapHeap ==
    /\ at = "heap"
    /\ IF i < KHEAP_BASE + KHEAP_SIZE THEN MapPage
       ELSE Goto("null", 0) /\ UNCHANGED <<phys_alloc_addr, tables, mem, frames>>
    /\ UNCHANGED <<__end, kdir, heap_addr, blocks>>

\* The entry of page 0 is cleared, and paging switched on.
EnablePaging ==
    /\ at = "null"
    /\ mem' = Write(EntryAt(tables, 0), Zero)
    /\ Goto("on", 0)
    /\ UNCHANGED <<__end, phys_alloc_addr, kdir, tables, frames, heap_addr, blocks>>

(***************************************************************************)
(* kmalloc on the heap: a panic does not return what was taken too much.   *)
(***************************************************************************)
\* A plausible slip: the end is tested before the block is taken.
HeapFullBefore(size) == heap_addr > KHEAP_BASE + KHEAP_SIZE

HeapFull(size) == heap_addr + size > KHEAP_BASE + KHEAP_SIZE

Kmalloc(size) ==
    /\ at = "on"
    /\ heap_addr' = heap_addr + size
    /\ IF HeapFull(size)
       THEN at' = "panic" /\ UNCHANGED blocks
       ELSE blocks' = blocks \union {<<heap_addr, size>>} /\ UNCHANGED at
    /\ UNCHANGED <<__end, phys_alloc_addr, kdir, tables, mem, frames, i>>

Next ==
    \/ MakeDirectory
    \/ MakeHeapTables
    \/ MapUsed
    \/ MapHeap
    \/ EnablePaging
    \/ \E size \in Sizes : Kmalloc(size)

Spec == Init /\ [][Next]_vars

----------------------------------------------------------------------------
(***************************************************************************)
(* Properties.                                                             *)
(***************************************************************************)
(***************************************************************************)
(* What the processor does with a page: the directory names the table, and *)
(* the bits of its address below a page are flags.                         *)
(***************************************************************************)
TableOf(v) == AlignDown(tables[v \div PAGE_SIZE])

Translate(v) == Entry(TableOf(v) + (v % PAGE_SIZE))

Mapped == {v \in Page : TableOf(v) # NULL /\ Translate(v).present}

UsedPages == {v \in Page : v * PAGE_SIZE < phys_alloc_addr}

\* All memory in use when paging is switched on, the tables and the directory
\* included, has the address it had before; so the kernel runs on, and finds the
\* tables it wrote.  Page 0 is the exception: a NULL pointer faults.
UsedIsMappedToItself ==
    at = "on" =>
        /\ \A v \in UsedPages \ {0} : v \in Mapped /\ Translate(v).frameaddr = v
        /\ 0 \notin Mapped

\* No two pages share a frame, so nothing that is written on the heap shows in
\* the image or in the tables.
FramesAreApart ==
    at = "on" =>
        \A v, w \in Mapped : Translate(v).frameaddr = Translate(w).frameaddr => v = w

\* The directory and the tables lie behind the image, each at the beginning of
\* a page and none in another one.
TablesAreApart ==
    LET made == {k \in Index : tables[k] # NULL}
    IN  /\ kdir # NULL => kdir >= __end /\ kdir % PAGE_SIZE = 0
        /\ \A k \in made : tables[k] >= kdir + 2 * PAGE_SIZE /\ tables[k] % PAGE_SIZE = 0
        /\ \A k, l \in made : tables[k] = tables[l] => k = l

\* What kmalloc returns is mapped from its first word to its last, and no two
\* blocks overlap.
BlocksAreMemory ==
    /\ \A b \in blocks : \A a \in b[1]..(b[1] + b[2] - 1) : a \div PAGE_SIZE \in Mapped
    /\ \A b, c \in blocks : b # c => b[1] + b[2] <= c[1] \/ c[1] + c[2] <= b[1]

\* The kernel runs out of frames only if the image, what is allocated behind it
\* (two pages for each table, whose alignment skips one), the rest that is mapped
\* and the heap do not fit: an image that fits comes up.
ComesUpIfItFits ==
    at = "panic" /\ blocks = {} /\ heap_addr = KHEAP_BASE =>
        LET ceil(a) == (a + PAGE_SIZE - 1) \div PAGE_SIZE
            needed  == ceil(__end) + 3 + 2 * Cardinality({k \in Index : tables[k] # NULL})
                          + ceil(Slack) + Cardinality(HeapPages)
        IN  needed > NFRAMES
=============================================================================
