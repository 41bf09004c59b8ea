------------------------------- MODULE Kernel -------------------------------
(***************************************************************************)
(* The MPX kernel below the processes: the PCBs and queues of user/pcb.c   *)
(* as state, the kernel heap they are allocated from (kernel/core-c.c),    *)
(* and the IDLE and EXIT system calls with the dispatch that ends both     *)
(* (kernel/sys_call.c).                                                    *)
(*                                                                         *)
(* pic_init masks every hardware interrupt, so the code between two system *)
(* calls is one step, and a system call is the only place where the CPU    *)
(* changes hands.                                                          *)
(***************************************************************************)
EXTENDS Pcb

CONSTANTS
    PcbSize,        \* sizeof(struct pcb)
    QueueSize,      \* sizeof(struct queue)
    HeapSize        \* bytes in the kernel heap, KHEAP_SIZE

ASSUME HeapAssumption ==
    PcbSize \in Nat \ {0} /\ QueueSize \in Nat \ {0} /\ HeapSize \in Nat

VARIABLES
    pcb,                \* every PCB allocated so far, oldest first
    queue,              \* the PCBs on each queue, front first
    made,               \* the queues whose struct has been allocated
    heap_addr,          \* bytes of the heap handed out
    current_process,    \* the running PCB; NULL while kmain runs
    insert_flag,        \* IDLE was called by a process: dispatch files it
    initial_context,    \* where kmain gave up the CPU, NoContext once used
    cpu,                \* the context the CPU is running
    machine,            \* "on", or why it stopped
    ended,              \* history: PCBs that called EXIT or were deleted
    freed               \* history: PCBs that pcb_free was called on

memVars    == <<pcb, queue, made, heap_addr, machine>>
schedVars  == <<current_process, insert_flag, initial_context, freed>>
kernelVars == <<memVars, schedVars, cpu, ended>>

(***************************************************************************)
(* A context is a place in a program, the value of the one local variable  *)
(* there that matters (0 where none does), and the PCB in whose stack the  *)
(* context is saved: NULL for kmain, which runs on the boot stack.         *)
(***************************************************************************)
Context(p, eip, i) == [stk |-> p, eip |-> eip, i |-> i]

NoContext == Context(NULL, "none", 0)

----------------------------------------------------------------------------
(***************************************************************************)
(* pcb_insert(p).  The caller says what the queues, the PCBs and the heap  *)
(* are by now.  There are three cases.  The first PCB for a queue          *)
(* allocates the queue.  An allocated but empty FIFO queue is walked from  *)
(* its NULL front, and page 0 is not mapped: the kernel panics.            *)
(* Otherwise the PCB is linked in.                                         *)
(***************************************************************************)
CreateQueue(n, qs, p, heap) ==
    /\ n \notin made
    /\ heap_addr' = heap + QueueSize
    /\ IF heap + QueueSize > HeapSize
       THEN /\ machine' = "heap_full"
            /\ queue' = qs
            /\ UNCHANGED made
       ELSE /\ made' = made \union {n}
            /\ queue' = [qs EXCEPT ![n] = <<p>>]
            /\ UNCHANGED machine

\* A plausible slip: the ready queues are not checked for being empty either.
WalkEmptyQueue(n, qs, heap) ==
    /\ n \in made
    /\ qs[n] = << >>
    /\ machine' = "page_fault"
    /\ queue' = qs
    /\ heap_addr' = heap
    /\ UNCHANGED made

WalkEmptyFifo(n, qs, heap) ==
    /\ n \in made \ PriorityQueue
    /\ qs[n] = << >>
    /\ machine' = "page_fault"
    /\ queue' = qs
    /\ heap_addr' = heap
    /\ UNCHANGED made

LinkIn(n, qs, ps, p, heap) ==
    /\ n \in made
    /\ n \in PriorityQueue \/ qs[n] # << >>
    /\ queue' = [qs EXCEPT ![n] = Enqueue(n, @, ps, p)]
    /\ heap_addr' = heap
    /\ UNCHANGED <<made, machine>>

PcbInsert(qs, ps, p, heap) ==
    LET n == QueueOf(ps[p])
    IN  /\ pcb' = ps
        /\ \/ CreateQueue(n, qs, p, heap)
           \/ WalkEmptyFifo(n, qs, heap)
           \/ LinkIn(n, qs, ps, p, heap)

(***************************************************************************)
(* A new PCB: allocate() and then pcb_insert.  sys_alloc_mem does not      *)
(* return when the heap is full, and nothing ever gives memory back.       *)
(***************************************************************************)
NewPcb(rec) ==
    LET p == Len(pcb) + 1
    IN  IF heap_addr + PcbSize > HeapSize
        THEN /\ machine' = "heap_full"
             /\ heap_addr' = heap_addr + PcbSize
             /\ UNCHANGED <<pcb, queue, made>>
        ELSE PcbInsert(queue, Append(pcb, rec), p, heap_addr + PcbSize)

----------------------------------------------------------------------------
(***************************************************************************)
(* The end of sys_call.  The front of the ready queue is chosen, taken     *)
(* off its queue and passed to pcb_free, and only then is the caller of    *)
(* IDLE filed: it cannot be chosen itself.  With nothing ready the CPU     *)
(* goes back to kmain; the caller is not filed and insert_flag stays.      *)
(***************************************************************************)

\* A plausible slip: insert_flag is not looked at and the caller not filed.
DispatchForgetsCaller(qs, ps, cur, flag, ic, fr) ==
    /\ qs["ready"] # << >>
    /\ LET next == Head(qs["ready"])
       IN  /\ cpu' = ps[next].stack_ptr
           /\ current_process' = next
           /\ queue' = PcbRemove(qs, next)
           /\ pcb' = ps
           /\ initial_context' = ic
           /\ insert_flag' = FALSE
           /\ freed' = fr \union {next}
           /\ UNCHANGED <<made, heap_addr, machine>>

Dispatch(qs, ps, cur, flag, ic, fr) ==
    \/ /\ qs["ready"] # << >>
       /\ LET next == Head(qs["ready"])
              rest == PcbRemove(qs, next)
          IN  /\ cpu' = ps[next].stack_ptr
              /\ current_process' = next
              /\ initial_context' = ic
              /\ insert_flag' = FALSE
              /\ freed' = fr \union {next}
              /\ IF flag
                 THEN PcbInsert(rest, ps, cur, heap_addr)
                 ELSE /\ pcb' = ps
                      /\ queue' = rest
                      /\ UNCHANGED <<made, heap_addr, machine>>
    \/ /\ qs["ready"] = << >>
       /\ cpu' = ic
       /\ initial_context' = NoContext
       /\ current_process' = cur
       /\ insert_flag' = flag
       /\ pcb' = ps
       /\ queue' = qs
       /\ freed' = fr
       /\ UNCHANGED <<made, heap_addr, machine>>

(***************************************************************************)
(* sys_req(IDLE): the caller is ready and will go on at ctx.  The first    *)
(* IDLE of all is kmain's, and ctx is kept as initial_context.             *)
(***************************************************************************)

\* A plausible slip: initial_context is overwritten by every IDLE.
SysIdleKeepsLatest(ctx) ==
    LET cur == current_process
        ps  == IF cur = NULL THEN pcb
               ELSE [pcb EXCEPT ![cur].execution_state = READY, ![cur].stack_ptr = ctx]
    IN  /\ Dispatch(queue, ps, cur, insert_flag \/ cur # NULL, ctx, freed)
        /\ UNCHANGED ended

SysIdle(ctx) ==
    LET cur == current_process
        ps  == IF cur = NULL THEN pcb
               ELSE [pcb EXCEPT ![cur].execution_state = READY, ![cur].stack_ptr = ctx]
        ic  == IF initial_context = NoContext THEN ctx ELSE initial_context
    IN  /\ Dispatch(queue, ps, cur, insert_flag \/ cur # NULL, ic, freed)
        /\ UNCHANGED ended

(***************************************************************************)
(* sys_req(EXIT): the caller's PCB is removed and freed.                   *)
(***************************************************************************)
SysExit ==
    LET cur == current_process
    IN  /\ ended' = ended \union ({cur} \ {NULL})
        /\ Dispatch(PcbRemove(queue, cur), pcb, NULL, insert_flag, initial_context,
                    freed \union ({cur} \ {NULL}))

----------------------------------------------------------------------------
\* Power-on: the heap is empty, no queue exists and kmain is running.
KernelInit ==
    /\ pcb = << >>
    /\ queue = [n \in QueueName |-> << >>]
    /\ made = {}
    /\ heap_addr = 0
    /\ current_process = NULL
    /\ insert_flag = FALSE
    /\ initial_context = NoContext
    /\ cpu = Context(NULL, "kmain_comhand", 0)
    /\ machine = "on"
    /\ ended = {}
    /\ freed = {}
=============================================================================
