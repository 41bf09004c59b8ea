----------------------------- MODULE MpxProofs -----------------------------
(***************************************************************************)
(* Proofs about Mpx, for every heap size, every set of programs and every  *)
(* sequence of commands: the variables have their types, every PCB is      *)
(* where its state says, and none is lost or in two places.                *)
(***************************************************************************)
EXTENDS Mpx, PcbTheorems

(***************************************************************************)
(* The inductive invariant.  Beside the properties themselves it says      *)
(* where each kind of context can go on, which is what makes dispatch      *)
(* safe: a process's saved context is never in kmain or inside loadR3, and *)
(* the only way back to kmain is the halt.  So insert_flag is left set     *)
(* only when nothing can call the kernel again, and pcb_insert is never    *)
(* given the NULL of a process that has ended.                             *)
(***************************************************************************)
BootLabel == {"kmain_comhand", "kmain_idle_proc", "kmain_yield"}

ProcessLabel == {"comhand", "comhand_end", "sys_idle", "r3", "alarm", "alarm_wait"}

SavedContextsResume(ps) == \A p \in DOMAIN ps : ps[p].stack_ptr.eip \in ProcessLabel

ContextsOK ==
    /\ SavedContextsResume(pcb)
    /\ cpu.eip \in BootLabel => current_process = NULL
    /\ initial_context = NoContext \/ initial_context.eip = "kmain_halt"
    /\ initial_context = NoContext => cpu.eip \in BootLabel \union {"kmain_halt"}
    /\ insert_flag => cpu.eip = "kmain_halt"
    /\ cpu.eip = "loadR3" => cpu.i \in DOMAIN R3Procs

Exclusive ==
    /\ current_process \notin Queued
    /\ current_process \notin ended
    /\ Queued \intersect ended = {}

NoneMissing == On => Pcbs \subseteq Queued \union ended \union {current_process}

UnmadeEmpty == \A n \in QueueName \ made : queue[n] = << >>

Inv ==
    /\ TypeOK
    /\ FiledByState
    /\ ContextsOK
    /\ Exclusive
    /\ NoneMissing
    /\ UnmadeEmpty

----------------------------------------------------------------------------
(***************************************************************************)
(* pcb_insert.  A PCB that is on no queue ends up on the queue its state   *)
(* names, or the machine has panicked and it is on none.                   *)
(***************************************************************************)
LEMMA QueueOfIsAQueue ==
    ASSUME NEW rec \in PCB
    PROVE  QueueOf(rec) \in QueueName
BY DEF QueueOf, PCB, QueueName, READY, BLOCKED, NOT_SUSPENDED, SUSPENDED

LEMMA InsertFiles ==
    ASSUME NEW ps \in Seq(PCB), NEW qs \in [QueueName -> Seq(DOMAIN ps)],
           NEW p \in DOMAIN ps, NEW heap \in Nat,
           Filed(qs, ps), p \notin OnQueues(qs),
           made \in SUBSET QueueName, machine \in MachineState,
           \A n \in QueueName \ made : qs[n] = << >>,
           PcbInsert(qs, ps, p, heap)
    PROVE  /\ pcb' = ps
           /\ queue' \in [QueueName -> Seq(DOMAIN ps)]
           /\ Filed(queue', ps)
           /\ made' \in SUBSET QueueName
           /\ \A n \in QueueName \ made' : queue'[n] = << >>
           /\ heap_addr' \in Nat
           /\ machine' \in MachineState
           /\ OnQueues(queue') \subseteq OnQueues(qs) \union {p}
           /\ machine' = "on" => machine = "on" /\ OnQueues(queue') = OnQueues(qs) \union {p}
<1>. DEFINE n == QueueOf(ps[p])
<1>1. n \in QueueName
  BY QueueOfIsAQueue, LenProperties
<1>2. QueueSize \in Nat
  BY HeapAssumption
<1>3. pcb' = ps
  BY DEF PcbInsert
<1>4. \A m \in QueueName : p \notin Range(qs[m])
  BY DEF OnQueues
<1>5. QueueOf(ps[p]) = n
  OBVIOUS
<1>. HIDE DEF n
<1>6. CASE CreateQueue(n, qs, p, heap)
  <2>1. heap_addr' \in Nat
    BY <1>2, <1>6 DEF CreateQueue
  <2>2. CASE heap + QueueSize > HeapSize
    BY <1>1, <1>3, <1>6, <2>1, <2>2 DEF CreateQueue, MachineState
  <2>3. CASE ~(heap + QueueSize > HeapSize)
    <3>1. /\ n \notin made
          /\ made' = made \union {n}
          /\ queue' = [qs EXCEPT ![n] = <<p>>]
          /\ machine' = machine
      BY <1>6, <2>3 DEF CreateQueue
    <3>2. <<p>> \in Seq(DOMAIN ps) /\ Range(<<p>>) = {p} /\ IsInjective(<<p>>)
      BY DEF Range, IsInjective
    <3>3. \A m \in QueueName : queue'[m] = IF m = n THEN <<p>> ELSE qs[m]
      BY <1>1, <3>1
    <3>4. Range(qs[n]) = {}
      BY <1>1, <3>1 DEF Range
    <3>5. queue' \in [QueueName -> Seq(DOMAIN ps)]
      BY <1>1, <3>1, <3>2
    <3>6. Filed(queue', ps)
      BY <1>1, <1>5, <3>2, <3>3 DEF Filed
    <3>7. OnQueues(queue') = OnQueues(qs) \union {p}
      <4>1. \A m \in QueueName : /\ Range(queue'[m]) \subseteq Range(qs[m]) \union {p}
                                 /\ Range(qs[m]) \subseteq Range(queue'[m])
        BY <3>2, <3>3, <3>4
      <4>2. p \in Range(queue'[n])
        BY <1>1, <3>2, <3>3
      <4>. QED  BY <1>1, <4>1, <4>2 DEF OnQueues
    <3>. QED  BY <1>1, <1>3, <2>1, <3>1, <3>3, <3>5, <3>6, <3>7
  <2>. QED  BY <2>2, <2>3
<1>7. CASE WalkEmptyFifo(n, qs, heap)
  BY <1>3, <1>7 DEF WalkEmptyFifo, MachineState
<1>8. CASE LinkIn(n, qs, ps, p, heap)
  <2>. DEFINE q == Enqueue(n, qs[n], ps, p)
  <2>1. /\ n \in made
        /\ made' = made
        /\ heap_addr' = heap
        /\ machine' = machine
        /\ queue' = [qs EXCEPT ![n] = q]
    BY <1>8 DEF LinkIn
  <2>2. /\ q \in Seq(DOMAIN ps)
        /\ Range(q) = Range(qs[n]) \union {p}
        /\ IsInjective(qs[n]) => IsInjective(q)
    BY <1>1, <1>4, EnqueueAdds
  <2>. HIDE DEF q
  <2>3. \A m \in QueueName : queue'[m] = IF m = n THEN q ELSE qs[m]
    BY <1>1, <2>1
  <2>4. queue' \in [QueueName -> Seq(DOMAIN ps)]
    BY <1>1, <2>1, <2>2
  <2>5. Filed(queue', ps)
    <3>1. IsInjective(qs[n]) /\ \A r \in Range(qs[n]) : QueueOf(ps[r]) = n
      BY <1>1 DEF Filed
    <3>2. IsInjective(q) /\ \A r \in Range(q) : QueueOf(ps[r]) = n
      BY <1>5, <2>2, <3>1
    <3>. QED  BY <2>3, <3>2 DEF Filed
  <2>6. OnQueues(queue') = OnQueues(qs) \union {p}
    <3>1. \A m \in QueueName : /\ Range(queue'[m]) \subseteq Range(qs[m]) \union {p}
                               /\ Range(qs[m]) \subseteq Range(queue'[m])
      BY <2>2, <2>3
    <3>2. p \in Range(queue'[n])
      BY <1>1, <2>2, <2>3
    <3>. QED  BY <1>1, <3>1, <3>2 DEF OnQueues
  <2>. QED  BY <1>3, <2>1, <2>3, <2>4, <2>5, <2>6
<1>. QED  BY <1>6, <1>7, <1>8 DEF PcbInsert, n

(***************************************************************************)
(* pcb_remove, on queues where every PCB is filed by its state.            *)
(***************************************************************************)
LEMMA RemoveUnfiles ==
    ASSUME NEW ps, NEW qs \in [QueueName -> Seq(DOMAIN ps)], NEW p,
           Filed(qs, ps)
    PROVE  /\ PcbRemove(qs, p) \in [QueueName -> Seq(DOMAIN ps)]
           /\ Filed(PcbRemove(qs, p), ps)
           /\ OnQueues(PcbRemove(qs, p)) = OnQueues(qs) \ {p}
           /\ \A n \in QueueName : qs[n] = << >> => PcbRemove(qs, p)[n] = << >>
<1>. DEFINE S  == DOMAIN ps
            rs == PcbRemove(qs, p)
<1>1. \A m, n \in QueueName : p \in Range(qs[m]) /\ p \in Range(qs[n]) => m = n
  BY DEF Filed
<1>2. /\ rs \in [QueueName -> Seq(S)]
      /\ \A n \in QueueName : Range(rs[n]) \subseteq Range(qs[n])
      /\ \A n \in QueueName : IsInjective(qs[n]) => IsInjective(rs[n])
      /\ \A n \in QueueName : Range(rs[n]) = Range(qs[n]) \ {p}
  BY <1>1, RemoveTakesOff DEF Filed
<1>. HIDE DEF rs, S
<1>3. Filed(rs, ps)
  BY <1>2 DEF Filed
<1>4. OnQueues(rs) = OnQueues(qs) \ {p}
  BY <1>2 DEF OnQueues
<1>5. ASSUME NEW n \in QueueName, qs[n] = << >> PROVE rs[n] = << >>
  <2>1. Range(qs[n]) = {}
    BY <1>5 DEF Range
  <2>2. Range(rs[n]) = {} /\ rs[n] \in Seq(S)
    BY <1>2, <2>1
  <2>3. Len(rs[n]) \in Nat /\ DOMAIN rs[n] = 1..Len(rs[n])
    BY <2>2, LenProperties
  <2>4. Len(rs[n]) = 0
    <3>1. SUFFICES ASSUME Len(rs[n]) > 0 PROVE FALSE
      BY <2>3
    <3>2. 1 \in DOMAIN rs[n]
      BY <2>3, <3>1
    <3>3. rs[n][1] \in Range(rs[n])
      BY <3>2, Zenon DEF Range
    <3>. QED  BY <2>2, <3>3
  <2>. QED  BY <2>2, <2>4, EmptySeq
<1>. QED  BY <1>2, <1>3, <1>4, <1>5 DEF rs, S

----------------------------------------------------------------------------
(***************************************************************************)
(* The end of a system call: the process that gets the CPU leaves its      *)
(* queue, the caller of IDLE takes its place on one, and nothing else      *)
(* moves.                                                                  *)
(***************************************************************************)
LEMMA DispatchKeeps ==
    ASSUME NEW ps \in Seq(PCB), NEW qs \in [QueueName -> Seq(DOMAIN ps)],
           NEW cur \in DOMAIN ps \union {NULL}, NEW flag \in BOOLEAN,
           NEW ic \in Contexts, NEW fr \in SUBSET DOMAIN ps,
           Filed(qs, ps), cur \notin OnQueues(qs), flag => cur # NULL,
           SavedContextsResume(ps), ic.eip = "kmain_halt",
           made \in SUBSET QueueName, machine \in MachineState, heap_addr \in Nat,
           \A n \in QueueName \ made : qs[n] = << >>,
           Dispatch(qs, ps, cur, flag, ic, fr)
    PROVE  /\ pcb' = ps
           /\ queue' \in [QueueName -> Seq(DOMAIN ps)]
           /\ Filed(queue', ps)
           /\ made' \in SUBSET QueueName
           /\ \A n \in QueueName \ made' : queue'[n] = << >>
           /\ heap_addr' \in Nat
           /\ machine' \in MachineState
           /\ current_process' \in DOMAIN ps \union {NULL}
           /\ current_process' \notin OnQueues(queue')
           /\ insert_flag' \in BOOLEAN
           /\ initial_context' \in {ic, NoContext}
           /\ cpu' \in Contexts
           /\ cpu'.eip \in ProcessLabel \union {"kmain_halt"}
           /\ insert_flag' => cpu'.eip = "kmain_halt"
           /\ initial_context' = NoContext => cpu'.eip = "kmain_halt"
           /\ freed' \in SUBSET DOMAIN ps
           /\ OnQueues(queue') \union {current_process'} \subseteq OnQueues(qs) \union {cur}
           /\ machine' = "on" /\ (flag \/ cur = NULL)
                 => OnQueues(qs) \subseteq OnQueues(queue') \union {current_process'}
           /\ machine' = "on" /\ (flag \/ cur = NULL)
                 => cur \in OnQueues(queue') \union {current_process', NULL}
<1>1. Len(ps) \in Nat /\ DOMAIN ps = 1..Len(ps) /\ NULL \notin DOMAIN ps
  BY LenProperties DEF NULL
<1>2. \A n \in QueueName : Range(qs[n]) \subseteq DOMAIN ps
  BY RangeOfSeq
<1>3. OnQueues(qs) \subseteq DOMAIN ps
  BY <1>2 DEF OnQueues
<1>4. CASE qs["ready"] # << >>
  <2>. DEFINE next == Head(qs["ready"])
              rest == PcbRemove(qs, next)
  <2>1. next \in Range(qs["ready"]) /\ "ready" \in QueueName
    <3>1. "ready" \in QueueName
      BY DEF QueueName
    <3>2. Len(qs["ready"]) \in Nat \ {0}
      BY <1>4, <3>1, EmptySeq
    <3>3. DOMAIN qs["ready"] = 1..Len(qs["ready"])
      BY <3>1, LenProperties
    <3>4. 1 \in DOMAIN qs["ready"] /\ next = qs["ready"][1]
      BY <3>2, <3>3
    <3>. QED  BY <3>1, <3>4, Zenon DEF Range
  <2>2. next \in OnQueues(qs) /\ next \in DOMAIN ps
    BY <1>2, <2>1 DEF OnQueues
  <2>3. /\ rest \in [QueueName -> Seq(DOMAIN ps)]
        /\ Filed(rest, ps)
        /\ OnQueues(rest) = OnQueues(qs) \ {next}
        /\ \A n \in QueueName : qs[n] = << >> => rest[n] = << >>
    <3>. HIDE DEF next
    <3>. QED  BY RemoveUnfiles
  <2>4. /\ cpu' = ps[next].stack_ptr
        /\ current_process' = next
        /\ initial_context' = ic
        /\ insert_flag' = FALSE
        /\ freed' = fr \union {next}
        /\ IF flag
           THEN PcbInsert(rest, ps, cur, heap_addr)
           ELSE /\ pcb' = ps
                /\ queue' = rest
                /\ UNCHANGED <<made, heap_addr, machine>>
    BY <1>4 DEF Dispatch
  <2>. HIDE DEF next, rest
  <2>5. ps[next] \in PCB
    BY <2>2, ElementOfSeq, <1>1
  <2>6. cpu' \in Contexts /\ cpu'.eip \in ProcessLabel
    BY <2>2, <2>4, <2>5 DEF PCB, SavedContextsResume
  <2>7. initial_context' # NoContext
    BY <2>4 DEF NoContext, Context
  <2>8. CASE flag
    <3>1. cur \in DOMAIN ps /\ cur # next
      BY <2>2, <2>8
    <3>2. cur \notin OnQueues(rest)
      BY <2>3
    <3>3. PcbInsert(rest, ps, cur, heap_addr)
      BY <2>4, <2>8
    <3>4. \A n \in QueueName \ made : rest[n] = << >>
      BY <2>3
    <3>5. /\ pcb' = ps
          /\ queue' \in [QueueName -> Seq(DOMAIN ps)]
          /\ Filed(queue', ps)
          /\ made' \in SUBSET QueueName
          /\ \A n \in QueueName \ made' : queue'[n] = << >>
          /\ heap_addr' \in Nat
          /\ machine' \in MachineState
          /\ OnQueues(queue') \subseteq OnQueues(rest) \union {cur}
          /\ machine' = "on" => machine = "on" /\ OnQueues(queue') = OnQueues(rest) \union {cur}
      BY <2>3, <3>1, <3>2, <3>3, <3>4, InsertFiles
    <3>. QED  BY <2>2, <2>3, <2>4, <2>6, <2>7, <3>1, <3>5
  <2>9. CASE ~flag
    <3>1. /\ pcb' = ps
          /\ queue' = rest
          /\ UNCHANGED <<made, heap_addr, machine>>
      BY <2>4, <2>9
    <3>. QED  BY <2>2, <2>3, <2>4, <2>6, <2>7, <2>9, <3>1
  <2>. QED  BY <2>8, <2>9
<1>5. CASE qs["ready"] = << >>
  <2>1. /\ cpu' = ic
        /\ initial_context' = NoContext
        /\ current_process' = cur
        /\ insert_flag' = flag
        /\ pcb' = ps
        /\ queue' = qs
        /\ freed' = fr
        /\ UNCHANGED <<made, heap_addr, machine>>
    BY <1>5 DEF Dispatch
  <2>. QED  BY <2>1
<1>. QED  BY <1>4, <1>5

----------------------------------------------------------------------------
(***************************************************************************)
(* What the actions share.  Each lemma is one kind of step: a PCB is       *)
(* loaded, a queued PCB is filed again, the caller of IDLE is replaced,    *)
(* the caller of EXIT is replaced.                                         *)
(***************************************************************************)

\* Where the CPU may be after a step that leaves the scheduler's variables alone.
CpuMayGoTo(c) ==
    /\ c \in Contexts
    /\ c.eip \notin BootLabel \/ current_process = NULL
    /\ initial_context = NoContext => c.eip \in BootLabel \union {"kmain_halt"}
    /\ insert_flag => c.eip = "kmain_halt"
    /\ c.eip = "loadR3" => c.i \in DOMAIN R3Procs

\* Changing the PCB that is on no queue leaves the queues filed.
LEMMA FiledElsewhere ==
    ASSUME NEW ps, NEW ps2, NEW qs \in [QueueName -> Seq(DOMAIN ps)], NEW p,
           Filed(qs, ps), p \notin OnQueues(qs),
           \A r \in DOMAIN ps \ {p} : ps2[r] = ps[r]
    PROVE  Filed(qs, ps2)
<1>1. \A n \in QueueName : Range(qs[n]) \subseteq DOMAIN ps \ {p}
  BY RangeOfSeq DEF OnQueues
<1>. QED  BY <1>1 DEF Filed

LEMMA LoadKeepsInv ==
    ASSUME Inv, On,
           NEW name \in ProcessName, NEW class \in {USER_APP, SYSTEM_PROCESS},
           NEW priority \in Priority, NEW eip \in ProcessLabel, NEW i \in Nat,
           Load(name, class, priority, eip, i),
           CpuMayGoTo(cpu'), UNCHANGED <<schedVars, ended>>,
           should_shutdown' \in BOOLEAN, global_time' \in Nat
    PROVE  Inv'
<1>. DEFINE p   == Len(pcb) + 1
            rec == [process_name      |-> name,
                    process_class     |-> class,
                    process_priority  |-> priority,
                    execution_state   |-> READY,
                    dispatching_state |-> NOT_SUSPENDED,
                    stack_ptr         |-> Context(p, eip, i)]
            ps  == Append(pcb, rec)
<1>. USE DEF Inv, TypeOK, Pcbs, Queued, On
<1>1. /\ pcb \in Seq(PCB) /\ Len(pcb) \in Nat /\ DOMAIN pcb = 1..Len(pcb)
      /\ PcbSize \in Nat
  BY LenProperties, HeapAssumption
<1>2. rec \in PCB /\ rec.stack_ptr.eip = eip
  <2>1. Context(p, eip, i) \in Contexts
    BY <1>1 DEF Context, Contexts, Label, ProcessLabel
  <2>. QED  BY <2>1 DEF PCB, Context, READY, NOT_SUSPENDED
<1>3. NewPcb(rec)
  BY DEF Load
<1>. HIDE DEF rec
<1>4. /\ ps \in Seq(PCB)
      /\ DOMAIN ps = DOMAIN pcb \union {p}
      /\ p \notin DOMAIN pcb
      /\ \A r \in DOMAIN pcb : ps[r] = pcb[r]
      /\ ps[p] = rec
  <2>1. /\ ps \in Seq(PCB)
        /\ Len(ps) = Len(pcb) + 1
        /\ \A r \in 1..Len(pcb) : ps[r] = pcb[r]
        /\ ps[Len(pcb) + 1] = rec
    BY <1>1, <1>2, AppendProperties
  <2>2. DOMAIN ps = 1..(Len(pcb) + 1)
    BY <2>1, LenProperties
  <2>3. 1..(Len(pcb) + 1) = 1..Len(pcb) \union {Len(pcb) + 1}
    BY <1>1
  <2>. QED  BY <1>1, <2>1, <2>2, <2>3
<1>5. CASE heap_addr + PcbSize > HeapSize
  <2>1. machine' = "heap_full" /\ heap_addr' \in Nat /\ UNCHANGED <<pcb, queue, made>>
    BY <1>1, <1>3, <1>5 DEF NewPcb
  <2>. QED  BY <2>1 DEF schedVars, CpuMayGoTo, MachineState, FiledByState, ContextsOK,
                        Exclusive, NoneMissing, UnmadeEmpty
<1>6. CASE ~(heap_addr + PcbSize > HeapSize)
  <2>1. PcbInsert(queue, ps, p, heap_addr + PcbSize)
    BY <1>3, <1>6 DEF NewPcb
  <2>. HIDE DEF ps, p
  <2>2. queue \in [QueueName -> Seq(DOMAIN ps)]
    <3>1. \A n \in QueueName : queue[n] \in Seq(DOMAIN ps)
      BY <1>4, SeqMonotonic
    <3>. QED  BY <3>1
  <2>3. p \notin OnQueues(queue)
    <3>1. \A n \in QueueName : Range(queue[n]) \subseteq DOMAIN pcb
      BY RangeOfSeq
    <3>. QED  BY <1>4, <3>1 DEF OnQueues
  <2>4. Filed(queue, ps)
    BY <1>4, <2>3, FiledElsewhere DEF FiledByState
  <2>5. /\ p \in DOMAIN ps
        /\ heap_addr + PcbSize \in Nat
        /\ \A n \in QueueName \ made : queue[n] = << >>
    BY <1>1, <1>4 DEF UnmadeEmpty
  <2>6. /\ pcb' = ps
        /\ queue' \in [QueueName -> Seq(DOMAIN ps)]
        /\ Filed(queue', ps)
        /\ made' \in SUBSET QueueName
        /\ \A n \in QueueName \ made' : queue'[n] = << >>
        /\ heap_addr' \in Nat
        /\ machine' \in MachineState
        /\ OnQueues(queue') \subseteq OnQueues(queue) \union {p}
        /\ machine' = "on" => machine = "on" /\ OnQueues(queue') = OnQueues(queue) \union {p}
    BY <1>4, <2>1, <2>2, <2>3, <2>4, <2>5, InsertFiles
  <2>7. p # NULL
    BY <1>1 DEF p, NULL
  <2>8. UNCHANGED <<current_process, insert_flag, initial_context, freed, ended>>
    BY DEF schedVars
  <2>9. TypeOK'
    BY <1>4, <2>6, <2>8 DEF CpuMayGoTo
  <2>10. FiledByState' /\ UnmadeEmpty'
    BY <2>6 DEF FiledByState, UnmadeEmpty
  <2>11. ContextsOK'
    <3>1. SavedContextsResume(pcb')
      BY <1>2, <1>4, <2>6 DEF SavedContextsResume, ContextsOK
    <3>. QED  BY <2>8, <3>1 DEF CpuMayGoTo, ContextsOK
  <2>12. Exclusive'
    BY <1>4, <2>6, <2>7, <2>8 DEF Exclusive
  <2>13. NoneMissing'
    BY <1>4, <2>6, <2>8 DEF NoneMissing
  <2>. QED  BY <2>9, <2>10, <2>11, <2>12, <2>13
<1>. QED  BY <1>5, <1>6

LEMMA RefileKeepsInv ==
    ASSUME Inv, On, NEW p \in Queued, NEW rec \in PCB,
           rec.stack_ptr = pcb[p].stack_ptr,
           Refile(p, rec), CpuMayGoTo(cpu')
    PROVE  Inv'
<1>. DEFINE ps == [pcb EXCEPT ![p] = rec]
            qs == PcbRemove(queue, p)
<1>. USE DEF Inv, TypeOK, Pcbs, Queued, On
<1>1. \A n \in QueueName : Range(queue[n]) \subseteq DOMAIN pcb
  BY RangeOfSeq
<1>2. p \in DOMAIN pcb
  BY <1>1 DEF OnQueues
<1>3. /\ ps \in Seq(PCB)
      /\ DOMAIN ps = DOMAIN pcb
      /\ \A r \in DOMAIN pcb \ {p} : ps[r] = pcb[r]
      /\ ps[p] = rec
  BY <1>2, ExceptSeq, LenProperties
<1>4. /\ qs \in [QueueName -> Seq(DOMAIN pcb)]
      /\ Filed(qs, pcb)
      /\ OnQueues(qs) = OnQueues(queue) \ {p}
      /\ \A n \in QueueName : queue[n] = << >> => qs[n] = << >>
  BY RemoveUnfiles DEF FiledByState
<1>5. /\ PcbInsert(qs, ps, p, heap_addr)
      /\ UNCHANGED <<current_process, insert_flag, initial_context, freed, ended,
                     should_shutdown, global_time>>
  BY DEF Refile, schedVars, comhandVars
<1>. HIDE DEF ps, qs
<1>6. Filed(qs, ps) /\ p \notin OnQueues(qs)
  BY <1>3, <1>4, FiledElsewhere
<1>7. \A n \in QueueName \ made : qs[n] = << >>
  BY <1>4 DEF UnmadeEmpty
<1>8. /\ pcb' = ps
      /\ queue' \in [QueueName -> Seq(DOMAIN ps)]
      /\ Filed(queue', ps)
      /\ made' \in SUBSET QueueName
      /\ \A n \in QueueName \ made' : queue'[n] = << >>
      /\ heap_addr' \in Nat
      /\ machine' \in MachineState
      /\ OnQueues(queue') \subseteq OnQueues(qs) \union {p}
      /\ machine' = "on" => machine = "on" /\ OnQueues(queue') = OnQueues(qs) \union {p}
  <2>1. qs \in [QueueName -> Seq(DOMAIN ps)] /\ p \in DOMAIN ps
    BY <1>2, <1>3, <1>4
  <2>. QED  BY <1>3, <1>5, <1>6, <1>7, <2>1, InsertFiles
<1>9. TypeOK'
  BY <1>3, <1>5, <1>8 DEF CpuMayGoTo
<1>10. FiledByState' /\ UnmadeEmpty'
  BY <1>8 DEF FiledByState, UnmadeEmpty
<1>11. ContextsOK'
  <2>1. SavedContextsResume(pcb')
    BY <1>2, <1>3, <1>8 DEF SavedContextsResume, ContextsOK
  <2>. QED  BY <1>5, <2>1 DEF CpuMayGoTo, ContextsOK
<1>12. Exclusive'
  BY <1>4, <1>5, <1>8 DEF Exclusive
<1>13. NoneMissing'
  BY <1>3, <1>4, <1>5, <1>8 DEF NoneMissing
<1>. QED  BY <1>9, <1>10, <1>11, <1>12, <1>13

LEMMA IdleKeepsInv ==
    ASSUME Inv, On, NEW ctx \in Contexts, SysIdle(ctx),
           cpu.eip # "kmain_halt",
           (ctx.eip = "kmain_halt" /\ current_process = NULL) \/ ctx.eip \in ProcessLabel,
           initial_context = NoContext => ctx.eip = "kmain_halt",
           UNCHANGED should_shutdown, global_time' \in Nat
    PROVE  Inv'
<1>. DEFINE cur == current_process
            ps  == IF cur = NULL THEN pcb
                   ELSE [pcb EXCEPT ![cur].execution_state = READY, ![cur].stack_ptr = ctx]
            ic  == IF initial_context = NoContext THEN ctx ELSE initial_context
            flag == insert_flag \/ cur # NULL
<1>. USE DEF Inv, TypeOK, Pcbs, Queued, On
<1>1. Dispatch(queue, ps, cur, flag, ic, freed) /\ UNCHANGED ended
  BY DEF SysIdle
<1>2. cur \notin OnQueues(queue) /\ cur \in DOMAIN pcb \union {NULL}
  BY DEF Exclusive
<1>3. /\ ps \in Seq(PCB)
      /\ DOMAIN ps = DOMAIN pcb
      /\ \A r \in DOMAIN pcb \ {cur} : ps[r] = pcb[r]
      /\ SavedContextsResume(ps)
  <2>1. CASE cur = NULL
    BY <2>1 DEF ContextsOK
  <2>2. CASE cur # NULL
    <3>. DEFINE rec == [pcb[cur] EXCEPT !.execution_state = READY, !.stack_ptr = ctx]
    <3>1. cur \in DOMAIN pcb /\ ctx.eip \in ProcessLabel
      BY <1>2, <2>2
    <3>2. pcb[cur] \in PCB
      BY <3>1, ElementOfSeq, LenProperties
    <3>3. rec \in PCB /\ rec.stack_ptr = ctx
      BY <3>2 DEF PCB, READY
    <3>4. ps = [pcb EXCEPT ![cur] = rec]
      BY <2>2, <3>1, <3>2, LenProperties DEF PCB
    <3>. HIDE DEF ps, rec
    <3>5. /\ ps \in Seq(PCB)
          /\ DOMAIN ps = DOMAIN pcb
          /\ \A r \in DOMAIN pcb \ {cur} : ps[r] = pcb[r]
          /\ ps[cur] = rec
      BY <3>1, <3>3, <3>4, ExceptSeq, LenProperties
    <3>6. SavedContextsResume(ps)
      BY <3>1, <3>3, <3>5 DEF SavedContextsResume, ContextsOK
    <3>. QED  BY <3>5, <3>6
  <2>. QED  BY <2>1, <2>2
<1>4. ic \in Contexts /\ ic.eip = "kmain_halt"
  BY DEF ContextsOK
<1>5. flag \in BOOLEAN /\ (flag <=> cur # NULL)
  BY DEF ContextsOK
<1>6. ic # NoContext
  BY <1>4 DEF NoContext, Context
<1>. HIDE DEF ps, ic, flag
<1>7. Filed(queue, ps)
  BY <1>2, <1>3, FiledElsewhere DEF FiledByState, cur
<1>8. /\ queue \in [QueueName -> Seq(DOMAIN ps)]
      /\ cur \in DOMAIN ps \union {NULL}
      /\ freed \in SUBSET DOMAIN ps
      /\ \A n \in QueueName \ made : queue[n] = << >>
  BY <1>2, <1>3 DEF UnmadeEmpty
<1>. HIDE DEF cur
<1>9. /\ pcb' = ps
      /\ queue' \in [QueueName -> Seq(DOMAIN ps)]
      /\ Filed(queue', ps)
      /\ made' \in SUBSET QueueName
      /\ \A n \in QueueName \ made' : queue'[n] = << >>
      /\ heap_addr' \in Nat
      /\ machine' \in MachineState
      /\ current_process' \in DOMAIN ps \union {NULL}
      /\ current_process' \notin OnQueues(queue')
      /\ insert_flag' \in BOOLEAN
      /\ initial_context' \in {ic, NoContext}
      /\ cpu' \in Contexts
      /\ cpu'.eip \in ProcessLabel \union {"kmain_halt"}
      /\ insert_flag' => cpu'.eip = "kmain_halt"
      /\ initial_context' = NoContext => cpu'.eip = "kmain_halt"
      /\ freed' \in SUBSET DOMAIN ps
      /\ OnQueues(queue') \union {current_process'} \subseteq OnQueues(queue) \union {cur}
      /\ machine' = "on" => OnQueues(queue) \subseteq OnQueues(queue') \union {current_process'}
      /\ machine' = "on" => cur \in OnQueues(queue') \union {current_process', NULL}
  <2>1. /\ made \in SUBSET QueueName /\ machine \in MachineState /\ heap_addr \in Nat
        /\ (flag => cur # NULL) /\ (flag \/ cur = NULL)
    BY <1>5
  <2>. QED  BY ONLY <1>1, <1>2, <1>3, <1>4, <1>5, <1>7, <1>8, <2>1, DispatchKeeps
<1>10. NoContext \in Contexts
  BY DEF NoContext, Context, Contexts, Label, NULL
<1>11. TypeOK'
  BY <1>1, <1>3, <1>4, <1>9, <1>10
<1>12. FiledByState' /\ UnmadeEmpty'
  BY <1>9 DEF FiledByState, UnmadeEmpty
<1>13. ContextsOK'
  <2>1. cpu'.eip \notin BootLabel /\ cpu'.eip # "loadR3"
    BY <1>9 DEF BootLabel, ProcessLabel
  <2>. QED  BY <1>3, <1>4, <1>9, <2>1 DEF ContextsOK
<1>14. Exclusive'
  BY <1>1, <1>9 DEF Exclusive, cur
<1>15. NoneMissing'
  <2>1. NULL \notin DOMAIN pcb
    BY LenProperties DEF NULL
  <2>. QED  BY <1>1, <1>3, <1>9, <2>1 DEF NoneMissing, cur
<1>. QED  BY <1>11, <1>12, <1>13, <1>14, <1>15

LEMMA ExitKeepsInv ==
    ASSUME Inv, On, SysExit, cpu.eip \in ProcessLabel, UNCHANGED comhandVars
    PROVE  Inv'
<1>. DEFINE cur == current_process
            qs  == PcbRemove(queue, cur)
            fr  == freed \union ({cur} \ {NULL})
<1>. USE DEF Inv, TypeOK, Pcbs, Queued, On
<1>1. /\ Dispatch(qs, pcb, NULL, insert_flag, initial_context, fr)
      /\ ended' = ended \union ({cur} \ {NULL})
  BY DEF SysExit
<1>2. initial_context.eip = "kmain_halt" /\ insert_flag = FALSE
  BY DEF ContextsOK, ProcessLabel, BootLabel
<1>3. initial_context # NoContext
  BY <1>2 DEF NoContext, Context
<1>4. cur \notin OnQueues(queue) /\ cur \in DOMAIN pcb \union {NULL}
  BY DEF Exclusive
<1>5. NULL \notin DOMAIN pcb
  BY LenProperties DEF NULL
<1>6. /\ qs \in [QueueName -> Seq(DOMAIN pcb)]
      /\ Filed(qs, pcb)
      /\ OnQueues(qs) = OnQueues(queue)
      /\ \A n \in QueueName : queue[n] = << >> => qs[n] = << >>
  <2>. HIDE DEF cur
  <2>1. /\ qs \in [QueueName -> Seq(DOMAIN pcb)]
        /\ Filed(qs, pcb)
        /\ OnQueues(qs) = OnQueues(queue) \ {cur}
        /\ \A n \in QueueName : queue[n] = << >> => qs[n] = << >>
    BY RemoveUnfiles DEF FiledByState
  <2>. QED  BY <1>4, <2>1
<1>7. /\ \A n \in QueueName \ made : qs[n] = << >>
      /\ fr \in SUBSET DOMAIN pcb
      /\ NULL \notin OnQueues(qs)
  <2>1. \A n \in QueueName : Range(queue[n]) \subseteq DOMAIN pcb
    BY RangeOfSeq
  <2>2. OnQueues(queue) \subseteq DOMAIN pcb
    BY <2>1 DEF OnQueues
  <2>. QED  BY <1>4, <1>5, <1>6, <2>2 DEF UnmadeEmpty
<1>8. /\ pcb \in Seq(PCB) /\ made \in SUBSET QueueName /\ machine \in MachineState
      /\ heap_addr \in Nat /\ initial_context \in Contexts
      /\ insert_flag \in BOOLEAN /\ (insert_flag => NULL # NULL)
      /\ SavedContextsResume(pcb) /\ NULL \in DOMAIN pcb \union {NULL}
  BY <1>2 DEF ContextsOK
<1>. HIDE DEF qs, fr, cur
<1>9. /\ pcb' = pcb
      /\ queue' \in [QueueName -> Seq(DOMAIN pcb)]
      /\ Filed(queue', pcb)
      /\ made' \in SUBSET QueueName
      /\ \A n \in QueueName \ made' : queue'[n] = << >>
      /\ heap_addr' \in Nat
      /\ machine' \in MachineState
      /\ current_process' \in DOMAIN pcb \union {NULL}
      /\ current_process' \notin OnQueues(queue')
      /\ insert_flag' \in BOOLEAN
      /\ initial_context' \in {initial_context, NoContext}
      /\ cpu' \in Contexts
      /\ cpu'.eip \in ProcessLabel \union {"kmain_halt"}
      /\ insert_flag' => cpu'.eip = "kmain_halt"
      /\ initial_context' = NoContext => cpu'.eip = "kmain_halt"
      /\ freed' \in SUBSET DOMAIN pcb
      /\ OnQueues(queue') \union {current_process'} \subseteq OnQueues(qs) \union {NULL}
      /\ machine' = "on" => OnQueues(qs) \subseteq OnQueues(queue') \union {current_process'}
  BY ONLY <1>1, <1>2, <1>6, <1>7, <1>8, DispatchKeeps
<1>10. /\ NoContext \in Contexts
       /\ UNCHANGED <<should_shutdown, global_time>>
  BY DEF NoContext, Context, Contexts, Label, NULL, comhandVars
<1>11. TypeOK'
  BY <1>1, <1>4, <1>8, <1>9, <1>10
<1>12. FiledByState' /\ UnmadeEmpty'
  BY <1>9 DEF FiledByState, UnmadeEmpty
<1>13. ContextsOK'
  <2>1. cpu'.eip \notin BootLabel /\ cpu'.eip # "loadR3"
    BY <1>9 DEF BootLabel, ProcessLabel
  <2>. QED  BY <1>2, <1>8, <1>9, <2>1 DEF ContextsOK
<1>14. Exclusive'
  BY <1>1, <1>4, <1>5, <1>6, <1>9 DEF Exclusive, cur
<1>15. NoneMissing'
  BY <1>1, <1>5, <1>6, <1>9 DEF NoneMissing, cur
<1>. QED  BY <1>11, <1>12, <1>13, <1>14, <1>15

----------------------------------------------------------------------------
(***************************************************************************)
(* The invariant holds at power-on and every step keeps it.                *)
(***************************************************************************)
LEMMA InitInv == Init => Inv
<1>. SUFFICES ASSUME Init PROVE Inv
  OBVIOUS
<1>. USE DEF Init, KernelInit
<1>1. \A n \in QueueName : queue[n] = << >> /\ Range(queue[n]) = {}
  BY DEF Range
<1>2. /\ pcb = << >> /\ Pcbs = {} /\ Queued = {}
      /\ pcb \in Seq(PCB) /\ queue \in [QueueName -> Seq(Pcbs)]
  BY <1>1, EmptySeq DEF Pcbs, Queued, OnQueues
<1>3. NoContext \in Contexts /\ cpu \in Contexts /\ cpu.eip = "kmain_comhand"
  BY DEF NoContext, Context, Contexts, Label, NULL
<1>4. TypeOK
  BY <1>2, <1>3 DEF TypeOK, MachineState, NULL
<1>5. FiledByState /\ UnmadeEmpty
  BY <1>1 DEF FiledByState, Filed, UnmadeEmpty, IsInjective
<1>6. ContextsOK
  BY <1>2, <1>3 DEF ContextsOK, SavedContextsResume, BootLabel, NULL
<1>7. Exclusive /\ NoneMissing
  BY <1>2 DEF Exclusive, NoneMissing
<1>. QED  BY <1>4, <1>5, <1>6, <1>7 DEF Inv

\* A step of the command handler that goes from its prompt to the end of its loop.
LEMMA PromptToEnd ==
    ASSUME Inv, AtPrompt, Goto("comhand_end", 0)
    PROVE  On /\ CpuMayGoTo(cpu')
<1>1. cpu' = [cpu EXCEPT !.eip = "comhand_end", !.i = 0] /\ cpu.eip = "comhand" /\ On
  BY DEF Goto, AtPrompt, At, On
<1>2. cpu' \in Contexts /\ cpu'.eip = "comhand_end"
  BY <1>1 DEF Inv, TypeOK, Contexts, Label
<1>. QED  BY <1>1, <1>2 DEF CpuMayGoTo, Inv, ContextsOK, BootLabel

\* What pcb_find finds is a queued PCB.
LEMMA NamedIsQueued ==
    ASSUME Inv, NEW name, Named(name) # NULL
    PROVE  /\ Named(name) \in Queued
           /\ Named(name) \in Pcbs
           /\ pcb[Named(name)] \in PCB
<1>1. /\ Named(name) \in Pcbs
      /\ \E n \in QueueName : Named(name) \in Range(queue[n])
  BY FoundIsQueued DEF Named, Inv, TypeOK
<1>. QED  BY <1>1, ElementOfSeq, LenProperties DEF Queued, OnQueues, Inv, TypeOK, Pcbs

\* Steps that touch neither the queues nor the scheduler's variables.
LEMMA QuietKeepsInv ==
    ASSUME Inv, On, UNCHANGED <<pcb, queue, made, schedVars, ended>>,
           machine' \in MachineState, heap_addr' \in Nat, CpuMayGoTo(cpu'),
           should_shutdown' \in BOOLEAN, global_time' \in Nat
    PROVE  Inv'
BY DEF Inv, TypeOK, Pcbs, FiledByState, Filed, ContextsOK, Exclusive, NoneMissing, UnmadeEmpty,
       Queued, On, CpuMayGoTo, schedVars

LEMMA DeletePcbKeepsInv ==
    ASSUME Inv, NEW name, DeletePcb(name)
    PROVE  Inv'
<1>. DEFINE p == Named(name)
<1>1. /\ AtPrompt /\ Goto("comhand_end", 0) /\ p # NULL
      /\ queue' = PcbRemove(queue, p)
      /\ freed' = freed \union {p}
      /\ ended' = ended \union {p}
      /\ UNCHANGED <<pcb, made, heap_addr, machine, current_process, insert_flag,
                     initial_context, should_shutdown, global_time>>
  BY DEF DeletePcb, comhandVars
<1>2. p \in Queued /\ p \in Pcbs
  BY <1>1, NamedIsQueued
<1>3. On /\ CpuMayGoTo(cpu')
  BY <1>1, PromptToEnd
<1>. HIDE DEF p
<1>. USE DEF Inv, TypeOK, Pcbs, Queued, On
<1>4. /\ queue' \in [QueueName -> Seq(DOMAIN pcb)]
      /\ Filed(queue', pcb)
      /\ OnQueues(queue') = OnQueues(queue) \ {p}
      /\ \A n \in QueueName : queue[n] = << >> => queue'[n] = << >>
  BY <1>1, RemoveUnfiles DEF FiledByState
<1>5. TypeOK'
  BY <1>1, <1>2, <1>3, <1>4 DEF CpuMayGoTo
<1>6. FiledByState' /\ UnmadeEmpty'
  BY <1>1, <1>4 DEF FiledByState, UnmadeEmpty
<1>7. ContextsOK'
  BY <1>1, <1>3 DEF CpuMayGoTo, ContextsOK
<1>8. Exclusive' /\ NoneMissing'
  BY <1>1, <1>2, <1>4 DEF Exclusive, NoneMissing
<1>. QED  BY <1>5, <1>6, <1>7, <1>8

LEMMA SetPcbPriorityKeepsInv ==
    ASSUME Inv, NEW name, NEW new, SetPcbPriority(name, new)
    PROVE  Inv'
<1>. DEFINE p   == Named(name)
            rec == [pcb[p] EXCEPT !.process_priority = new]
<1>1. /\ AtPrompt /\ p # NULL /\ new \in Priority
      /\ \/ Refile(p, rec)
         \/ /\ pcb' = [pcb EXCEPT ![p].process_priority = new]
            /\ Goto("comhand_end", 0)
            /\ UNCHANGED <<queue, made, heap_addr, machine, schedVars, ended, comhandVars>>
  BY DEF SetPcbPriority
<1>2. p \in Queued /\ p \in Pcbs /\ pcb[p] \in PCB
  BY <1>1, NamedIsQueued
<1>3. rec \in PCB /\ rec.stack_ptr = pcb[p].stack_ptr /\ QueueOf(rec) = QueueOf(pcb[p])
  BY <1>1, <1>2 DEF PCB, QueueOf
<1>4. On /\ CpuMayGoTo(cpu')
  BY <1>1, PromptToEnd DEF Refile
<1>5. CASE Refile(p, rec)
  <2>. HIDE DEF p, rec
  <2>. QED  BY <1>2, <1>3, <1>4, <1>5, RefileKeepsInv
<1>6. CASE /\ pcb' = [pcb EXCEPT ![p].process_priority = new]
           /\ UNCHANGED <<queue, made, heap_addr, machine, schedVars, ended, comhandVars>>
  <2>1. pcb' = [pcb EXCEPT ![p] = rec]
    BY <1>2, <1>6
  <2>. HIDE DEF p, rec
  <2>. USE DEF Inv, TypeOK, Pcbs, Queued, On
  <2>2. /\ pcb' \in Seq(PCB)
        /\ DOMAIN pcb' = DOMAIN pcb
        /\ \A r \in DOMAIN pcb : pcb'[r] = IF r = p THEN rec ELSE pcb[r]
    BY <1>2, <1>3, <2>1, ExceptSeq, LenProperties
  <2>3. /\ UNCHANGED <<queue, made, heap_addr, machine, current_process, insert_flag,
                       initial_context, freed, ended, should_shutdown, global_time>>
    BY <1>6 DEF schedVars, comhandVars
  <2>4. TypeOK'
    BY <1>4, <2>2, <2>3 DEF CpuMayGoTo
  <2>5. FiledByState' /\ UnmadeEmpty'
    <3>1. \A n \in QueueName : Range(queue[n]) \subseteq DOMAIN pcb
      BY RangeOfSeq
    <3>2. \A r \in DOMAIN pcb : QueueOf(pcb'[r]) = QueueOf(pcb[r])
      BY <1>3, <2>2
    <3>. QED  BY <2>3, <3>1, <3>2 DEF FiledByState, Filed, UnmadeEmpty
  <2>6. ContextsOK'
    <3>1. SavedContextsResume(pcb')
      BY <1>2, <1>3, <2>2 DEF SavedContextsResume, ContextsOK
    <3>. QED  BY <1>4, <2>3, <3>1 DEF CpuMayGoTo, ContextsOK
  <2>7. Exclusive' /\ NoneMissing'
    BY <2>2, <2>3 DEF Exclusive, NoneMissing
  <2>. QED  BY <2>4, <2>5, <2>6, <2>7
<1>. QED  BY <1>1, <1>5, <1>6

\* suspendpcb, resumepcb, blockpcb and unblockpcb change one of the two states.
LEMMA StateChangeKeepsInv ==
    ASSUME Inv, AtPrompt, NEW name, Named(name) # NULL,
           NEW es \in {READY, BLOCKED}, NEW ds \in {NOT_SUSPENDED, SUSPENDED},
           Refile(Named(name), [pcb[Named(name)] EXCEPT !.execution_state = es,
                                                        !.dispatching_state = ds])
    PROVE  Inv'
<1>. DEFINE p   == Named(name)
            rec == [pcb[p] EXCEPT !.execution_state = es, !.dispatching_state = ds]
<1>1. p \in Queued /\ pcb[p] \in PCB
  BY NamedIsQueued
<1>2. rec \in PCB /\ rec.stack_ptr = pcb[p].stack_ptr
  BY <1>1 DEF PCB
<1>3. On /\ CpuMayGoTo(cpu')
  BY PromptToEnd DEF Refile
<1>. HIDE DEF p, rec
<1>. QED  BY <1>1, <1>2, <1>3, RefileKeepsInv DEF p, rec

\* Each command keeps the invariant.
LEMMA ReadCommandKeepsInv ==
    ASSUME Inv, ReadCommand
    PROVE  Inv'
<1>1. ASSUME NEW name \in ArgNames, SuspendPcb(name) PROVE Inv'
  <2>. DEFINE p == Named(name)
  <2>1. CASE /\ p # NULL
             /\ Refile(p, [pcb[p] EXCEPT !.dispatching_state = SUSPENDED])
    <3>1. pcb[p] \in PCB /\ AtPrompt
      BY <1>1, <2>1, NamedIsQueued DEF SuspendPcb
    <3>2. [pcb[p] EXCEPT !.dispatching_state = SUSPENDED]
             = [pcb[p] EXCEPT !.execution_state = pcb[p].execution_state,
                              !.dispatching_state = SUSPENDED]
      BY <3>1 DEF PCB
    <3>3. pcb[p].execution_state \in {READY, BLOCKED}
      BY <3>1 DEF PCB
    <3>4. Refile(p, [pcb[p] EXCEPT !.execution_state = pcb[p].execution_state,
                                   !.dispatching_state = SUSPENDED])
      BY <2>1, <3>2
    <3>5. SUSPENDED \in {NOT_SUSPENDED, SUSPENDED}
      OBVIOUS
    <3>. QED  BY <2>1, <3>1, <3>3, <3>4, <3>5, StateChangeKeepsInv, Zenon
  <2>2. CASE /\ machine' = "page_fault"
             /\ UNCHANGED <<pcb, queue, made, heap_addr, schedVars, cpu, ended, comhandVars>>
    <3>1. On /\ cpu.eip = "comhand"
      BY <1>1 DEF SuspendPcb, AtPrompt, At, On
    <3>2. CpuMayGoTo(cpu')
      BY <2>2, <3>1 DEF Inv, TypeOK, ContextsOK, CpuMayGoTo
    <3>3. /\ machine' \in MachineState /\ heap_addr' \in Nat
          /\ should_shutdown' \in BOOLEAN /\ global_time' \in Nat
      <4>1. machine' \in MachineState
        BY <2>2 DEF MachineState
      <4>2. heap_addr \in Nat /\ should_shutdown \in BOOLEAN /\ global_time \in Nat
        BY DEF Inv, TypeOK
      <4>. QED  BY <2>2, <4>1, <4>2 DEF comhandVars
    <3>. QED  BY <2>2, <3>1, <3>2, <3>3, QuietKeepsInv
  <2>. QED  BY <1>1, <2>1, <2>2, Zenon DEF SuspendPcb
<1>2. ASSUME NEW name \in ArgNames, ResumePcb(name) PROVE Inv'
  <2>. DEFINE p == Named(name)
  <2>1. /\ AtPrompt /\ p # NULL
        /\ Refile(p, [pcb[p] EXCEPT !.dispatching_state = NOT_SUSPENDED])
    BY <1>2 DEF ResumePcb
  <2>2. pcb[p] \in PCB
    BY <2>1, NamedIsQueued
  <2>3. [pcb[p] EXCEPT !.dispatching_state = NOT_SUSPENDED]
           = [pcb[p] EXCEPT !.execution_state = pcb[p].execution_state,
                            !.dispatching_state = NOT_SUSPENDED]
    BY <2>2 DEF PCB
  <2>4. pcb[p].execution_state \in {READY, BLOCKED}
    BY <2>2 DEF PCB
  <2>5. Refile(p, [pcb[p] EXCEPT !.execution_state = pcb[p].execution_state,
                                 !.dispatching_state = NOT_SUSPENDED])
    BY <2>1, <2>3
  <2>. QED  BY <2>1, <2>4, <2>5, StateChangeKeepsInv, Zenon
<1>3. ASSUME NEW name \in ArgNames, NEW es \in {READY, BLOCKED},
             AtPrompt, Named(name) # NULL,
             Refile(Named(name), [pcb[Named(name)] EXCEPT !.execution_state = es])
      PROVE  Inv'
  <2>. DEFINE p == Named(name)
  <2>1. pcb[p] \in PCB
    BY <1>3, NamedIsQueued
  <2>2. [pcb[p] EXCEPT !.execution_state = es]
           = [pcb[p] EXCEPT !.execution_state = es,
                            !.dispatching_state = pcb[p].dispatching_state]
    BY <2>1 DEF PCB
  <2>3. pcb[p].dispatching_state \in {NOT_SUSPENDED, SUSPENDED}
    BY <2>1 DEF PCB
  <2>4. Refile(p, [pcb[p] EXCEPT !.execution_state = es,
                                 !.dispatching_state = pcb[p].dispatching_state])
    BY <1>3, <2>2
  <2>. QED  BY <1>3, <2>3, <2>4, StateChangeKeepsInv, Zenon
<1>4. ASSUME NEW name \in ArgNames, BlockPcb(name) PROVE Inv'
  BY <1>3, <1>4 DEF BlockPcb
<1>5. ASSUME NEW name \in ArgNames, UnblockPcb(name) PROVE Inv'
  BY <1>3, <1>5 DEF UnblockPcb
<1>6. ASSUME AtPrompt, UNCHANGED <<memVars, schedVars, ended>>, CpuMayGoTo(cpu'),
             should_shutdown' \in BOOLEAN, global_time' \in Nat
      PROVE  Inv'
  <2>1. /\ On /\ machine' \in MachineState /\ heap_addr' \in Nat
        /\ UNCHANGED <<pcb, queue, made, schedVars, ended>>
    BY <1>6 DEF AtPrompt, At, On, Inv, TypeOK, memVars
  <2>. QED  BY <1>6, <2>1, QuietKeepsInv
<1>7. ASSUME NEW yes \in BOOLEAN, ShutdownCommand(yes) PROVE Inv'
  <2>1. AtPrompt /\ CpuMayGoTo(cpu')
    BY <1>7, PromptToEnd DEF ShutdownCommand
  <2>2. should_shutdown' \in BOOLEAN /\ global_time' \in Nat
    BY <1>7 DEF ShutdownCommand, Inv, TypeOK
  <2>. QED  BY <1>6, <1>7, <2>1, <2>2 DEF ShutdownCommand
<1>8. ASSUME NEW a \in AlarmArgs, AlarmCommand(a) PROVE Inv'
  <2>1. AtPrompt /\ On /\ CpuMayGoTo(cpu')
    BY <1>8, PromptToEnd DEF AlarmCommand
  <2>2. /\ should_shutdown' \in BOOLEAN /\ global_time' \in Nat
        /\ UNCHANGED <<schedVars, ended>>
    BY <1>8, ArgAssumption DEF AlarmCommand, Inv, TypeOK
  <2>3. CASE a.valid
    <3>1. /\ Load("Alarm", USER_APP, 1, "alarm", 0)
          /\ "Alarm" \in ProcessName /\ 1 \in Priority /\ "alarm" \in ProcessLabel
      BY <1>8, <2>3 DEF AlarmCommand, ProcessName, Priority, ProcessLabel
    <3>. QED  BY <2>1, <2>2, <3>1, LoadKeepsInv
  <2>4. CASE ~a.valid
    <3>1. UNCHANGED <<memVars, schedVars, ended>>
      BY <1>8, <2>4 DEF AlarmCommand
    <3>. QED  BY <1>6, <2>1, <2>2, <3>1
  <2>. QED  BY <2>3, <2>4
<1>9. ASSUME YieldCommand PROVE Inv'
  <2>. DEFINE ctx == [cpu EXCEPT !.eip = "comhand_end"]
  <2>1. On /\ cpu.eip = "comhand" /\ SysIdle(ctx)
    BY <1>9 DEF YieldCommand, AtPrompt, At, On
  <2>2. ctx \in Contexts /\ ctx.eip \in ProcessLabel /\ initial_context # NoContext
    BY <2>1 DEF Inv, TypeOK, ContextsOK, Contexts, Label, ProcessLabel, BootLabel
  <2>3. UNCHANGED should_shutdown /\ global_time' \in Nat
    BY <1>9 DEF YieldCommand, comhandVars, Inv, TypeOK
  <2>. QED  BY <2>1, <2>2, <2>3, IdleKeepsInv
<1>10. ASSUME LoadR3Command PROVE Inv'
  <2>1. 1 \in DOMAIN R3Procs
    BY R3Assumption, EmptySeq, LenProperties
  <2>2. AtPrompt /\ CpuMayGoTo(cpu')
    BY <1>10, <2>1 DEF LoadR3Command, AtPrompt, At, Goto, CpuMayGoTo, Inv, TypeOK, ContextsOK,
                       Contexts, Label, BootLabel
  <2>3. should_shutdown' \in BOOLEAN /\ global_time' \in Nat
    BY <1>10 DEF LoadR3Command, Inv, TypeOK, comhandVars
  <2>. QED  BY <1>6, <1>10, <2>2, <2>3 DEF LoadR3Command
<1>11. ASSUME CommandWithoutEffect PROVE Inv'
  <2>1. AtPrompt /\ CpuMayGoTo(cpu')
    BY <1>11, PromptToEnd DEF CommandWithoutEffect
  <2>2. should_shutdown' \in BOOLEAN /\ global_time' \in Nat
    BY <1>11 DEF CommandWithoutEffect, Inv, TypeOK, comhandVars
  <2>. QED  BY <1>6, <1>11, <2>1, <2>2 DEF CommandWithoutEffect
<1>. QED  BY <1>1, <1>2, <1>4, <1>5, <1>7, <1>8, <1>9, <1>10, <1>11,
             DeletePcbKeepsInv, SetPcbPriorityKeepsInv DEF ReadCommand

LEMMA CpuStepKeepsInv ==
    ASSUME Inv, CpuStep
    PROVE  Inv'
<1>1. On
  BY DEF CpuStep, KmainLoadComhand, KmainLoadIdle, KmainYield, KmainHalt, ComhandEnd, LoadR3Step,
         SysIdleProcess, R3Iteration, R3Exit, AlarmStart, AlarmPoll, AlarmFire, At, On
<1>2. ASSUME UNCHANGED <<schedVars, ended, comhandVars>>,
             NEW name \in ProcessName, NEW class \in {USER_APP, SYSTEM_PROCESS},
             NEW priority \in Priority, NEW eip \in ProcessLabel, NEW i \in Nat,
             Load(name, class, priority, eip, i), CpuMayGoTo(cpu')
      PROVE  Inv'
  <2>1. should_shutdown' \in BOOLEAN /\ global_time' \in Nat /\ UNCHANGED <<schedVars, ended>>
    BY <1>2 DEF Inv, TypeOK, comhandVars
  <2>. QED  BY <1>1, <1>2, <2>1, LoadKeepsInv
<1>3. ASSUME NEW ctx, SysIdle(ctx), UNCHANGED comhandVars,
             cpu.eip \in ProcessLabel, ctx \in Contexts, ctx.eip \in ProcessLabel
      PROVE  Inv'
  <2>1. cpu.eip # "kmain_halt" /\ initial_context # NoContext
    BY <1>3 DEF Inv, ContextsOK, ProcessLabel, BootLabel
  <2>2. UNCHANGED should_shutdown /\ global_time' \in Nat
    BY <1>3 DEF Inv, TypeOK, comhandVars
  <2>. QED  BY <1>1, <1>3, <2>1, <2>2, IdleKeepsInv
<1>4. ASSUME KmainLoadComhand PROVE Inv'
  <2>1. CpuMayGoTo(cpu')
    BY <1>4 DEF KmainLoadComhand, At, Goto, CpuMayGoTo, Inv, TypeOK, ContextsOK,
                Contexts, Label, BootLabel
  <2>2. /\ Load("Comhand", SYSTEM_PROCESS, 0, "comhand", 0)
        /\ UNCHANGED <<schedVars, ended, comhandVars>>
        /\ "Comhand" \in ProcessName /\ 0 \in Priority /\ "comhand" \in ProcessLabel
    BY <1>4 DEF KmainLoadComhand, ProcessName, Priority, ProcessLabel
  <2>. QED  BY <1>2, <2>1, <2>2
<1>5. ASSUME KmainLoadIdle PROVE Inv'
  <2>1. CpuMayGoTo(cpu')
    BY <1>5 DEF KmainLoadIdle, At, Goto, CpuMayGoTo, Inv, TypeOK, ContextsOK,
                Contexts, Label, BootLabel
  <2>2. /\ Load("Sys_i", SYSTEM_PROCESS, 9, "sys_idle", 0)
        /\ UNCHANGED <<schedVars, ended, comhandVars>>
        /\ "Sys_i" \in ProcessName /\ 9 \in Priority /\ "sys_idle" \in ProcessLabel
    BY <1>5 DEF KmainLoadIdle, ProcessName, Priority, ProcessLabel
  <2>. QED  BY <1>2, <2>1, <2>2
<1>6. ASSUME KmainYield PROVE Inv'
  <2>. DEFINE ctx == [cpu EXCEPT !.eip = "kmain_halt"]
  <2>1. SysIdle(ctx) /\ cpu.eip = "kmain_yield" /\ current_process = NULL
    BY <1>6 DEF KmainYield, At, Inv, ContextsOK, BootLabel
  <2>2. ctx \in Contexts /\ ctx.eip = "kmain_halt"
    BY DEF Inv, TypeOK, Contexts, Label
  <2>3. UNCHANGED should_shutdown /\ global_time' \in Nat
    BY <1>6 DEF KmainYield, Inv, TypeOK, comhandVars
  <2>. QED  BY <1>1, <2>1, <2>2, <2>3, IdleKeepsInv
<1>7. ASSUME KmainHalt PROVE Inv'
  <2>1. /\ UNCHANGED <<pcb, queue, made, schedVars, ended>>
        /\ machine' \in MachineState /\ heap_addr' \in Nat
        /\ should_shutdown' \in BOOLEAN /\ global_time' \in Nat
    BY <1>7 DEF KmainHalt, Inv, TypeOK, MachineState, comhandVars
  <2>2. CpuMayGoTo(cpu')
    BY <1>7 DEF KmainHalt, At, CpuMayGoTo, Inv, TypeOK, ContextsOK, BootLabel
  <2>. QED  BY <1>1, <2>1, <2>2, QuietKeepsInv
<1>8. ASSUME ComhandEnd PROVE Inv'
  <2>. DEFINE ctx == [cpu EXCEPT !.eip = "comhand"]
  <2>1. cpu.eip \in ProcessLabel /\ ctx \in Contexts /\ ctx.eip \in ProcessLabel
    BY <1>8 DEF ComhandEnd, At, Inv, TypeOK, Contexts, Label, ProcessLabel
  <2>2. UNCHANGED comhandVars /\ (SysExit \/ SysIdle(ctx))
    BY <1>8 DEF ComhandEnd
  <2>. QED  BY <1>1, <1>3, <2>1, <2>2, ExitKeepsInv
<1>9. ASSUME LoadR3Step PROVE Inv'
  <2>. DEFINE i == cpu.i
  <2>1. cpu.eip = "loadR3" /\ cpu \in Contexts /\ i \in DOMAIN R3Procs
    BY <1>9 DEF LoadR3Step, At, Inv, TypeOK, ContextsOK
  <2>2. R3Procs \in Seq([name : STRING, iterations : Nat])
    BY R3Assumption
  <2>3. /\ R3Procs[i].name \in ProcessName /\ R3Procs[i].iterations \in Nat
        /\ Len(R3Procs) \in Nat /\ DOMAIN R3Procs = 1..Len(R3Procs)
    <3>1. Len(R3Procs) \in Nat /\ DOMAIN R3Procs = 1..Len(R3Procs)
      BY <2>2, LenProperties
    <3>2. R3Procs[i] \in [name : STRING, iterations : Nat]
      BY <2>1, <2>2, <3>1, ElementOfSeq
    <3>3. R3Procs[i].name \in ProcessName
      BY <2>1, Zenon DEF ProcessName
    <3>. QED  BY <3>1, <3>2, <3>3
  <2>4. /\ Load(R3Procs[i].name, USER_APP, 3, "r3", R3Procs[i].iterations)
        /\ IF i = Len(R3Procs) THEN Goto("comhand_end", 0) ELSE Goto("loadR3", i + 1)
        /\ UNCHANGED <<schedVars, ended, comhandVars>>
    BY <1>9 DEF LoadR3Step
  <2>5. CpuMayGoTo(cpu')
    <3>1. initial_context # NoContext /\ ~insert_flag
      BY <2>1 DEF Inv, ContextsOK, BootLabel
    <3>2. CASE i = Len(R3Procs)
      <4>1. cpu' \in Contexts /\ cpu'.eip = "comhand_end"
        <5>1. cpu' = [cpu EXCEPT !.eip = "comhand_end", !.i = 0]
          BY <2>4, <3>2 DEF Goto
        <5>. QED  BY <2>1, <5>1 DEF Contexts, Label
      <4>. QED  BY <3>1, <4>1 DEF CpuMayGoTo, BootLabel
    <3>3. CASE i # Len(R3Procs)
      <4>1. i + 1 \in DOMAIN R3Procs /\ i + 1 \in Nat
        BY <2>1, <2>3, <3>3
      <4>2. cpu' \in Contexts /\ cpu'.eip = "loadR3" /\ cpu'.i = i + 1
        BY <2>1, <2>4, <3>3, <4>1 DEF Goto, Contexts, Label
      <4>. QED  BY <3>1, <4>1, <4>2 DEF CpuMayGoTo, BootLabel
    <3>. QED  BY <3>2, <3>3
  <2>6. 3 \in Priority /\ "r3" \in ProcessLabel
    BY DEF Priority, ProcessLabel
  <2>. QED  BY <1>2, <2>3, <2>4, <2>5, <2>6
<1>10. ASSUME SysIdleProcess \/ AlarmPoll PROVE Inv'
  <2>1. SysIdle(cpu) /\ UNCHANGED comhandVars /\ cpu.eip \in ProcessLabel
    BY <1>10 DEF SysIdleProcess, AlarmPoll, At, ProcessLabel
  <2>2. cpu \in Contexts
    BY DEF Inv, TypeOK
  <2>. QED  BY <1>3, <2>1, <2>2
<1>11. ASSUME R3Iteration PROVE Inv'
  <2>. DEFINE ctx == [cpu EXCEPT !.i = @ - 1]
  <2>1. SysIdle(ctx) /\ UNCHANGED comhandVars /\ cpu.eip = "r3" /\ cpu.i > 0
    BY <1>11 DEF R3Iteration, At
  <2>2. ctx \in Contexts /\ ctx.eip = "r3"
    BY <2>1 DEF Inv, TypeOK, Contexts
  <2>. QED  BY <1>3, <2>1, <2>2 DEF ProcessLabel
<1>12. ASSUME R3Exit \/ AlarmFire PROVE Inv'
  <2>1. SysExit /\ UNCHANGED comhandVars /\ cpu.eip \in ProcessLabel
    BY <1>12 DEF R3Exit, AlarmFire, At, ProcessLabel
  <2>. QED  BY <1>1, <2>1, ExitKeepsInv
<1>13. ASSUME AlarmStart PROVE Inv'
  <2>1. /\ UNCHANGED <<pcb, queue, made, schedVars, ended>>
        /\ machine' \in MachineState /\ heap_addr' \in Nat
        /\ should_shutdown' \in BOOLEAN /\ global_time' \in Nat
    BY <1>13 DEF AlarmStart, Inv, TypeOK, memVars
  <2>2. cpu' \in Contexts /\ cpu'.eip = "alarm_wait" /\ cpu.eip = "alarm"
    BY <1>13 DEF AlarmStart, At, Goto, Inv, TypeOK, Contexts, Label
  <2>3. CpuMayGoTo(cpu')
    BY <2>2 DEF CpuMayGoTo, Inv, ContextsOK, BootLabel
  <2>. QED  BY <1>1, <2>1, <2>3, QuietKeepsInv
<1>. QED  BY <1>4, <1>5, <1>6, <1>7, <1>8, <1>9, <1>10, <1>11, <1>12, <1>13 DEF CpuStep

LEMMA StutterKeepsInv ==
    ASSUME Inv, UNCHANGED vars
    PROVE  Inv'
BY DEF Inv, TypeOK, Pcbs, FiledByState, Filed, ContextsOK, Exclusive, NoneMissing, UnmadeEmpty,
       Queued, On, vars, kernelVars, memVars, schedVars, comhandVars

\* Inv is an invariant of the system, whatever the constants.
THEOREM Invariance == Spec => []Inv
<1>1. ASSUME Inv, [Next]_vars PROVE Inv'
  BY <1>1, ReadCommandKeepsInv, CpuStepKeepsInv, StutterKeepsInv DEF Next, Stopped
<1>. QED  BY <1>1, InitInv, PTL DEF Spec

----------------------------------------------------------------------------
(***************************************************************************)
(* The properties.                                                         *)
(***************************************************************************)

\* Every variable of the kernel and of the command handler keeps its type, and
\* the queues and current_process only name PCBs that pcb_setup allocated.
THEOREM TypeCorrect == Spec => []TypeOK
<1>1. Inv => TypeOK
  BY DEF Inv
<1>. QED  BY <1>1, Invariance, PTL

\* pcb_insert, pcb_remove and the commands that change a PCB's state fields keep
\* every queued PCB on the one queue those fields name, once.
THEOREM QueuesAgreeWithStates == Spec => []FiledByState
<1>1. Inv => FiledByState
  BY DEF Inv
<1>. QED  BY <1>1, Invariance, PTL

\* sys_call and the commands lose no process and hand the CPU to none that is
\* also queued or has ended, for any heap, any programs and any commands.
THEOREM EachProcessInOnePlace == Spec => []NoProcessLost
<1>1. Inv => NoProcessLost
  BY DEF Inv, Exclusive, NoneMissing, NoProcessLost
<1>. QED  BY <1>1, Invariance, PTL

----------------------------------------------------------------------------
(***************************************************************************)
(* What the show commands print: they look every PCB up by its name, so    *)
(* what they say of a queue rests on what pcb_find returns.                *)
(***************************************************************************)

\* pcb_find finds a PCB with the name of a queued one.
LEMMA FoundByName ==
    ASSUME Inv, NEW p \in Queued
    PROVE  LET f == ShowPcb(pcb[p].process_name)
           IN  /\ f \in Queued /\ f \in Pcbs /\ f # NULL
               /\ pcb[f].process_name = pcb[p].process_name
<1>. DEFINE name == pcb[p].process_name
            all  == Searched(queue)
            I    == {i \in 1..Len(all) : pcb[all[i]].process_name = name}
            f    == ShowPcb(name)
<1>1. /\ queue["ready"] \in Seq(Pcbs) /\ queue["blocked"] \in Seq(Pcbs)
      /\ queue["susp_ready"] \in Seq(Pcbs) /\ queue["susp_blocked"] \in Seq(Pcbs)
  BY DEF QueueName, Inv, TypeOK
<1>2. all \in Seq(Pcbs) /\ Range(all) = Queued
  <2>1. /\ all \in Seq(Pcbs)
        /\ Range(all) = Range(queue["ready"]) \union Range(queue["blocked"])
                        \union Range(queue["susp_ready"]) \union Range(queue["susp_blocked"])
    BY <1>1, FourInARow DEF Searched
  <2>. QED  BY <2>1 DEF Queued, OnQueues, QueueName
<1>3. PICK i \in 1..Len(all) : all[i] = p
  BY <1>2, LenProperties DEF Range
<1>4. I # {} /\ I \in SUBSET Nat
  BY <1>3
<1>5. Min(I) \in I
  <2>. HIDE DEF I
  <2>. QED  BY <1>4, MinIsLeast
<1>6. f = IF Min(I) = 0 THEN NULL ELSE all[Min(I)]
  BY <1>4 DEF ShowPcb, Named, PcbFind, SelectInSeq
<1>7. Min(I) \in 1..Len(all) /\ pcb[all[Min(I)]].process_name = name
  BY <1>5
<1>. HIDE DEF I, all, f, name
<1>8. f = all[Min(I)] /\ f \in Range(all) /\ f \in Pcbs
  BY <1>2, <1>6, <1>7, ElementOfSeq, LenProperties DEF Range
<1>9. f # NULL
  BY <1>8, LenProperties DEF Inv, TypeOK, Pcbs, NULL
<1>. QED  BY <1>2, <1>7, <1>8, <1>9 DEF f, name

\* What is printed of a queue.
LEMMA ShownOfQueue ==
    ASSUME Inv, NEW n \in QueueName
    PROVE  /\ ShowQueue(n) \in Seq(Pcbs)
           /\ Range(ShowQueue(n)) = {ShowPcb(pcb[p].process_name) : p \in Range(queue[n])}
<1>1. queue[n] \in Seq(Pcbs) /\ DOMAIN queue[n] = 1..Len(queue[n]) /\ Len(queue[n]) \in Nat
  BY LenProperties DEF Inv, TypeOK
<1>2. \A k \in DOMAIN queue[n] : queue[n][k] \in Queued
  BY DEF Queued, OnQueues, Range
<1>3. \A k \in DOMAIN queue[n] : ShowPcb(pcb[queue[n][k]].process_name) \in Pcbs
  BY <1>2, FoundByName
<1>4. ShowQueue(n) \in Seq(Pcbs)
  BY <1>1, <1>3, IsASeq DEF ShowQueue
<1>. QED  BY <1>1, <1>4 DEF ShowQueue, Range

\* Where no two queued PCBs have the same name, a queue is printed as it is.
LEMMA ShownAsQueued ==
    ASSUME Inv, NEW n \in QueueName,
           \A p, r \in Queued : pcb[p].process_name = pcb[r].process_name => p = r
    PROVE  Range(ShowQueue(n)) = Range(queue[n])
<1>1. \A p \in Range(queue[n]) : p \in Queued
  BY DEF Queued, OnQueues
<1>2. \A p \in Range(queue[n]) : ShowPcb(pcb[p].process_name) = p
  BY <1>1, FoundByName
<1>3. Range(ShowQueue(n)) = {ShowPcb(pcb[p].process_name) : p \in Range(queue[n])}
  BY ShownOfQueue
<1>. QED  BY ONLY <1>2, <1>3

\* The show commands find every PCB they list again by its name, and where no two
\* names are equal they print as ready what is ready, suspended or not, and as
\* blocked what is blocked.
THEOREM ShowsAreTrue == Spec => []ShowsWhatIsQueued
<1>1. ASSUME Inv PROVE ShowsWhatIsQueued
  <2>1. /\ "ready" \in QueueName /\ "susp_ready" \in QueueName
        /\ "blocked" \in QueueName /\ "susp_blocked" \in QueueName
    BY DEF QueueName
  <2>2. /\ ShowReadyPcbs \in Seq(Pcbs) /\ ShowBlockedPcbs \in Seq(Pcbs)
        /\ Range(ShowReadyPcbs) = Range(ShowQueue("ready")) \union Range(ShowQueue("susp_ready"))
        /\ Range(ShowBlockedPcbs) = Range(ShowQueue("blocked"))
                                    \union Range(ShowQueue("susp_blocked"))
    BY <1>1, <2>1, ShownOfQueue, ConcatProperties, RangeConcatenation
       DEF ShowReadyPcbs, ShowBlockedPcbs
  <2>3. Range(ShowAllPcbs) \subseteq Pcbs
    BY <2>2, ConcatProperties, RangeOfSeq DEF ShowAllPcbs
  <2>4. NULL \notin Range(ShowAllPcbs)
    BY <1>1, <2>3, LenProperties DEF Inv, TypeOK, Pcbs, NULL
  <2>5. ASSUME \A p, r \in Queued : pcb[p].process_name = pcb[r].process_name => p = r
        PROVE  /\ Range(ShowReadyPcbs) = {p \in Queued : pcb[p].execution_state = READY}
               /\ Range(ShowBlockedPcbs) = {p \in Queued : pcb[p].execution_state = BLOCKED}
    <3>1. /\ Range(ShowReadyPcbs) = Range(queue["ready"]) \union Range(queue["susp_ready"])
          /\ Range(ShowBlockedPcbs) = Range(queue["blocked"]) \union Range(queue["susp_blocked"])
      BY <1>1, <2>1, <2>2, <2>5, ShownAsQueued
    <3>2. ASSUME NEW n \in QueueName, NEW p \in Range(queue[n])
          PROVE  /\ p \in Queued
                 /\ pcb[p].execution_state = READY <=> n \in {"ready", "susp_ready"}
                 /\ pcb[p].execution_state = BLOCKED <=> n \in {"blocked", "susp_blocked"}
      <4>1. p \in Queued /\ p \in Pcbs
        BY <1>1, RangeOfSeq DEF Queued, OnQueues, Inv, TypeOK
      <4>2. QueueOf(pcb[p]) = n /\ pcb[p] \in PCB
        BY <1>1, <4>1, ElementOfSeq, LenProperties DEF Inv, TypeOK, Pcbs, FiledByState, Filed
      <4>. QED  BY <4>1, <4>2 DEF QueueOf, PCB, READY, BLOCKED, NOT_SUSPENDED, SUSPENDED
    <3>3. \A p \in Queued : \E n \in QueueName : p \in Range(queue[n])
      BY DEF Queued, OnQueues
    <3>. QED  BY <2>1, <3>1, <3>2, <3>3 DEF QueueName
  <2>. QED  BY <2>4, <2>5 DEF ShowsWhatIsQueued
<1>. QED  BY <1>1, Invariance, PTL
=============================================================================
