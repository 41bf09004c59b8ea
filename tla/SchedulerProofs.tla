-------------------------- MODULE SchedulerProofs --------------------------
(***************************************************************************)
(* More about Mpx, on the ground of the invariant of MpxProofs: every      *)
(* process goes on in its own stack, the ready queues are in priority      *)
(* order, and the front of them is what runs, whatever is loaded and       *)
(* whatever users type.  The command handler and the idle process can      *)
(* always be dispatched, and the CPU comes back to kmain only after a      *)
(* shutdown; on this ground it is that the system implements ProcessTable  *)
(* and that its calls do not fault.                                        *)
(***************************************************************************)
EXTENDS MpxProofs

(***************************************************************************)
(* Stacks.  A saved context is in the stack of the PCB it is saved in, for *)
(* the PCBs that are not queued as well: the one a process runs in is what *)
(* IDLE saves.                                                             *)
(***************************************************************************)
OwnStacks(ps) == \A p \in DOMAIN ps : ps[p].stack_ptr.stk = p

StacksOK ==
    /\ cpu.stk = IF cpu.eip = "kmain_halt" THEN NULL ELSE current_process
    /\ OwnStacks(pcb)
    /\ initial_context.stk = NULL

\* The end of a system call: the CPU goes to the stack of the process that is
\* chosen, or back to kmain's.
LEMMA DispatchKeepsStacks ==
    ASSUME NEW ps \in Seq(PCB), NEW qs \in [QueueName -> Seq(DOMAIN ps)],
           NEW cur, NEW flag, NEW ic, NEW fr,
           OwnStacks(ps), SavedContextsResume(ps),
           ic.eip = "kmain_halt", ic.stk = NULL,
           Dispatch(qs, ps, cur, flag, ic, fr)
    PROVE  StacksOK'
<1>1. CASE qs["ready"] # << >>
  <2>. DEFINE next == Head(qs["ready"])
  <2>1. next \in DOMAIN ps
    <3>1. "ready" \in QueueName
      BY DEF QueueName
    <3>. QED  BY <1>1, <3>1
  <2>2. /\ pcb' = ps
        /\ cpu' = ps[next].stack_ptr
        /\ current_process' = next
        /\ initial_context' = ic
    BY <1>1 DEF Dispatch, PcbInsert
  <2>. HIDE DEF next
  <2>3. cpu'.stk = next /\ cpu'.eip # "kmain_halt"
    BY <2>1, <2>2 DEF OwnStacks, SavedContextsResume, ProcessLabel
  <2>. QED  BY <2>2, <2>3 DEF StacksOK
<1>2. CASE qs["ready"] = << >>
  <2>1. /\ pcb' = ps
        /\ cpu' = ic
        /\ initial_context' = NoContext
    BY <1>2 DEF Dispatch
  <2>. QED  BY <2>1 DEF StacksOK, NoContext, Context
<1>. QED  BY <1>1, <1>2

\* A step within a process that loads nothing.
LEMMA GotoKeepsStacks ==
    ASSUME Inv, StacksOK, OwnStacks(pcb'),
           UNCHANGED <<current_process, initial_context>>,
           cpu' = cpu \/ \E eip, i : Goto(eip, i) /\ eip # "kmain_halt",
           cpu.eip # "kmain_halt" \/ cpu' = cpu
    PROVE  StacksOK'
<1>1. CASE cpu' = cpu
  BY <1>1 DEF StacksOK
<1>2. ASSUME NEW eip, NEW i, Goto(eip, i), eip # "kmain_halt", cpu.eip # "kmain_halt"
      PROVE  StacksOK'
  <2>1. cpu'.stk = cpu.stk /\ cpu'.eip = eip
    BY <1>2 DEF Goto, Inv, TypeOK, Contexts
  <2>. QED  BY <1>2, <2>1 DEF StacksOK
<1>. QED  BY <1>1, <1>2

LEMMA LoadKeepsStacks ==
    ASSUME Inv, StacksOK,
           NEW name, NEW class, NEW priority, NEW eip, NEW i,
           Load(name, class, priority, eip, i)
    PROVE  OwnStacks(pcb')
<1>. DEFINE rec == [process_name      |-> name,
                    process_class     |-> class,
                    process_priority  |-> priority,
                    execution_state   |-> READY,
                    dispatching_state |-> NOT_SUSPENDED,
                    stack_ptr         |-> Context(Len(pcb) + 1, eip, i)]
            ps  == Append(pcb, rec)
<1>1. pcb' = pcb \/ pcb' = ps
  BY DEF Load, NewPcb, PcbInsert
<1>2. OwnStacks(ps)
  <2>1. pcb \in Seq(PCB) /\ Len(pcb) \in Nat /\ DOMAIN pcb = 1..Len(pcb)
    BY LenProperties DEF Inv, TypeOK
  <2>2. rec.stack_ptr.stk = Len(pcb) + 1
    BY DEF Context
  <2>. HIDE DEF rec
  <2>3. DOMAIN ps = 1..(Len(pcb) + 1)
    BY <2>1
  <2>4. \A p \in 1..(Len(pcb) + 1) : ps[p] = IF p = Len(pcb) + 1 THEN rec ELSE pcb[p]
    BY <2>1
  <2>. QED  BY <2>1, <2>2, <2>3, <2>4 DEF StacksOK, OwnStacks
<1>. QED  BY <1>1, <1>2 DEF StacksOK

LEMMA RefileKeepsStacks ==
    ASSUME Inv, StacksOK, cpu.eip # "kmain_halt",
           NEW p \in Pcbs, NEW rec, rec.stack_ptr = pcb[p].stack_ptr, Refile(p, rec)
    PROVE  StacksOK'
<1>1. /\ pcb' = [pcb EXCEPT ![p] = rec]
      /\ Goto("comhand_end", 0)
      /\ UNCHANGED <<current_process, initial_context>>
  BY DEF Refile, PcbInsert, schedVars
<1>2. OwnStacks(pcb')
  BY <1>1, LenProperties DEF StacksOK, OwnStacks, Inv, TypeOK, Pcbs
<1>. QED  BY <1>1, <1>2, GotoKeepsStacks

LEMMA IdleKeepsStacks ==
    ASSUME Inv, StacksOK, NEW ctx \in Contexts, SysIdle(ctx),
           cpu.eip # "kmain_halt", ctx.stk = cpu.stk,
           (ctx.eip = "kmain_halt" /\ current_process = NULL) \/ ctx.eip \in ProcessLabel,
           initial_context = NoContext => ctx.eip = "kmain_halt"
    PROVE  StacksOK'
<1>. DEFINE cur == current_process
            ps  == IF cur = NULL THEN pcb
                   ELSE [pcb EXCEPT ![cur].execution_state = READY, ![cur].stack_ptr = ctx]
            ic  == IF initial_context = NoContext THEN ctx ELSE initial_context
            flag == insert_flag \/ cur # NULL
<1>1. Dispatch(queue, ps, cur, flag, ic, freed)
  BY DEF SysIdle
<1>2. ps \in Seq(PCB) /\ DOMAIN ps = DOMAIN pcb /\ OwnStacks(ps) /\ SavedContextsResume(ps)
  <2>1. CASE cur = NULL
    BY <2>1 DEF Inv, TypeOK, ContextsOK, StacksOK
  <2>2. CASE cur # NULL
    <3>. DEFINE rec == [pcb[cur] EXCEPT !.execution_state = READY, !.stack_ptr = ctx]
    <3>1. cur \in DOMAIN pcb /\ ctx.eip \in ProcessLabel /\ ctx.stk = cur /\ pcb \in Seq(PCB)
      BY <2>2 DEF Inv, TypeOK, Pcbs, StacksOK
    <3>2. pcb[cur] \in PCB
      BY <3>1, ElementOfSeq, LenProperties
    <3>3. rec \in PCB /\ rec.stack_ptr = ctx
      BY <3>2 DEF PCB, READY
    <3>4. ps = [pcb EXCEPT ![cur] = rec]
      BY <2>2, <3>1, <3>2, LenProperties DEF PCB
    <3>. HIDE DEF ps, rec
    <3>5. /\ ps \in Seq(PCB)
          /\ DOMAIN ps = DOMAIN pcb
          /\ \A r \in DOMAIN pcb \ {cur} : ps[r] = pcb[r]
          /\ ps[cur] = rec
      BY <3>1, <3>3, <3>4, ExceptSeq, LenProperties
    <3>6. SavedContextsResume(ps)
      BY <3>1, <3>3, <3>5 DEF SavedContextsResume, Inv, ContextsOK
    <3>7. OwnStacks(ps)
      BY <3>1, <3>3, <3>5 DEF StacksOK, OwnStacks
    <3>. QED  BY <3>5, <3>6, <3>7
  <2>. QED  BY <2>1, <2>2
<1>3. ic.eip = "kmain_halt" /\ ic.stk = NULL
  <2>1. CASE initial_context = NoContext
    <3>1. cpu.eip \in BootLabel
      BY <2>1 DEF Inv, ContextsOK
    <3>2. cpu.stk = NULL
      BY <3>1 DEF Inv, ContextsOK, StacksOK
    <3>. QED  BY <2>1, <3>2
  <2>2. CASE initial_context # NoContext
    BY <2>2 DEF Inv, ContextsOK, StacksOK
  <2>. QED  BY <2>1, <2>2
<1>4. queue \in [QueueName -> Seq(DOMAIN ps)]
  BY <1>2 DEF Inv, TypeOK, Pcbs
<1>. HIDE DEF ps, ic, flag, cur
<1>. QED  BY <1>1, <1>2, <1>3, <1>4, DispatchKeepsStacks

LEMMA ExitKeepsStacks ==
    ASSUME Inv, StacksOK, SysExit, cpu.eip \in ProcessLabel
    PROVE  StacksOK'
<1>. DEFINE cur == current_process
            qs  == PcbRemove(queue, cur)
            fr  == freed \union ({cur} \ {NULL})
<1>1. Dispatch(qs, pcb, NULL, insert_flag, initial_context, fr)
  BY DEF SysExit
<1>2. initial_context.eip = "kmain_halt" /\ initial_context.stk = NULL
  BY DEF Inv, ContextsOK, ProcessLabel, BootLabel, StacksOK
<1>3. qs \in [QueueName -> Seq(DOMAIN pcb)]
  <2>. HIDE DEF cur
  <2>. QED  BY RemoveTakesOff DEF Inv, TypeOK, Pcbs
<1>. HIDE DEF qs, fr
<1>. QED  BY <1>1, <1>2, <1>3, DispatchKeepsStacks DEF Inv, TypeOK, ContextsOK, StacksOK

\* The commands that file a PCB again do not touch its saved context.
LEMMA FieldsKeepStacks ==
    ASSUME Inv, StacksOK, AtPrompt, NEW name, NEW p, p = Named(name), p # NULL,
           NEW rec,
           \/ \E es : rec = [pcb[p] EXCEPT !.execution_state = es]
           \/ \E ds : rec = [pcb[p] EXCEPT !.dispatching_state = ds]
           \/ \E pr : rec = [pcb[p] EXCEPT !.process_priority = pr],
           Refile(p, rec)
    PROVE  StacksOK'
<1>1. p \in Pcbs /\ pcb[p] \in PCB
  BY NamedIsQueued
<1>2. rec.stack_ptr = pcb[p].stack_ptr
  BY <1>1 DEF PCB
<1>. QED  BY <1>1, <1>2, RefileKeepsStacks DEF AtPrompt, At

LEMMA ReadCommandKeepsStacks ==
    ASSUME Inv, StacksOK, ReadCommand
    PROVE  StacksOK'
<1>1. ASSUME AtPrompt, OwnStacks(pcb'), UNCHANGED schedVars,
             NEW eip, NEW i, Goto(eip, i), eip # "kmain_halt"
      PROVE  StacksOK'
  BY <1>1, GotoKeepsStacks DEF AtPrompt, At, schedVars
<1>2. ASSUME AtPrompt, UNCHANGED <<pcb, schedVars>>, Goto("comhand_end", 0)
      PROVE  StacksOK'
  BY <1>1, <1>2 DEF StacksOK
<1>3. ASSUME NEW name \in ArgNames, DeletePcb(name) PROVE StacksOK'
  <2>1. /\ OwnStacks(pcb') /\ cpu.eip # "kmain_halt"
        /\ UNCHANGED <<current_process, initial_context>> /\ Goto("comhand_end", 0)
    BY <1>3 DEF DeletePcb, AtPrompt, At, StacksOK
  <2>. QED  BY <2>1, GotoKeepsStacks
<1>4. ASSUME NEW name \in ArgNames, SuspendPcb(name) PROVE StacksOK'
  <2>1. CASE /\ Named(name) # NULL
             /\ Refile(Named(name), [pcb[Named(name)] EXCEPT !.dispatching_state = SUSPENDED])
    BY <1>4, <2>1, FieldsKeepStacks DEF SuspendPcb
  <2>2. CASE UNCHANGED <<pcb, schedVars, cpu>>
    BY <2>2 DEF StacksOK, schedVars
  <2>. QED  BY <1>4, <2>1, <2>2 DEF SuspendPcb
<1>5. ASSUME NEW name \in ArgNames, ResumePcb(name) PROVE StacksOK'
  BY <1>5, FieldsKeepStacks DEF ResumePcb
<1>6. ASSUME NEW name \in ArgNames, BlockPcb(name) PROVE StacksOK'
  BY <1>6, FieldsKeepStacks DEF BlockPcb
<1>7. ASSUME NEW name \in ArgNames, UnblockPcb(name) PROVE StacksOK'
  BY <1>7, FieldsKeepStacks DEF UnblockPcb
<1>8. ASSUME NEW name \in ArgNames, NEW new \in PrioArgs, SetPcbPriority(name, new)
      PROVE  StacksOK'
  <2>. DEFINE p == Named(name)
  <2>1. CASE Refile(p, [pcb[p] EXCEPT !.process_priority = new])
    BY <1>8, <2>1, FieldsKeepStacks DEF SetPcbPriority
  <2>2. CASE /\ pcb' = [pcb EXCEPT ![p].process_priority = new]
             /\ Goto("comhand_end", 0)
             /\ UNCHANGED schedVars
    <3>1. p \in DOMAIN pcb /\ pcb[p] \in PCB /\ pcb \in Seq(PCB)
      BY <1>8, NamedIsQueued DEF SetPcbPriority, Pcbs, Inv, TypeOK
    <3>2. pcb'[p].stack_ptr = pcb[p].stack_ptr
      BY <2>2, <3>1, LenProperties DEF PCB
    <3>3. DOMAIN pcb' = DOMAIN pcb /\ \A r \in DOMAIN pcb \ {p} : pcb'[r] = pcb[r]
      BY <2>2, <3>1, LenProperties
    <3>. HIDE DEF p
    <3>4. OwnStacks(pcb')
      BY <3>1, <3>2, <3>3 DEF StacksOK, OwnStacks
    <3>. QED  BY <1>1, <1>8, <2>2, <3>4 DEF SetPcbPriority
  <2>. QED  BY <1>8, <2>1, <2>2 DEF SetPcbPriority
<1>9. ASSUME NEW yes \in BOOLEAN, ShutdownCommand(yes) PROVE StacksOK'
  BY <1>2, <1>9 DEF ShutdownCommand, memVars
<1>10. ASSUME NEW a \in AlarmArgs, AlarmCommand(a) PROVE StacksOK'
  <2>1. AtPrompt /\ UNCHANGED schedVars /\ Goto("comhand_end", 0)
    BY <1>10 DEF AlarmCommand
  <2>2. CASE a.valid
    BY <1>1, <1>10, <2>1, <2>2, LoadKeepsStacks DEF AlarmCommand
  <2>3. CASE ~ a.valid
    BY <1>2, <1>10, <2>1, <2>3 DEF AlarmCommand, memVars
  <2>. QED  BY <2>2, <2>3
<1>11. ASSUME YieldCommand PROVE StacksOK'
  <2>. DEFINE ctx == [cpu EXCEPT !.eip = "comhand_end"]
  <2>1. cpu.eip = "comhand" /\ SysIdle(ctx)
    BY <1>11 DEF YieldCommand, AtPrompt, At
  <2>2. /\ ctx \in Contexts /\ ctx.eip \in ProcessLabel /\ ctx.stk = cpu.stk
        /\ initial_context # NoContext
    BY <2>1 DEF Inv, TypeOK, ContextsOK, Contexts, Label, ProcessLabel, BootLabel
  <2>. HIDE DEF ctx
  <2>. QED  BY <2>1, <2>2, IdleKeepsStacks
<1>12. ASSUME LoadR3Command PROVE StacksOK'
  BY <1>1, <1>12 DEF LoadR3Command, memVars, StacksOK
<1>13. ASSUME CommandWithoutEffect PROVE StacksOK'
  BY <1>2, <1>13 DEF CommandWithoutEffect, memVars
<1>. QED  BY <1>3, <1>4, <1>5, <1>6, <1>7, <1>8, <1>9, <1>10, <1>11, <1>12, <1>13
          DEF ReadCommand

LEMMA CpuStepKeepsStacks ==
    ASSUME Inv, StacksOK, CpuStep
    PROVE  StacksOK'
<1>1. ASSUME cpu.eip # "kmain_halt", UNCHANGED schedVars,
             NEW name, NEW class, NEW priority, NEW start, NEW n,
             Load(name, class, priority, start, n),
             NEW eip, NEW i, Goto(eip, i), eip # "kmain_halt"
      PROVE  StacksOK'
  BY <1>1, LoadKeepsStacks, GotoKeepsStacks DEF schedVars
<1>2. ASSUME NEW ctx, SysIdle(ctx), cpu.eip \in ProcessLabel,
             ctx \in Contexts, ctx.stk = cpu.stk, ctx.eip \in ProcessLabel
      PROVE  StacksOK'
  BY <1>2, IdleKeepsStacks DEF Inv, ContextsOK, ProcessLabel, BootLabel
<1>3. ASSUME KmainLoadComhand PROVE StacksOK'
  BY <1>1, <1>3 DEF KmainLoadComhand, At
<1>4. ASSUME KmainLoadIdle PROVE StacksOK'
  BY <1>1, <1>4 DEF KmainLoadIdle, At
<1>5. ASSUME KmainYield PROVE StacksOK'
  <2>. DEFINE ctx == [cpu EXCEPT !.eip = "kmain_halt"]
  <2>1. SysIdle(ctx) /\ cpu.eip = "kmain_yield" /\ current_process = NULL
    BY <1>5 DEF KmainYield, At, Inv, ContextsOK, BootLabel
  <2>2. ctx \in Contexts /\ ctx.eip = "kmain_halt" /\ ctx.stk = cpu.stk
    BY DEF Inv, TypeOK, Contexts, Label
  <2>. HIDE DEF ctx
  <2>. QED  BY <2>1, <2>2, IdleKeepsStacks
<1>6. ASSUME KmainHalt PROVE StacksOK'
  BY <1>6 DEF KmainHalt, schedVars, StacksOK
<1>7. ASSUME ComhandEnd PROVE StacksOK'
  <2>. DEFINE ctx == [cpu EXCEPT !.eip = "comhand"]
  <2>1. /\ cpu.eip \in ProcessLabel /\ (SysExit \/ SysIdle(ctx))
    BY <1>7 DEF ComhandEnd, At, ProcessLabel
  <2>2. ctx \in Contexts /\ ctx.stk = cpu.stk /\ ctx.eip \in ProcessLabel
    BY DEF Inv, TypeOK, Contexts, Label, ProcessLabel
  <2>. HIDE DEF ctx
  <2>. QED  BY <1>2, <2>1, <2>2, ExitKeepsStacks
<1>8. ASSUME LoadR3Step PROVE StacksOK'
  <2>1. /\ cpu.eip # "kmain_halt" /\ UNCHANGED schedVars
        /\ Load(R3Procs[cpu.i].name, USER_APP, 3, "r3", R3Procs[cpu.i].iterations)
        /\ Goto("comhand_end", 0) \/ Goto("loadR3", cpu.i + 1)
    BY <1>8 DEF LoadR3Step, At
  <2>. QED  BY <1>1, <2>1
<1>9. ASSUME SysIdleProcess \/ AlarmPoll PROVE StacksOK'
  BY <1>2, <1>9 DEF SysIdleProcess, AlarmPoll, At, ProcessLabel, Inv, TypeOK
<1>10. ASSUME R3Iteration PROVE StacksOK'
  <2>. DEFINE ctx == [cpu EXCEPT !.i = @ - 1]
  <2>1. SysIdle(ctx) /\ cpu.eip = "r3" /\ cpu.i > 0
    BY <1>10 DEF R3Iteration, At
  <2>2. ctx \in Contexts /\ ctx.stk = cpu.stk /\ ctx.eip = "r3"
    BY <2>1 DEF Inv, TypeOK, Contexts
  <2>. HIDE DEF ctx
  <2>. QED  BY <1>2, <2>1, <2>2 DEF ProcessLabel
<1>11. ASSUME R3Exit \/ AlarmFire PROVE StacksOK'
  BY <1>11, ExitKeepsStacks DEF R3Exit, AlarmFire, At, ProcessLabel
<1>12. ASSUME AlarmStart PROVE StacksOK'
  <2>1. /\ cpu.eip # "kmain_halt" /\ Goto("alarm_wait", global_time)
        /\ UNCHANGED <<pcb, current_process, initial_context>>
    BY <1>12 DEF AlarmStart, At, memVars, schedVars
  <2>. QED  BY <2>1, GotoKeepsStacks DEF StacksOK
<1>. QED  BY <1>3, <1>4, <1>5, <1>6, <1>7, <1>8, <1>9, <1>10, <1>11, <1>12 DEF CpuStep

\* sys_call and the interrupt that leads to it restore each process from its own
\* stack, and kmain from the boot stack, for any programs and any commands.
THEOREM EachOnItsOwnStack == Spec => []RunsOwnStack
<1>1. Init => StacksOK
  BY DEF Init, KernelInit, StacksOK, OwnStacks, Context, NoContext, NULL
<1>2. ASSUME Inv, StacksOK, [Next]_vars PROVE StacksOK'
  <2>1. CASE UNCHANGED vars
    BY <1>2, <2>1 DEF StacksOK, vars, kernelVars, memVars, schedVars
  <2>. QED  BY <1>2, <2>1, ReadCommandKeepsStacks, CpuStepKeepsStacks DEF Next, Stopped
<1>3. Inv /\ StacksOK => RunsOwnStack
  <2>1. Inv => Queued \subseteq Pcbs
    BY RangeOfSeq DEF Inv, TypeOK, Queued, OnQueues, Pcbs
  <2>. QED  BY <2>1 DEF StacksOK, OwnStacks, RunsOwnStack, Pcbs
<1>. QED  BY <1>1, <1>2, <1>3, Invariance, PTL DEF Spec

----------------------------------------------------------------------------
(***************************************************************************)
(* Order.  The ready queues are sorted by priority.                        *)
(***************************************************************************)
Sorted(q, ps) ==
    \A j, k \in DOMAIN q : j < k => ps[q[j]].process_priority <= ps[q[k]].process_priority

InOrder(qs, ps) == \A n \in PriorityQueue : Sorted(qs[n], ps)

LEMMA PriorityIsANumber ==
    ASSUME NEW ps \in Seq(PCB)
    PROVE  \A r \in DOMAIN ps : ps[r].process_priority \in Nat
<1>1. \A rec \in PCB : rec.process_priority \in Priority
  BY DEF PCB
<1>2. Priority \subseteq Nat
  BY DEF Priority
<1>3. \A r \in DOMAIN ps : ps[r] \in PCB
  BY ElementOfSeq, LenProperties
<1>. QED  BY <1>1, <1>2, <1>3

\* pcb_insert's walk stops between those that go first, the equals among them,
\* and those that do not.
LEMMA InsertionPointSplits ==
    ASSUME NEW ps \in Seq(PCB), NEW q \in Seq(DOMAIN ps), NEW p \in DOMAIN ps, Sorted(q, ps)
    PROVE  LET k == InsertionPoint(q, ps, p)
           IN  /\ k \in 1..(Len(q) + 1)
               /\ \A i \in 1..Len(q) :
                     i < k => ps[q[i]].process_priority <= ps[p].process_priority
               /\ \A i \in 1..Len(q) :
                     i >= k => ps[p].process_priority < ps[q[i]].process_priority
<1>. DEFINE pp(r) == ps[r].process_priority
            I == {i \in 1..Len(q) : pp(q[i]) > pp(p)}
            k == InsertionPoint(q, ps, p)
<1>1. Len(q) \in Nat /\ DOMAIN q = 1..Len(q)
  BY LenProperties
<1>2. \A r \in DOMAIN ps : pp(r) \in Nat
  BY PriorityIsANumber
<1>3. \A i \in 1..Len(q) : q[i] \in DOMAIN ps
  BY ElementOfSeq
<1>4. k \in 1..(Len(q) + 1)
  BY InsertionPointInRange
<1>5. CASE I = {}
  <2>1. k = Len(q) + 1
    BY <1>5 DEF InsertionPoint, SelectInSeq
  <2>2. \A i \in 1..Len(q) : ~(pp(q[i]) > pp(p))
    BY <1>5
  <2>. QED  BY <1>1, <1>2, <1>3, <1>4, <2>1, <2>2
<1>6. CASE I # {}
  <2>1. I \in SUBSET Nat
    OBVIOUS
  <2>2. Min(I) \in I /\ \A i \in I : Min(I) <= i
    <3>. HIDE DEF I
    <3>. QED  BY <1>6, <2>1, MinIsLeast
  <2>3. k = IF Min(I) = 0 THEN Len(q) + 1 ELSE Min(I)
    BY <1>6 DEF InsertionPoint, SelectInSeq
  <2>4. k \in I /\ \A i \in I : k <= i
    <3>1. Min(I) # 0
      BY <2>2
    <3>. HIDE DEF I, k
    <3>. QED  BY <2>2, <2>3, <3>1
  <2>. HIDE DEF k
  <2>5. \A i \in 1..Len(q) : i < k => pp(q[i]) <= pp(p)
    BY <1>1, <1>2, <1>3, <1>4, <2>4
  <2>6. \A i \in 1..Len(q) : i > k => pp(q[k]) <= pp(q[i])
    BY <1>1, <2>4 DEF Sorted
  <2>7. pp(p) < pp(q[k]) /\ k \in 1..Len(q)
    BY <1>2, <1>3, <2>4
  <2>8. ASSUME NEW i \in 1..Len(q), i >= k PROVE pp(p) < pp(q[i])
    <3>1. pp(p) \in Nat /\ pp(q[k]) \in Nat /\ pp(q[i]) \in Nat
      BY <1>2, <1>3, <2>7, <2>8
    <3>2. i = k \/ pp(q[k]) <= pp(q[i])
      BY <1>1, <2>6, <2>7, <2>8
    <3>. HIDE DEF pp
    <3>. QED  BY <2>7, <3>1, <3>2
  <2>. QED  BY <1>4, <2>5, <2>8 DEF k
<1>. QED  BY <1>5, <1>6

LEMMA EnqueueKeepsOrder ==
    ASSUME NEW ps \in Seq(PCB), NEW n \in PriorityQueue,
           NEW q \in Seq(DOMAIN ps), NEW p \in DOMAIN ps, Sorted(q, ps)
    PROVE  Sorted(Enqueue(n, q, ps, p), ps)
<1>. DEFINE pp(r) == ps[r].process_priority
            k == InsertionPoint(q, ps, p)
            t == InsertAt(q, k, p)
<1>1. Len(q) \in Nat /\ DOMAIN q = 1..Len(q)
  BY LenProperties
<1>2. /\ k \in 1..(Len(q) + 1)
      /\ \A i \in 1..Len(q) : i < k => pp(q[i]) <= pp(p)
      /\ \A i \in 1..Len(q) : i >= k => pp(p) < pp(q[i])
  BY InsertionPointSplits
<1>3. Enqueue(n, q, ps, p) = t
  BY DEF Enqueue
<1>. HIDE DEF k
<1>4. /\ t \in Seq(DOMAIN ps)
      /\ Len(t) = Len(q) + 1
      /\ \A i \in 1..(Len(q) + 1) : t[i] = IF i < k THEN q[i] ELSE IF i = k THEN p ELSE q[i - 1]
  <2>1. t \in Seq(DOMAIN ps) /\ Inserted(t, q, k, p)
    BY <1>2, InsertAtInserts
  <2>. HIDE DEF t
  <2>. QED  BY <2>1 DEF Inserted
<1>. HIDE DEF t
<1>5. DOMAIN t = 1..(Len(q) + 1)
  BY <1>4, LenProperties
<1>6. ASSUME NEW i \in DOMAIN t, NEW j \in DOMAIN t, i < j PROVE pp(t[i]) <= pp(t[j])
  <2>1. CASE j < k
    <3>1. i \in 1..Len(q) /\ j \in 1..Len(q) /\ t[i] = q[i] /\ t[j] = q[j]
      BY <1>1, <1>2, <1>4, <1>5, <1>6, <2>1
    <3>. QED  BY <1>1, <1>6, <3>1 DEF Sorted
  <2>2. CASE j = k
    <3>1. i \in 1..Len(q) /\ t[i] = q[i] /\ t[j] = p /\ i < k
      BY <1>1, <1>2, <1>4, <1>5, <1>6, <2>2
    <3>. QED  BY <1>2, <3>1
  <2>3. CASE j > k
    <3>1. j - 1 \in 1..Len(q) /\ t[j] = q[j - 1] /\ j - 1 >= k
      BY <1>1, <1>2, <1>4, <1>5, <2>3, SMTT(20)
    <3>2. CASE i < k
      <4>1. i \in 1..Len(q) /\ t[i] = q[i] /\ i < j - 1
        BY <1>1, <1>2, <1>4, <1>5, <2>3, <3>2, SMTT(20)
      <4>. QED  BY <1>1, <3>1, <4>1 DEF Sorted
    <3>3. CASE i = k
      <4>1. t[i] = p /\ pp(p) < pp(q[j - 1])
        BY <1>2, <1>4, <1>5, <3>1, <3>3, SMTT(20)
      <4>2. pp(p) \in Nat /\ pp(q[j - 1]) \in Nat
        <5>1. q[j - 1] \in DOMAIN ps
          BY <3>1, ElementOfSeq
        <5>. QED  BY <5>1, PriorityIsANumber
      <4>. HIDE DEF pp
      <4>. QED  BY <3>1, <4>1, <4>2
    <3>4. CASE i > k
      <4>1. i \in 1..(Len(q) + 1) /\ j \in 1..(Len(q) + 1) /\ i > 1
        BY <1>2, <1>5, <3>4
      <4>2. i - 1 \in 1..Len(q) /\ i - 1 < j - 1
        BY <1>1, <1>6, <4>1
      <4>3. t[i] = q[i - 1]
        BY <1>2, <1>4, <3>4, <4>1, SMTT(20)
      <4>. QED  BY <1>1, <3>1, <4>2, <4>3 DEF Sorted
    <3>. QED  BY <1>2, <1>5, <3>2, <3>3, <3>4
  <2>. QED  BY <1>2, <1>5, <2>1, <2>2, <2>3
<1>. QED  BY <1>3, <1>6 DEF Sorted

\* Taking a PCB off leaves the others in their order.
LEMMA RemoveFirstKeepsOrder ==
    ASSUME NEW S, NEW q \in Seq(S), NEW p, NEW ps, Sorted(q, ps)
    PROVE  Sorted(RemoveFirst(q, p), ps)
<1>1. Len(q) \in Nat /\ DOMAIN q = 1..Len(q)
  BY LenProperties
<1>2. CASE ~\E i \in 1..Len(q) : q[i] = p
  BY <1>2 DEF RemoveFirst
<1>3. CASE \E i \in 1..Len(q) : q[i] = p
  <2>. DEFINE I == {i \in 1..Len(q) : q[i] = p}
              k == Min(I)
              t == RemoveAt(q, k)
  <2>1. I \in SUBSET Nat /\ I # {}
    BY <1>3
  <2>2. k \in I
    <3>. HIDE DEF I
    <3>. QED  BY <2>1, MinIsLeast
  <2>3. RemoveFirst(q, p) = t
    BY <1>3, <2>1 DEF RemoveFirst, SelectInSeq
  <2>4. k \in 1..Len(q)
    BY <2>2
  <2>. HIDE DEF I, k
  <2>5. /\ t \in Seq(S)
        /\ Len(t) = Len(q) - 1
        /\ \A i \in 1..(Len(q) - 1) : t[i] = IF i < k THEN q[i] ELSE q[i + 1]
    BY <2>4, RemoveAtProperties
  <2>. HIDE DEF t
  <2>6. DOMAIN t = 1..(Len(q) - 1)
    BY <2>5, LenProperties
  <2>. DEFINE From(i) == IF i < k THEN i ELSE i + 1
  <2>7. \A i \in 1..(Len(q) - 1) : From(i) \in 1..Len(q) /\ t[i] = q[From(i)]
    BY <1>1, <2>4, <2>5
  <2>8. \A i, j \in 1..(Len(q) - 1) : i < j => From(i) < From(j)
    BY <1>1, <2>4
  <2>. HIDE DEF From
  <2>. QED  BY <1>1, <2>3, <2>6, <2>7, <2>8 DEF Sorted
<1>. QED  BY <1>2, <1>3

LEMMA RemoveKeepsOrder ==
    ASSUME NEW S, NEW qs \in [QueueName -> Seq(S)], NEW p, NEW ps, InOrder(qs, ps)
    PROVE  InOrder(PcbRemove(qs, p), ps)
<1>. DEFINE k == SelectInSeq(SearchOrder, LAMBDA n : Contains(qs[n], p))
            h == SearchOrder[k]
<1>1. PcbRemove(qs, p) = IF k = 0 THEN qs ELSE [qs EXCEPT ![h] = RemoveFirst(@, p)]
  BY DEF PcbRemove
<1>. HIDE DEF k, h
<1>2. PriorityQueue \subseteq QueueName
  BY DEF PriorityQueue, QueueName
<1>3. ASSUME NEW n \in PriorityQueue PROVE Sorted(PcbRemove(qs, p)[n], ps)
  <2>1. PcbRemove(qs, p)[n] = qs[n] \/ PcbRemove(qs, p)[n] = RemoveFirst(qs[n], p)
    BY <1>1, <1>2
  <2>2. qs[n] \in Seq(S) /\ Sorted(qs[n], ps)
    BY <1>2 DEF InOrder
  <2>. QED  BY <2>1, <2>2, RemoveFirstKeepsOrder
<1>. QED  BY <1>3 DEF InOrder

\* The fields of a PCB that is on no queue do not matter.
LEMMA InOrderElsewhere ==
    ASSUME NEW ps, NEW ps2, NEW qs \in [QueueName -> Seq(DOMAIN ps)], NEW p,
           InOrder(qs, ps), p \notin OnQueues(qs),
           \A r \in DOMAIN ps \ {p} : ps2[r] = ps[r]
    PROVE  InOrder(qs, ps2)
<1>1. PriorityQueue \subseteq QueueName
  BY DEF PriorityQueue, QueueName
<1>2. \A n \in QueueName : \A j \in DOMAIN qs[n] : qs[n][j] \in DOMAIN ps \ {p}
  <2>1. \A n \in QueueName : Range(qs[n]) \subseteq DOMAIN ps \ {p}
    BY RangeOfSeq DEF OnQueues
  <2>. QED  BY <2>1 DEF Range
<1>. QED  BY <1>1, <1>2 DEF InOrder, Sorted

LEMMA InsertKeepsOrder ==
    ASSUME NEW ps \in Seq(PCB), NEW qs \in [QueueName -> Seq(DOMAIN ps)],
           NEW p \in DOMAIN ps, NEW heap,
           InOrder(qs, ps), PcbInsert(qs, ps, p, heap)
    PROVE  InOrder(queue', pcb')
<1>. DEFINE n == QueueOf(ps[p])
<1>1. pcb' = ps /\ PriorityQueue \subseteq QueueName
  BY DEF PcbInsert, PriorityQueue, QueueName
<1>. HIDE DEF n
<1>2. CASE queue' = qs
  BY <1>1, <1>2
<1>3. CASE queue' = [qs EXCEPT ![n] = <<p>>]
  <2>1. Sorted(<<p>>, ps)
    BY DEF Sorted
  <2>2. \A m \in PriorityQueue : queue'[m] = qs[m] \/ queue'[m] = <<p>>
    BY <1>1, <1>3
  <2>. QED  BY <1>1, <2>1, <2>2 DEF InOrder
<1>4. CASE queue' = [qs EXCEPT ![n] = Enqueue(n, qs[n], ps, p)]
  <2>1. ASSUME NEW m \in PriorityQueue PROVE Sorted(queue'[m], ps)
    <3>1. qs[m] \in Seq(DOMAIN ps) /\ Sorted(qs[m], ps)
      BY <1>1 DEF InOrder
    <3>2. queue'[m] = IF m = n THEN Enqueue(m, qs[m], ps, p) ELSE qs[m]
      BY <1>1, <1>4
    <3>. QED  BY <3>1, <3>2, EnqueueKeepsOrder
  <2>. QED  BY <1>1, <2>1 DEF InOrder
<1>. QED  BY <1>2, <1>3, <1>4 DEF PcbInsert, CreateQueue, WalkEmptyFifo, LinkIn, n

LEMMA DispatchKeepsOrder ==
    ASSUME NEW ps \in Seq(PCB), NEW qs \in [QueueName -> Seq(DOMAIN ps)],
           NEW cur \in DOMAIN ps \union {NULL}, NEW flag, NEW ic, NEW fr,
           flag => cur # NULL, InOrder(qs, ps), Dispatch(qs, ps, cur, flag, ic, fr)
    PROVE  InOrder(queue', pcb')
<1>1. CASE qs["ready"] # << >>
  <2>. DEFINE next == Head(qs["ready"])
              rest == PcbRemove(qs, next)
  <2>1. IF flag THEN PcbInsert(rest, ps, cur, heap_addr) ELSE pcb' = ps /\ queue' = rest
    BY <1>1 DEF Dispatch
  <2>. HIDE DEF next
  <2>2. InOrder(rest, ps) /\ rest \in [QueueName -> Seq(DOMAIN ps)]
    BY RemoveKeepsOrder, RemoveTakesOff
  <2>. HIDE DEF rest
  <2>. QED  BY <2>1, <2>2, InsertKeepsOrder
<1>2. CASE qs["ready"] = << >>
  BY <1>2 DEF Dispatch
<1>. QED  BY <1>1, <1>2

LEMMA LoadKeepsOrder ==
    ASSUME Inv, Inv', InOrder(queue, pcb),
           NEW name, NEW class, NEW priority, NEW eip, NEW i,
           Load(name, class, priority, eip, i)
    PROVE  InOrder(queue', pcb')
<1>. DEFINE p   == Len(pcb) + 1
            rec == [process_name      |-> name,
                    process_class     |-> class,
                    process_priority  |-> priority,
                    execution_state   |-> READY,
                    dispatching_state |-> NOT_SUSPENDED,
                    stack_ptr         |-> Context(p, eip, i)]
            ps  == Append(pcb, rec)
<1>1. \/ UNCHANGED <<pcb, queue>>
      \/ pcb' = ps /\ PcbInsert(queue, ps, p, heap_addr + PcbSize)
  BY DEF Load, NewPcb, PcbInsert
<1>2. pcb \in Seq(PCB) /\ Len(pcb) \in Nat /\ DOMAIN pcb = 1..Len(pcb)
  BY LenProperties DEF Inv, TypeOK
<1>. HIDE DEF rec
<1>3. /\ DOMAIN ps = 1..(Len(pcb) + 1)
      /\ \A r \in DOMAIN pcb : ps[r] = pcb[r]
  BY <1>2
<1>4. ASSUME pcb' = ps, PcbInsert(queue, ps, p, heap_addr + PcbSize)
      PROVE  InOrder(queue', pcb')
  <2>1. ps \in Seq(PCB)
    BY <1>4 DEF Inv, TypeOK
  <2>. HIDE DEF ps
  <2>2. \A n \in QueueName : queue[n] \in Seq(DOMAIN pcb) /\ Range(queue[n]) \subseteq DOMAIN pcb
    BY RangeOfSeq DEF Inv, TypeOK, Pcbs
  <2>3. p \notin DOMAIN pcb /\ p \in DOMAIN ps /\ DOMAIN pcb \subseteq DOMAIN ps
    BY <1>2, <1>3
  <2>. HIDE DEF p
  <2>4. queue \in [QueueName -> Seq(DOMAIN pcb)] /\ queue \in [QueueName -> Seq(DOMAIN ps)]
    <3>1. \A n \in QueueName : queue[n] \in Seq(DOMAIN ps)
      BY <2>2, <2>3, SeqMonotonic
    <3>. QED  BY <3>1 DEF Inv, TypeOK, Pcbs
  <2>5. p \notin OnQueues(queue)
    BY <2>2, <2>3 DEF OnQueues
  <2>6. InOrder(queue, ps)
    BY <1>3, <2>4, <2>5, InOrderElsewhere
  <2>. QED  BY <1>4, <2>1, <2>3, <2>4, <2>6, InsertKeepsOrder
<1>. QED  BY <1>1, <1>4

LEMMA RefileKeepsOrder ==
    ASSUME Inv, Inv', InOrder(queue, pcb), NEW p \in Pcbs, NEW rec, Refile(p, rec)
    PROVE  InOrder(queue', pcb')
<1>. DEFINE ps == [pcb EXCEPT ![p] = rec]
            qs == PcbRemove(queue, p)
<1>1. PcbInsert(qs, ps, p, heap_addr) /\ pcb' = ps
  BY DEF Refile, PcbInsert
<1>2. ps \in Seq(PCB) /\ DOMAIN ps = DOMAIN pcb /\ p \in DOMAIN ps
  BY <1>1 DEF Inv, TypeOK, Pcbs
<1>3. \A r \in DOMAIN pcb \ {p} : ps[r] = pcb[r]
  OBVIOUS
<1>. HIDE DEF ps
<1>4. /\ queue \in [QueueName -> Seq(DOMAIN pcb)] /\ Filed(queue, pcb)
  BY DEF Inv, TypeOK, Pcbs, FiledByState
<1>5. /\ qs \in [QueueName -> Seq(DOMAIN pcb)] /\ InOrder(qs, pcb)
      /\ p \notin OnQueues(qs)
  <2>1. qs \in [QueueName -> Seq(DOMAIN pcb)] /\ p \notin OnQueues(qs)
    BY <1>4, RemoveUnfiles
  <2>2. InOrder(qs, pcb)
    BY <1>4, RemoveKeepsOrder
  <2>. QED  BY <2>1, <2>2
<1>. HIDE DEF qs
<1>6. InOrder(qs, ps)
  BY <1>3, <1>5, InOrderElsewhere
<1>. QED  BY <1>1, <1>2, <1>5, <1>6, InsertKeepsOrder

LEMMA IdleKeepsOrder ==
    ASSUME Inv, Inv', InOrder(queue, pcb), NEW ctx, SysIdle(ctx), cpu.eip # "kmain_halt"
    PROVE  InOrder(queue', pcb')
<1>. DEFINE cur == current_process
            ps  == IF cur = NULL THEN pcb
                   ELSE [pcb EXCEPT ![cur].execution_state = READY, ![cur].stack_ptr = ctx]
            ic  == IF initial_context = NoContext THEN ctx ELSE initial_context
            flag == insert_flag \/ cur # NULL
<1>1. Dispatch(queue, ps, cur, flag, ic, freed)
  BY DEF SysIdle
<1>2. flag => cur # NULL
  BY DEF Inv, ContextsOK
<1>3. pcb' = ps
  BY <1>1 DEF Dispatch, PcbInsert
<1>4. ps \in Seq(PCB) /\ DOMAIN ps = DOMAIN pcb
  BY <1>3 DEF Inv, TypeOK
<1>5. \A r \in DOMAIN pcb \ {cur} : ps[r] = pcb[r]
  OBVIOUS
<1>6. /\ queue \in [QueueName -> Seq(DOMAIN pcb)] /\ cur \notin OnQueues(queue)
      /\ cur \in DOMAIN pcb \union {NULL}
  BY DEF Inv, TypeOK, Pcbs, Exclusive, Queued
<1>. HIDE DEF ps, ic, flag, cur
<1>7. InOrder(queue, ps)
  BY <1>5, <1>6, InOrderElsewhere
<1>. QED  BY <1>1, <1>2, <1>4, <1>6, <1>7, DispatchKeepsOrder

LEMMA ExitKeepsOrder ==
    ASSUME Inv, InOrder(queue, pcb), SysExit, cpu.eip # "kmain_halt"
    PROVE  InOrder(queue', pcb')
<1>. DEFINE cur == current_process
            qs  == PcbRemove(queue, cur)
            fr  == freed \union ({cur} \ {NULL})
<1>1. Dispatch(qs, pcb, NULL, insert_flag, initial_context, fr)
  BY DEF SysExit
<1>2. queue \in [QueueName -> Seq(DOMAIN pcb)] /\ pcb \in Seq(PCB) /\ ~ insert_flag
  BY DEF Inv, TypeOK, Pcbs, ContextsOK
<1>. HIDE DEF cur
<1>3. qs \in [QueueName -> Seq(DOMAIN pcb)] /\ InOrder(qs, pcb)
  BY <1>2, RemoveTakesOff, RemoveKeepsOrder
<1>4. (insert_flag => NULL # NULL) /\ NULL \in DOMAIN pcb \union {NULL}
  BY <1>2
<1>. HIDE DEF qs, fr
<1>. QED  BY ONLY <1>1, <1>2, <1>3, <1>4, DispatchKeepsOrder, SMTT(30)

\* A PCB that is not READY is on no queue that is kept in order.
LEMMA BlockedPriority ==
    ASSUME Inv, Inv', InOrder(queue, pcb), NEW p \in Pcbs, NEW new,
           pcb[p].execution_state # READY,
           pcb' = [pcb EXCEPT ![p].process_priority = new], queue' = queue
    PROVE  InOrder(queue', pcb')
<1>1. ASSUME NEW n \in PriorityQueue PROVE Sorted(queue[n], pcb')
  <2>1. n \in QueueName
    BY DEF PriorityQueue, QueueName
  <2>2. \A r \in Range(queue[n]) : r \in DOMAIN pcb /\ QueueOf(pcb[r]) = n
    BY <2>1, RangeOfSeq DEF Inv, TypeOK, Pcbs, FiledByState, Filed
  <2>3. \A r \in Range(queue[n]) : r # p
    <3>1. pcb[p] \in PCB
      BY ElementOfSeq, LenProperties DEF Inv, TypeOK, Pcbs
    <3>2. QueueOf(pcb[p]) \notin PriorityQueue
      BY <3>1 DEF QueueOf, PriorityQueue, PCB, READY, BLOCKED, SUSPENDED, NOT_SUSPENDED
    <3>. QED  BY <2>2, <3>2
  <2>4. \A r \in Range(queue[n]) : pcb'[r] = pcb[r]
    BY <2>2, <2>3
  <2>5. \A j \in DOMAIN queue[n] : queue[n][j] \in Range(queue[n])
    BY DEF Range
  <2>. QED  BY <1>1, <2>4, <2>5 DEF InOrder, Sorted
<1>. QED  BY <1>1 DEF InOrder

LEMMA ReadCommandKeepsOrder ==
    ASSUME Inv, Inv', InOrder(queue, pcb), ReadCommand
    PROVE  InOrder(queue', pcb')
<1>1. \A name : Named(name) # NULL => Named(name) \in Pcbs
  BY NamedIsQueued
<1>2. CASE UNCHANGED <<pcb, queue>>
  BY <1>2
<1>3. ASSUME NEW p, NEW rec, p \in Pcbs, Refile(p, rec) PROVE InOrder(queue', pcb')
  BY <1>3, RefileKeepsOrder
<1>4. ASSUME NEW name \in ArgNames, DeletePcb(name) PROVE InOrder(queue', pcb')
  <2>1. pcb' = pcb /\ queue' = PcbRemove(queue, Named(name))
    BY <1>4 DEF DeletePcb
  <2>. QED  BY <2>1, RemoveKeepsOrder DEF Inv, TypeOK
<1>5. ASSUME NEW name \in ArgNames,
             \/ SuspendPcb(name) \/ ResumePcb(name) \/ BlockPcb(name) \/ UnblockPcb(name)
      PROVE  InOrder(queue', pcb')
  BY <1>1, <1>2, <1>3, <1>5 DEF SuspendPcb, ResumePcb, BlockPcb, UnblockPcb
<1>6. ASSUME NEW name \in ArgNames, NEW new \in PrioArgs, SetPcbPriority(name, new)
      PROVE  InOrder(queue', pcb')
  BY <1>1, <1>3, <1>6, BlockedPriority DEF SetPcbPriority
<1>7. ASSUME NEW a \in AlarmArgs, AlarmCommand(a) PROVE InOrder(queue', pcb')
  BY <1>2, <1>7, LoadKeepsOrder DEF AlarmCommand, memVars
<1>8. ASSUME YieldCommand PROVE InOrder(queue', pcb')
  BY <1>8, IdleKeepsOrder DEF YieldCommand, AtPrompt, At
<1>9. CASE LoadR3Command \/ CommandWithoutEffect \/ \E yes \in BOOLEAN : ShutdownCommand(yes)
  BY <1>2, <1>9 DEF LoadR3Command, CommandWithoutEffect, ShutdownCommand, memVars
<1>. QED  BY <1>4, <1>5, <1>6, <1>7, <1>8, <1>9 DEF ReadCommand

LEMMA CpuStepKeepsOrder ==
    ASSUME Inv, Inv', InOrder(queue, pcb), CpuStep
    PROVE  InOrder(queue', pcb')
<1>1. CASE KmainLoadComhand \/ KmainLoadIdle \/ LoadR3Step
  BY <1>1, LoadKeepsOrder DEF KmainLoadComhand, KmainLoadIdle, LoadR3Step
<1>2. CASE KmainYield \/ SysIdleProcess \/ R3Iteration \/ AlarmPoll
  BY <1>2, IdleKeepsOrder DEF KmainYield, SysIdleProcess, R3Iteration, AlarmPoll, At
<1>3. CASE ComhandEnd
  BY <1>3, IdleKeepsOrder, ExitKeepsOrder DEF ComhandEnd, At
<1>4. CASE R3Exit \/ AlarmFire
  BY <1>4, ExitKeepsOrder DEF R3Exit, AlarmFire, At
<1>5. CASE KmainHalt \/ AlarmStart
  BY <1>5 DEF KmainHalt, AlarmStart, memVars
<1>. QED  BY <1>1, <1>2, <1>3, <1>4, <1>5 DEF CpuStep

\* pcb_insert keeps the ready queues sorted, pcb_remove leaves them so, and no
\* command changes the priority of a PCB where it stands on one: sys_call, which
\* takes the front, takes one of highest priority.
THEOREM ReadyStaysInOrder == Spec => []ReadyInPriorityOrder
<1>1. ReadyInPriorityOrder <=> InOrder(queue, pcb)
  BY DEF ReadyInPriorityOrder, InOrder, Sorted
<1>2. Init => InOrder(queue, pcb)
  BY DEF Init, KernelInit, InOrder, Sorted, PriorityQueue, QueueName
<1>3. ASSUME Inv, Inv', InOrder(queue, pcb), [Next]_vars PROVE InOrder(queue, pcb)'
  <2>1. CASE UNCHANGED vars
    BY <1>3, <2>1 DEF vars, kernelVars, memVars
  <2>. QED  BY <1>3, <2>1, ReadCommandKeepsOrder, CpuStepKeepsOrder DEF Next, Stopped
<1>. QED  BY <1>1, <1>2, <1>3, Invariance, PTL DEF Spec

----------------------------------------------------------------------------
(***************************************************************************)
(* Who is chosen.                                                          *)
(***************************************************************************)

\* pcb_insert adds no other PCB to a queue.
LEMMA InsertAddsOne ==
    ASSUME NEW ps, NEW qs \in [QueueName -> Seq(DOMAIN ps)], NEW p \in DOMAIN ps, NEW heap,
           NEW m \in QueueName, PcbInsert(qs, ps, p, heap)
    PROVE  Range(queue'[m]) \subseteq Range(qs[m]) \union {p}
<1>. DEFINE n == QueueOf(ps[p])
<1>1. \/ queue' = qs
      \/ queue' = [qs EXCEPT ![n] = <<p>>]
      \/ n \in made /\ queue' = [qs EXCEPT ![n] = Enqueue(n, qs[n], ps, p)]
  BY DEF PcbInsert, CreateQueue, WalkEmptyFifo, LinkIn
<1>. HIDE DEF n
<1>2. \/ queue'[m] = qs[m]
      \/ queue'[m] = <<p>>
      \/ queue'[m] = Enqueue(m, qs[m], ps, p)
  BY <1>1
<1>3. Range(<<p>>) = {p}
  BY DEF Range
<1>4. Range(Enqueue(m, qs[m], ps, p)) = Range(qs[m]) \union {p}
  BY EnqueueAdds
<1>. QED  BY <1>2, <1>3, <1>4

\* No PCB on queue qs["ready"], but for c, has a higher priority than next.
GoesFirst(next, qs, ps, c) ==
    \A p \in Range(qs["ready"]) \ {c} : ps[next].process_priority <= ps[p].process_priority

LEMMA DispatchChooses ==
    ASSUME NEW ps \in Seq(PCB), NEW qs \in [QueueName -> Seq(DOMAIN ps)],
           NEW cur \in DOMAIN ps \union {NULL}, NEW flag, NEW ic, NEW fr,
           flag => cur # NULL, InOrder(qs, ps), Dispatch(qs, ps, cur, flag, ic, fr)
    PROVE  current_process' = cur \/ GoesFirst(current_process', queue', pcb', cur)
<1>1. CASE qs["ready"] # << >>
  <2>. DEFINE next == Head(qs["ready"])
              rest == PcbRemove(qs, next)
              q    == qs["ready"]
  <2>1. "ready" \in QueueName /\ "ready" \in PriorityQueue
    BY DEF QueueName, PriorityQueue
  <2>2. q \in Seq(DOMAIN ps) /\ Len(q) \in Nat /\ DOMAIN q = 1..Len(q) /\ Sorted(q, ps)
    BY <2>1, LenProperties DEF InOrder
  <2>3. Len(q) >= 1 /\ next = q[1]
    BY <1>1, <2>2, EmptySeq
  <2>4. /\ current_process' = next /\ pcb' = ps
        /\ IF flag THEN PcbInsert(rest, ps, cur, heap_addr) ELSE queue' = rest
    BY <1>1 DEF Dispatch, PcbInsert
  <2>5. \A p \in Range(q) : ps[next].process_priority <= ps[p].process_priority
    <3>1. \A r \in DOMAIN ps : ps[r].process_priority \in Nat
      BY PriorityIsANumber
    <3>2. \A j \in DOMAIN q : q[j] \in DOMAIN ps
      BY <2>2, ElementOfSeq
    <3>3. ASSUME NEW j \in DOMAIN q PROVE ps[q[1]].process_priority <= ps[q[j]].process_priority
      <4>1. CASE j = 1
        BY <3>1, <3>2, <3>3, <4>1
      <4>2. CASE j # 1
        <5>1. 1 \in DOMAIN q /\ 1 < j
          BY <2>2, <2>3, <3>3, <4>2
        <5>. HIDE DEF q
        <5>. QED  BY <2>2, <3>3, <5>1 DEF Sorted
      <4>. QED  BY <4>1, <4>2
    <3>. QED  BY <2>3, <3>3 DEF Range
  <2>. HIDE DEF next, q
  <2>6. rest \in [QueueName -> Seq(DOMAIN ps)] /\ Range(rest["ready"]) \subseteq Range(q)
    BY <2>1, RemoveTakesOff DEF q
  <2>. HIDE DEF rest
  <2>7. Range(queue'["ready"]) \subseteq Range(q) \union {cur}
    <3>1. CASE flag
      BY <2>1, <2>4, <2>6, <3>1, InsertAddsOne
    <3>2. CASE ~ flag
      BY <2>4, <2>6, <3>2
    <3>. QED  BY <3>1, <3>2
  <2>8. current_process' = next
    BY <1>1 DEF Dispatch, next
  <2>. QED  BY <2>4, <2>5, <2>7, <2>8 DEF GoesFirst
<1>2. CASE qs["ready"] = << >>
  BY <1>2 DEF Dispatch
<1>. QED  BY <1>1, <1>2

ChoosesByPriority ==
    current_process' # current_process /\ current_process' # NULL =>
        \A p \in Range(queue'["ready"]) \ {current_process} :
            pcb'[current_process'].process_priority <= pcb'[p].process_priority

LEMMA IdleChooses ==
    ASSUME Inv, Inv', InOrder(queue, pcb), NEW ctx, SysIdle(ctx), cpu.eip # "kmain_halt"
    PROVE  ChoosesByPriority
<1>. DEFINE cur == current_process
            ps  == IF cur = NULL THEN pcb
                   ELSE [pcb EXCEPT ![cur].execution_state = READY, ![cur].stack_ptr = ctx]
            ic  == IF initial_context = NoContext THEN ctx ELSE initial_context
            flag == insert_flag \/ cur # NULL
<1>1. Dispatch(queue, ps, cur, flag, ic, freed)
  BY DEF SysIdle
<1>2. flag => cur # NULL
  BY DEF Inv, ContextsOK
<1>3. pcb' = ps
  BY <1>1 DEF Dispatch, PcbInsert
<1>4. ps \in Seq(PCB) /\ DOMAIN ps = DOMAIN pcb
  BY <1>3 DEF Inv, TypeOK
<1>5. \A r \in DOMAIN pcb \ {cur} : ps[r] = pcb[r]
  OBVIOUS
<1>6. /\ queue \in [QueueName -> Seq(DOMAIN pcb)] /\ cur \notin OnQueues(queue)
      /\ cur \in DOMAIN pcb \union {NULL}
  BY DEF Inv, TypeOK, Pcbs, Exclusive, Queued
<1>. HIDE DEF ps, ic, flag, cur
<1>7. InOrder(queue, ps)
  BY <1>5, <1>6, InOrderElsewhere
<1>8. current_process' = cur \/ GoesFirst(current_process', queue', pcb', cur)
  BY ONLY <1>1, <1>2, <1>4, <1>6, <1>7, DispatchChooses
<1>. QED  BY <1>8 DEF ChoosesByPriority, GoesFirst, cur

LEMMA ExitChooses ==
    ASSUME Inv, Inv', InOrder(queue, pcb), SysExit, cpu.eip # "kmain_halt"
    PROVE  ChoosesByPriority
<1>. DEFINE cur == current_process
            qs  == PcbRemove(queue, cur)
            fr  == freed \union ({cur} \ {NULL})
<1>1. Dispatch(qs, pcb, NULL, insert_flag, initial_context, fr)
  BY DEF SysExit
<1>2. queue \in [QueueName -> Seq(DOMAIN pcb)] /\ pcb \in Seq(PCB) /\ ~ insert_flag
  BY DEF Inv, TypeOK, Pcbs, ContextsOK
<1>. HIDE DEF cur
<1>3. qs \in [QueueName -> Seq(DOMAIN pcb)] /\ InOrder(qs, pcb)
  BY <1>2, RemoveTakesOff, RemoveKeepsOrder
<1>4. (insert_flag => NULL # NULL) /\ NULL \in DOMAIN pcb \union {NULL}
  BY <1>2
<1>. HIDE DEF qs, fr
<1>5. current_process' = NULL \/ GoesFirst(current_process', queue', pcb', NULL)
  BY ONLY <1>1, <1>2, <1>3, <1>4, DispatchChooses
<1>6. NULL \notin Range(queue'["ready"])
  <2>1. "ready" \in QueueName /\ NULL \notin Pcbs'
    BY LenProperties DEF QueueName, Inv, TypeOK, Pcbs, NULL
  <2>. QED  BY <2>1, RangeOfSeq DEF Inv, TypeOK
<1>. QED  BY <1>5, <1>6 DEF ChoosesByPriority, GoesFirst

\* sys_call gives the CPU to a process that none on the ready queue goes before,
\* the caller of IDLE excepted, which is filed after the choice.
THEOREM HighestPriorityRuns == Spec => DispatchIsByPriority
<1>1. ASSUME Inv, Inv', InOrder(queue, pcb), Next PROVE ChoosesByPriority
  <2>1. CASE UNCHANGED current_process
    BY <2>1 DEF ChoosesByPriority
  <2>2. ASSUME NEW ctx, SysIdle(ctx), cpu.eip # "kmain_halt" PROVE ChoosesByPriority
    BY <1>1, <2>2, IdleChooses
  <2>3. ASSUME SysExit, cpu.eip # "kmain_halt" PROVE ChoosesByPriority
    BY <1>1, <2>3, ExitChooses
  <2>4. CASE ReadCommand
    <3>1. CASE YieldCommand
      BY <2>2, <3>1 DEF YieldCommand, AtPrompt, At
    <3>2. CASE ~ YieldCommand
      BY <2>1, <2>4, <3>2 DEF ReadCommand, DeletePcb, SuspendPcb, ResumePcb, BlockPcb, UnblockPcb,
         SetPcbPriority, ShutdownCommand, AlarmCommand, LoadR3Command, CommandWithoutEffect,
         Refile, schedVars
    <3>. QED  BY <3>1, <3>2
  <2>5. CASE CpuStep
    <3>1. CASE KmainYield \/ SysIdleProcess \/ R3Iteration \/ AlarmPoll
      BY <2>2, <3>1 DEF KmainYield, SysIdleProcess, R3Iteration, AlarmPoll, At
    <3>2. CASE ComhandEnd
      BY <2>2, <2>3, <3>2 DEF ComhandEnd, At
    <3>3. CASE R3Exit \/ AlarmFire
      BY <2>3, <3>3 DEF R3Exit, AlarmFire, At
    <3>4. CASE KmainLoadComhand \/ KmainLoadIdle \/ KmainHalt \/ LoadR3Step \/ AlarmStart
      BY <2>1, <3>4 DEF KmainLoadComhand, KmainLoadIdle, KmainHalt, LoadR3Step, AlarmStart,
                        schedVars
    <3>. QED  BY <2>5, <3>1, <3>2, <3>3, <3>4 DEF CpuStep
  <2>6. CASE Stopped
    BY <2>1, <2>6 DEF Stopped, vars, kernelVars, schedVars
  <2>. QED  BY <1>1, <2>4, <2>5, <2>6 DEF Next
<1>2. ReadyInPriorityOrder => InOrder(queue, pcb)
  BY DEF ReadyInPriorityOrder, InOrder, Sorted
<1>3. ASSUME Inv, Inv', ReadyInPriorityOrder, [Next]_vars PROVE [ChoosesByPriority]_vars
  BY <1>1, <1>2, <1>3
<1>4. DispatchIsByPriority <=> [][ChoosesByPriority]_vars
  BY DEF DispatchIsByPriority, ChoosesByPriority
<1>. QED  BY <1>3, <1>4, Invariance, ReadyStaysInOrder, PTL DEF Spec

----------------------------------------------------------------------------
(***************************************************************************)
(* No step of the system lets a PCB overtake its equals.                   *)
(***************************************************************************)

(***************************************************************************)
(* Two queues hold what they have in common, but for m, in the same order; *)
(* and m is behind every PCB it may not go before.                         *)
(***************************************************************************)
SameOrder(old, new, m) ==
    \A n \in QueueName : \A a, b :
        a # m /\ b # m /\ {a, b} \subseteq Range(new[n]) =>
            (Before(old[n], a, b) <=> Before(new[n], a, b))

Behind(qs, ps, m) ==
    \A n \in QueueName : \A b \in Range(qs[n]) \ {m} :
        Before(qs[n], m, b) =>
            n \in PriorityQueue /\ ps[m].process_priority < ps[b].process_priority

\* NoOvertaking of one step.
Fair == \E moved \in Pcbs' \union {NULL} :
            SameOrder(queue, queue', moved) /\ Behind(queue', pcb', moved)

----------------------------------------------------------------------------
(***************************************************************************)
(* Sequences.                                                              *)
(***************************************************************************)
LEMMA RemoveFirstKeepsBefore ==
    ASSUME NEW S, NEW q \in Seq(S), NEW e, NEW a, NEW b, a # e, b # e
    PROVE  Before(RemoveFirst(q, e), a, b) <=> Before(q, a, b)
<1>1. Len(q) \in Nat /\ DOMAIN q = 1..Len(q)
  BY LenProperties
<1>2. CASE ~\E i \in 1..Len(q) : q[i] = e
  BY <1>2 DEF RemoveFirst
<1>3. CASE \E i \in 1..Len(q) : q[i] = e
  <2>. DEFINE I == {i \in 1..Len(q) : q[i] = e}
              k == Min(I)
              t == RemoveAt(q, k)
  <2>1. I \in SUBSET Nat /\ I # {}
    BY <1>3
  <2>2. k \in I
    <3>. HIDE DEF I
    <3>. QED  BY <2>1, MinIsLeast
  <2>3. RemoveFirst(q, e) = t
    BY <1>3, <2>1 DEF RemoveFirst, SelectInSeq
  <2>4. k \in 1..Len(q) /\ q[k] = e
    BY <2>2
  <2>. HIDE DEF I, k
  <2>5. /\ t \in Seq(S)
        /\ Len(t) = Len(q) - 1
        /\ \A i \in 1..(Len(q) - 1) : t[i] = IF i < k THEN q[i] ELSE q[i + 1]
    BY <2>4, RemoveAtProperties
  <2>. HIDE DEF t
  <2>6. DOMAIN t = 1..(Len(q) - 1)
    BY <2>5, LenProperties
  <2>. DEFINE From(i) == IF i < k THEN i ELSE i + 1
              To(i)   == IF i < k THEN i ELSE i - 1
  <2>7. \A i \in DOMAIN t : From(i) \in DOMAIN q /\ t[i] = q[From(i)]
    BY <1>1, <2>4, <2>5, <2>6
  <2>8. \A i, j \in DOMAIN t : i < j => From(i) < From(j)
    BY <1>1, <2>4, <2>6
  <2>9. \A i \in DOMAIN q : i # k => To(i) \in DOMAIN t /\ t[To(i)] = q[i]
    <3>1. SUFFICES ASSUME NEW i \in 1..Len(q), i # k PROVE To(i) \in DOMAIN t /\ t[To(i)] = q[i]
      BY <1>1
    <3>2. CASE i < k
      BY <1>1, <2>4, <2>5, <2>6, <3>2
    <3>3. CASE i > k
      <4>1. i - 1 \in 1..(Len(q) - 1) /\ To(i) = i - 1 /\ ~(i - 1 < k) /\ (i - 1) + 1 = i
        BY <1>1, <2>4, <3>3
      <4>. HIDE DEF To
      <4>. QED  BY <2>5, <2>6, <4>1
    <3>. QED  BY <1>1, <2>4, <3>1, <3>2, <3>3
  <2>10. \A i, j \in DOMAIN q : i # k /\ j # k /\ i < j => To(i) < To(j)
    BY <1>1, <2>4
  <2>. HIDE DEF From, To
  <2>11. Before(t, a, b) => Before(q, a, b)
    BY <2>7, <2>8 DEF Before
  <2>12. Before(q, a, b) => Before(t, a, b)
    BY <2>4, <2>9, <2>10 DEF Before
  <2>. QED  BY <2>3, <2>11, <2>12
<1>. QED  BY <1>2, <1>3

LEMMA InsertAtKeepsBefore ==
    ASSUME NEW S, NEW q \in Seq(S), NEW k \in 1..(Len(q) + 1), NEW e \in S,
           NEW a, NEW b, a # e, b # e
    PROVE  Before(InsertAt(q, k, e), a, b) <=> Before(q, a, b)
<1>. DEFINE t == InsertAt(q, k, e)
            To(i)   == IF i < k THEN i ELSE i + 1
            From(i) == IF i < k THEN i ELSE i - 1
<1>1. Len(q) \in Nat /\ DOMAIN q = 1..Len(q)
  BY LenProperties
<1>2. /\ t \in Seq(S)
      /\ Len(t) = Len(q) + 1
      /\ \A i \in 1..(Len(q) + 1) : t[i] = IF i < k THEN q[i] ELSE IF i = k THEN e ELSE q[i - 1]
  BY InsertAtProperties
<1>. HIDE DEF t
<1>3. DOMAIN t = 1..(Len(q) + 1)
  BY <1>2, LenProperties
<1>4. \A i \in DOMAIN q : To(i) \in DOMAIN t /\ t[To(i)] = q[i]
  <2>1. SUFFICES ASSUME NEW i \in 1..Len(q) PROVE To(i) \in DOMAIN t /\ t[To(i)] = q[i]
    BY <1>1
  <2>2. CASE i < k
    BY <1>1, <1>2, <1>3, <2>2
  <2>3. CASE i >= k
    <3>1. i + 1 \in 1..(Len(q) + 1) /\ To(i) = i + 1 /\ ~(i + 1 < k) /\ i + 1 # k /\ (i + 1) - 1 = i
      BY <1>1, <2>3
    <3>. HIDE DEF To
    <3>. QED  BY <1>2, <1>3, <3>1
  <2>. QED  BY <1>1, <2>1, <2>2, <2>3
<1>5. \A i, j \in DOMAIN q : i < j => To(i) < To(j)
  BY <1>1
<1>6. t[k] = e
  BY <1>2
<1>7. \A i \in DOMAIN t : i # k => From(i) \in DOMAIN q /\ t[i] = q[From(i)]
  BY <1>1, <1>2, <1>3
<1>8. \A i, j \in DOMAIN t : i # k /\ j # k /\ i < j => From(i) < From(j)
  BY <1>1, <1>3
<1>. HIDE DEF From, To
<1>9. Before(q, a, b) => Before(t, a, b)
  BY <1>4, <1>5 DEF Before
<1>10. Before(t, a, b) => Before(q, a, b)
  BY <1>6, <1>7, <1>8 DEF Before
<1>. QED  BY <1>9, <1>10 DEF t

\* Append is InsertAt behind the end.
LEMMA AppendInserts ==
    ASSUME NEW S, NEW q \in Seq(S), NEW e \in S
    PROVE  Append(q, e) = InsertAt(q, Len(q) + 1, e)
<1>. DEFINE t == InsertAt(q, Len(q) + 1, e)
<1>1. Len(q) \in Nat /\ Len(q) + 1 \in 1..(Len(q) + 1)
  BY LenProperties
<1>2. /\ t \in Seq(S) /\ Len(t) = Len(q) + 1
      /\ \A i \in 1..(Len(q) + 1) : t[i] = IF i < Len(q) + 1 THEN q[i] ELSE e
  <2>1. t \in Seq(S) /\ Inserted(t, q, Len(q) + 1, e)
    BY <1>1, InsertAtInserts
  <2>. HIDE DEF t
  <2>. QED  BY <1>1, <2>1 DEF Inserted
<1>. HIDE DEF t
<1>3. /\ Append(q, e) \in Seq(S) /\ Len(Append(q, e)) = Len(q) + 1
      /\ \A i \in 1..Len(q) : Append(q, e)[i] = q[i]
      /\ Append(q, e)[Len(q) + 1] = e
  BY AppendProperties
<1>4. \A i \in 1..(Len(q) + 1) : t[i] = Append(q, e)[i]
  BY <1>1, <1>2, <1>3
<1>. QED  BY <1>2, <1>3, <1>4, SeqEqual DEF t

----------------------------------------------------------------------------
(***************************************************************************)
(* pcb_insert and pcb_remove.                                              *)
(***************************************************************************)
LEMMA EnqueueKeepsBefore ==
    ASSUME NEW S, NEW n, NEW q \in Seq(S), NEW ps, NEW p \in S, NEW a, NEW b, a # p, b # p
    PROVE  Before(Enqueue(n, q, ps, p), a, b) <=> Before(q, a, b)
<1>1. Len(q) \in Nat /\ Len(q) + 1 \in 1..(Len(q) + 1)
  BY LenProperties
<1>2. \E k \in 1..(Len(q) + 1) : Enqueue(n, q, ps, p) = InsertAt(q, k, p)
  BY <1>1, InsertionPointInRange, AppendInserts DEF Enqueue
<1>. QED  BY <1>2, InsertAtKeepsBefore

LEMMA EnqueueGoesBehind ==
    ASSUME NEW ps \in Seq(PCB), NEW n, NEW q \in Seq(DOMAIN ps), NEW p \in DOMAIN ps,
           p \notin Range(q), n \in PriorityQueue => Sorted(q, ps),
           NEW b, b # p, Before(Enqueue(n, q, ps, p), p, b)
    PROVE  n \in PriorityQueue /\ ps[p].process_priority < ps[b].process_priority
<1>1. Len(q) \in Nat /\ DOMAIN q = 1..Len(q) /\ \A i \in 1..Len(q) : q[i] # p
  BY LenProperties DEF Range
<1>2. PICK k \in 1..(Len(q) + 1) :
         /\ Enqueue(n, q, ps, p) = InsertAt(q, k, p)
         /\ n \notin PriorityQueue => k = Len(q) + 1
         /\ n \in PriorityQueue =>
               \A i \in 1..Len(q) : i >= k => ps[p].process_priority < ps[q[i]].process_priority
  <2>1. CASE n \in PriorityQueue
    BY <2>1, InsertionPointSplits DEF Enqueue
  <2>2. CASE n \notin PriorityQueue
    <3>1. Len(q) + 1 \in 1..(Len(q) + 1)
      BY <1>1
    <3>. QED  BY <2>2, <3>1, AppendInserts DEF Enqueue
  <2>. QED  BY <2>1, <2>2
<1>. DEFINE t == InsertAt(q, k, p)
<1>3. /\ t \in Seq(DOMAIN ps) /\ Len(t) = Len(q) + 1
      /\ \A i \in 1..(Len(q) + 1) : t[i] = IF i < k THEN q[i] ELSE IF i = k THEN p ELSE q[i - 1]
  <2>1. k \in 1..(Len(q) + 1)
    BY <1>2
  <2>2. t \in Seq(DOMAIN ps) /\ Inserted(t, q, k, p)
    BY <2>1, InsertAtInserts
  <2>. HIDE DEF t
  <2>. QED  BY <2>2 DEF Inserted
<1>4. Before(t, p, b)
  BY <1>2
<1>. HIDE DEF t
<1>5. DOMAIN t = 1..(Len(q) + 1)
  BY <1>3, LenProperties
<1>6. PICK i, j \in 1..(Len(q) + 1) : i < j /\ t[i] = p /\ t[j] = b
  BY <1>4, <1>5 DEF Before
<1>7. i = k
  <2>1. CASE i < k
    BY <1>1, <1>2, <1>3, <1>6, <2>1
  <2>2. CASE i > k
    <3>1. i - 1 \in 1..Len(q) /\ t[i] = q[i - 1]
      BY <1>1, <1>2, <1>3, <1>6, <2>2
    <3>. QED  BY <1>1, <1>6, <3>1
  <2>. QED  BY <1>1, <1>2, <1>6, <2>1, <2>2
<1>8. j - 1 \in 1..Len(q) /\ j - 1 >= k /\ b = q[j - 1]
  BY <1>1, <1>2, <1>3, <1>6, <1>7
<1>9. n \in PriorityQueue
  BY <1>1, <1>2, <1>8
<1>. QED  BY <1>2, <1>8, <1>9

\* A PCB that is on no queue is in front of nobody.
LEMMA OffIsBehind ==
    ASSUME NEW qs, NEW ps, NEW m, m \notin OnQueues(qs)
    PROVE  Behind(qs, ps, m)
BY DEF Behind, Before, OnQueues, Range

LEMMA InsertIsFair ==
    ASSUME NEW ps \in Seq(PCB), NEW qs \in [QueueName -> Seq(DOMAIN ps)],
           NEW p \in DOMAIN ps, NEW heap, p \notin OnQueues(qs), InOrder(qs, ps),
           \A n \in QueueName \ made : qs[n] = << >>, PcbInsert(qs, ps, p, heap)
    PROVE  SameOrder(qs, queue', p) /\ Behind(queue', ps, p)
<1>. DEFINE n == QueueOf(ps[p])
<1>1. \/ queue' = qs
      \/ n \notin made /\ queue' = [qs EXCEPT ![n] = <<p>>]
      \/ queue' = [qs EXCEPT ![n] = Enqueue(n, qs[n], ps, p)]
  BY DEF PcbInsert, CreateQueue, WalkEmptyFifo, LinkIn
<1>. HIDE DEF n
<1>2. ASSUME NEW m \in QueueName
      PROVE  /\ \A a, b : a # p /\ b # p =>
                   (Before(qs[m], a, b) <=> Before(queue'[m], a, b))
             /\ \A b \in Range(queue'[m]) \ {p} :
                   Before(queue'[m], p, b) =>
                       m \in PriorityQueue /\ ps[p].process_priority < ps[b].process_priority
  <2>1. /\ qs[m] \in Seq(DOMAIN ps) /\ p \notin Range(qs[m])
        /\ m \in PriorityQueue => Sorted(qs[m], ps)
    BY DEF OnQueues, InOrder
  <2>2. CASE queue'[m] = qs[m]
    BY <2>1, <2>2 DEF Before, Range
  <2>3. CASE queue'[m] = <<p>> /\ qs[m] = << >>
    <3>1. DOMAIN qs[m] = {} /\ DOMAIN queue'[m] = {1}
      BY <2>3
    <3>. QED  BY <3>1 DEF Before
  <2>4. CASE queue'[m] = Enqueue(m, qs[m], ps, p)
    <3>1. ASSUME NEW a, NEW b, a # p, b # p
          PROVE  Before(qs[m], a, b) <=> Before(queue'[m], a, b)
      BY <2>1, <2>4, <3>1, EnqueueKeepsBefore
    <3>2. ASSUME NEW b, b # p, Before(queue'[m], p, b)
          PROVE  m \in PriorityQueue /\ ps[p].process_priority < ps[b].process_priority
      BY <2>1, <2>4, <3>2, EnqueueGoesBehind
    <3>. QED  BY <3>1, <3>2
  <2>5. \/ queue'[m] = qs[m]
        \/ queue'[m] = <<p>> /\ qs[m] = << >>
        \/ queue'[m] = Enqueue(m, qs[m], ps, p)
    BY <1>1
  <2>. QED  BY <2>2, <2>3, <2>4, <2>5
<1>. QED  BY <1>2 DEF SameOrder, Behind

LEMMA RemoveKeepsBefore ==
    ASSUME NEW S, NEW qs \in [QueueName -> Seq(S)], NEW p
    PROVE  SameOrder(qs, PcbRemove(qs, p), p)
<1>. DEFINE k == SelectInSeq(SearchOrder, LAMBDA n : Contains(qs[n], p))
            h == SearchOrder[k]
<1>1. PcbRemove(qs, p) = IF k = 0 THEN qs ELSE [qs EXCEPT ![h] = RemoveFirst(@, p)]
  BY DEF PcbRemove
<1>. HIDE DEF k, h
<1>2. \A n \in QueueName :
         PcbRemove(qs, p)[n] = qs[n] \/ PcbRemove(qs, p)[n] = RemoveFirst(qs[n], p)
  BY <1>1
<1>. QED  BY <1>2, RemoveFirstKeepsBefore DEF SameOrder

\* The process that gets the CPU leaves, and the caller of IDLE is filed.
LEMMA DispatchIsFair ==
    ASSUME NEW ps \in Seq(PCB), NEW qs \in [QueueName -> Seq(DOMAIN ps)],
           NEW cur \in DOMAIN ps \union {NULL}, NEW flag, NEW ic, NEW fr,
           flag => cur # NULL, cur \notin OnQueues(qs), InOrder(qs, ps), Filed(qs, ps),
           \A n \in QueueName \ made : qs[n] = << >>,
           Dispatch(qs, ps, cur, flag, ic, fr)
    PROVE  SameOrder(qs, queue', cur) /\ Behind(queue', ps, cur)
<1>1. CASE qs["ready"] # << >>
  <2>. DEFINE next == Head(qs["ready"])
              rest == PcbRemove(qs, next)
  <2>1. IF flag THEN PcbInsert(rest, ps, cur, heap_addr) ELSE queue' = rest
    BY <1>1 DEF Dispatch
  <2>2. next # cur
    <3>1. "ready" \in QueueName /\ qs["ready"] \in Seq(DOMAIN ps)
      BY DEF QueueName
    <3>2. next \in Range(qs["ready"])
      BY <1>1, <3>1, EmptySeq, LenProperties, HeadTailProperties DEF Range
    <3>. QED  BY <3>1, <3>2 DEF OnQueues
  <2>. HIDE DEF next
  <2>3. /\ rest \in [QueueName -> Seq(DOMAIN ps)] /\ InOrder(rest, ps)
        /\ OnQueues(rest) = OnQueues(qs) \ {next}
        /\ \A n \in QueueName : qs[n] = << >> => rest[n] = << >>
        /\ SameOrder(qs, rest, next)
    BY RemoveUnfiles, RemoveKeepsOrder, RemoveKeepsBefore
  <2>. HIDE DEF rest
  <2>4. cur \notin OnQueues(rest)
    BY <2>3
  <2>5. SameOrder(rest, queue', cur) /\ Behind(queue', ps, cur)
    <3>1. CASE flag
      BY <2>1, <2>3, <2>4, <3>1, InsertIsFair
    <3>2. CASE ~ flag
      BY <2>1, <2>4, <3>2, OffIsBehind DEF SameOrder
    <3>. QED  BY <3>1, <3>2
  <2>6. \A n \in QueueName : Range(queue'[n]) \subseteq Range(rest[n]) \union {cur}
    <3>1. CASE flag
      BY <2>1, <2>3, <3>1, InsertAddsOne
    <3>2. CASE ~ flag
      BY <2>1, <3>2
    <3>. QED  BY <3>1, <3>2
  <2>7. \A n \in QueueName : next \notin Range(queue'[n])
    <3>1. \A n \in QueueName : Range(rest[n]) \subseteq OnQueues(rest)
      BY DEF OnQueues
    <3>. QED  BY <2>2, <2>3, <2>6, <3>1
  <2>8. SameOrder(qs, queue', cur)
    <3>1. SUFFICES ASSUME NEW n \in QueueName, NEW a, NEW b, a # cur, b # cur,
                          {a, b} \subseteq Range(queue'[n])
                   PROVE  Before(qs[n], a, b) <=> Before(queue'[n], a, b)
      BY DEF SameOrder
    <3>2. a # next /\ b # next /\ {a, b} \subseteq Range(rest[n])
      BY <2>6, <2>7, <3>1
    <3>3. Before(qs[n], a, b) <=> Before(rest[n], a, b)
      BY <2>3, <3>2 DEF SameOrder
    <3>4. Before(rest[n], a, b) <=> Before(queue'[n], a, b)
      BY <2>5, <3>1 DEF SameOrder
    <3>. QED  BY <3>3, <3>4
  <2>. QED  BY <2>5, <2>8
<1>2. CASE qs["ready"] = << >>
  BY <1>2, OffIsBehind DEF Dispatch, SameOrder
<1>. QED  BY <1>1, <1>2

----------------------------------------------------------------------------
(***************************************************************************)
(* The actions.                                                            *)
(***************************************************************************)
LEMMA NullIsOff ==
    ASSUME Inv
    PROVE  NULL \notin Queued
<1>1. Queued \subseteq Pcbs
  BY RangeOfSeq DEF Inv, TypeOK, Queued, OnQueues
<1>. QED  BY <1>1, LenProperties DEF Inv, TypeOK, Pcbs, NULL

LEMMA QueuesKept ==
    ASSUME Inv, UNCHANGED queue
    PROVE  Fair
<1>1. SameOrder(queue, queue', NULL)
  BY DEF SameOrder
<1>2. Behind(queue', pcb', NULL)
  BY NullIsOff, OffIsBehind DEF Queued
<1>. QED  BY <1>1, <1>2 DEF Fair

\* load() files a PCB that was on no queue.
LEMMA LoadIsFair ==
    ASSUME Inv, Inv', InOrder(queue, pcb),
           NEW name, NEW class, NEW priority, NEW eip, NEW i,
           Load(name, class, priority, eip, i)
    PROVE  Fair
<1>. DEFINE p   == Len(pcb) + 1
            rec == [process_name      |-> name,
                    process_class     |-> class,
                    process_priority  |-> priority,
                    execution_state   |-> READY,
                    dispatching_state |-> NOT_SUSPENDED,
                    stack_ptr         |-> Context(p, eip, i)]
            ps  == Append(pcb, rec)
<1>1. \/ UNCHANGED queue
      \/ pcb' = ps /\ PcbInsert(queue, ps, p, heap_addr + PcbSize)
  BY DEF Load, NewPcb, PcbInsert
<1>2. pcb \in Seq(PCB) /\ Len(pcb) \in Nat /\ DOMAIN pcb = 1..Len(pcb)
  BY LenProperties DEF Inv, TypeOK
<1>. HIDE DEF rec
<1>3. /\ DOMAIN ps = 1..(Len(pcb) + 1)
      /\ \A r \in DOMAIN pcb : ps[r] = pcb[r]
  BY <1>2
<1>4. ASSUME pcb' = ps, PcbInsert(queue, ps, p, heap_addr + PcbSize)
      PROVE  Fair
  <2>1. ps \in Seq(PCB)
    BY <1>4 DEF Inv, TypeOK
  <2>. HIDE DEF ps
  <2>2. \A n \in QueueName : queue[n] \in Seq(DOMAIN pcb) /\ Range(queue[n]) \subseteq DOMAIN pcb
    BY RangeOfSeq DEF Inv, TypeOK, Pcbs
  <2>3. p \notin DOMAIN pcb /\ p \in DOMAIN ps /\ DOMAIN pcb \subseteq DOMAIN ps
    BY <1>2, <1>3
  <2>4. PICK new : new = p
    OBVIOUS
  <2>. HIDE DEF p
  <2>5. queue \in [QueueName -> Seq(DOMAIN pcb)] /\ queue \in [QueueName -> Seq(DOMAIN ps)]
    <3>1. \A n \in QueueName : queue[n] \in Seq(DOMAIN ps)
      BY <2>2, <2>3, SeqMonotonic
    <3>. QED  BY <3>1 DEF Inv, TypeOK, Pcbs
  <2>6. p \notin OnQueues(queue)
    BY <2>2, <2>3 DEF OnQueues
  <2>7. InOrder(queue, ps)
    BY <1>3, <2>5, <2>6, InOrderElsewhere
  <2>8. SameOrder(queue, queue', new) /\ Behind(queue', ps, new)
    BY <1>4, <2>1, <2>3, <2>4, <2>5, <2>6, <2>7, InsertIsFair DEF Inv, UnmadeEmpty
  <2>9. new \in Pcbs'
    BY <1>4, <2>3, <2>4 DEF Pcbs
  <2>. QED  BY <1>4, <2>8, <2>9 DEF Fair
<1>. QED  BY <1>1, <1>4, QueuesKept

\* A command that files a PCB again.
LEMMA RefileIsFair ==
    ASSUME Inv, Inv', InOrder(queue, pcb), NEW p \in Pcbs, NEW rec, Refile(p, rec)
    PROVE  Fair
<1>. DEFINE ps == [pcb EXCEPT ![p] = rec]
            qs == PcbRemove(queue, p)
<1>1. PcbInsert(qs, ps, p, heap_addr) /\ pcb' = ps
  BY DEF Refile, PcbInsert
<1>2. ps \in Seq(PCB) /\ DOMAIN ps = DOMAIN pcb /\ p \in DOMAIN ps
  BY <1>1 DEF Inv, TypeOK, Pcbs
<1>3. \A r \in DOMAIN pcb \ {p} : ps[r] = pcb[r]
  OBVIOUS
<1>. HIDE DEF ps
<1>4. queue \in [QueueName -> Seq(DOMAIN pcb)] /\ Filed(queue, pcb)
  BY DEF Inv, TypeOK, Pcbs, FiledByState
<1>5. /\ qs \in [QueueName -> Seq(DOMAIN pcb)] /\ InOrder(qs, pcb)
      /\ p \notin OnQueues(qs) /\ SameOrder(queue, qs, p)
      /\ \A n \in QueueName \ made : qs[n] = << >>
  <2>1. /\ qs \in [QueueName -> Seq(DOMAIN pcb)]
        /\ OnQueues(qs) = OnQueues(queue) \ {p}
        /\ \A n \in QueueName : queue[n] = << >> => qs[n] = << >>
    BY <1>4, RemoveUnfiles
  <2>2. InOrder(qs, pcb) /\ SameOrder(queue, qs, p)
    BY <1>4, RemoveKeepsOrder, RemoveKeepsBefore
  <2>. QED  BY <2>1, <2>2 DEF Inv, UnmadeEmpty
<1>. HIDE DEF qs
<1>6. InOrder(qs, ps)
  BY <1>3, <1>5, InOrderElsewhere
<1>7. SameOrder(qs, queue', p) /\ Behind(queue', ps, p)
  BY <1>1, <1>2, <1>5, <1>6, InsertIsFair
<1>8. \A n \in QueueName : Range(queue'[n]) \subseteq Range(qs[n]) \union {p}
  BY <1>1, <1>2, <1>5, InsertAddsOne
<1>9. SameOrder(queue, queue', p)
  <2>1. SUFFICES ASSUME NEW n \in QueueName, NEW a, NEW b, a # p, b # p,
                        {a, b} \subseteq Range(queue'[n])
                 PROVE  Before(queue[n], a, b) <=> Before(queue'[n], a, b)
    BY DEF SameOrder
  <2>2. {a, b} \subseteq Range(qs[n])
    BY <1>8, <2>1
  <2>3. Before(queue[n], a, b) <=> Before(qs[n], a, b)
    BY <1>5, <2>1, <2>2 DEF SameOrder
  <2>4. Before(qs[n], a, b) <=> Before(queue'[n], a, b)
    BY <1>7, <2>1 DEF SameOrder
  <2>. QED  BY <2>3, <2>4
<1>. QED  BY <1>1, <1>2, <1>7, <1>9 DEF Fair, Pcbs

LEMMA DeleteIsFair ==
    ASSUME Inv, Inv', NEW name, DeletePcb(name)
    PROVE  Fair
<1>1. PICK p : p = Named(name)
  OBVIOUS
<1>2. p \in Pcbs /\ queue' = PcbRemove(queue, p) /\ UNCHANGED pcb
  BY <1>1, NamedIsQueued DEF DeletePcb
<1>3. queue \in [QueueName -> Seq(DOMAIN pcb)] /\ Filed(queue, pcb)
  BY DEF Inv, TypeOK, Pcbs, FiledByState
<1>4. SameOrder(queue, queue', p) /\ p \notin OnQueues(queue')
  <2>. DEFINE qs == PcbRemove(queue, p)
  <2>1. SameOrder(queue, qs, p)
    BY <1>3, RemoveKeepsBefore
  <2>2. OnQueues(qs) = OnQueues(queue) \ {p}
    BY <1>3, RemoveUnfiles
  <2>. HIDE DEF qs
  <2>3. queue' = qs
    BY <1>2 DEF qs
  <2>. QED  BY <2>1, <2>2, <2>3
<1>. QED  BY <1>2, <1>4, OffIsBehind DEF Fair, Pcbs

LEMMA IdleIsFair ==
    ASSUME Inv, Inv', InOrder(queue, pcb), NEW ctx, SysIdle(ctx), cpu.eip # "kmain_halt"
    PROVE  Fair
<1>0. PICK cur : cur = current_process
  OBVIOUS
<1>. DEFINE ps  == IF cur = NULL THEN pcb
                   ELSE [pcb EXCEPT ![cur].execution_state = READY, ![cur].stack_ptr = ctx]
            ic  == IF initial_context = NoContext THEN ctx ELSE initial_context
            flag == insert_flag \/ cur # NULL
<1>1. Dispatch(queue, ps, cur, flag, ic, freed)
  BY <1>0 DEF SysIdle
<1>2. flag => cur # NULL
  BY <1>0 DEF Inv, ContextsOK
<1>3. pcb' = ps
  BY <1>1 DEF Dispatch, PcbInsert
<1>4. ps \in Seq(PCB) /\ DOMAIN ps = DOMAIN pcb
  BY <1>3 DEF Inv, TypeOK
<1>5. \A r \in DOMAIN pcb \ {cur} : ps[r] = pcb[r]
  OBVIOUS
<1>6. /\ queue \in [QueueName -> Seq(DOMAIN pcb)] /\ cur \notin OnQueues(queue)
      /\ cur \in DOMAIN pcb \union {NULL} /\ Filed(queue, pcb)
      /\ \A n \in QueueName \ made : queue[n] = << >>
  BY <1>0 DEF Inv, TypeOK, Pcbs, Exclusive, Queued, FiledByState, UnmadeEmpty
<1>. HIDE DEF ps, ic, flag
<1>7. InOrder(queue, ps) /\ Filed(queue, ps)
  BY <1>5, <1>6, InOrderElsewhere, FiledElsewhere
<1>8. SameOrder(queue, queue', cur) /\ Behind(queue', ps, cur)
  BY <1>1, <1>2, <1>4, <1>6, <1>7, DispatchIsFair
<1>. QED  BY <1>3, <1>4, <1>6, <1>8 DEF Fair, Pcbs

LEMMA ExitIsFair ==
    ASSUME Inv, Inv', InOrder(queue, pcb), SysExit, cpu.eip # "kmain_halt"
    PROVE  Fair
<1>0. PICK cur : cur = current_process
  OBVIOUS
<1>. DEFINE qs  == PcbRemove(queue, cur)
            fr  == freed \union ({cur} \ {NULL})
<1>1. Dispatch(qs, pcb, NULL, insert_flag, initial_context, fr)
  BY <1>0 DEF SysExit
<1>2. /\ queue \in [QueueName -> Seq(DOMAIN pcb)] /\ pcb \in Seq(PCB) /\ ~ insert_flag
      /\ Filed(queue, pcb)
  BY DEF Inv, TypeOK, Pcbs, ContextsOK, FiledByState
<1>3. /\ qs \in [QueueName -> Seq(DOMAIN pcb)] /\ InOrder(qs, pcb) /\ Filed(qs, pcb)
      /\ OnQueues(qs) = OnQueues(queue) \ {cur}
      /\ \A n \in QueueName \ made : qs[n] = << >>
      /\ SameOrder(queue, qs, cur)
  BY <1>2, RemoveUnfiles, RemoveKeepsOrder, RemoveKeepsBefore DEF Inv, UnmadeEmpty
<1>4. NULL \notin OnQueues(qs) /\ (insert_flag => NULL # NULL)
  BY <1>2, <1>3, NullIsOff DEF Queued
<1>. HIDE DEF qs, fr
<1>5. SameOrder(qs, queue', NULL) /\ Behind(queue', pcb, NULL)
  <2>1. NULL \in DOMAIN pcb \union {NULL}
    OBVIOUS
  <2>. QED  BY ONLY <1>1, <1>2, <1>3, <1>4, <2>1, DispatchIsFair
<1>6. pcb' = pcb
  BY <1>1, <1>2 DEF Dispatch
<1>7. \A n \in QueueName : cur \notin Range(queue'[n])
  <2>1. cur \notin OnQueues(qs)
    BY <1>3
  <2>2. \A n \in QueueName : Range(queue'[n]) \subseteq Range(qs[n])
    BY <1>1, <1>2, <1>3, RemoveTakesOff DEF Dispatch
  <2>. QED  BY <2>1, <2>2 DEF OnQueues
<1>8. SameOrder(queue, queue', NULL)
  <2>1. SUFFICES ASSUME NEW n \in QueueName, NEW a, NEW b, a # NULL, b # NULL,
                        {a, b} \subseteq Range(queue'[n])
                 PROVE  Before(queue[n], a, b) <=> Before(queue'[n], a, b)
    BY DEF SameOrder
  <2>2. a # cur /\ b # cur /\ {a, b} \subseteq Range(qs[n])
    <3>1. Range(queue'[n]) \subseteq Range(qs[n])
      BY <1>1, <1>2, <1>3, RemoveTakesOff DEF Dispatch
    <3>. QED  BY <1>7, <2>1, <3>1
  <2>3. Before(queue[n], a, b) <=> Before(qs[n], a, b)
    BY <1>3, <2>2 DEF SameOrder
  <2>4. Before(qs[n], a, b) <=> Before(queue'[n], a, b)
    BY <1>5, <2>1 DEF SameOrder
  <2>. QED  BY <2>3, <2>4
<1>. QED  BY <1>5, <1>6, <1>8 DEF Fair

LEMMA ReadCommandIsFair ==
    ASSUME Inv, Inv', InOrder(queue, pcb), ReadCommand
    PROVE  Fair
<1>1. \A name : Named(name) # NULL => Named(name) \in Pcbs
  BY NamedIsQueued
<1>2. ASSUME NEW name \in ArgNames, NEW rec, Named(name) # NULL, Refile(Named(name), rec)
      PROVE  Fair
  BY <1>1, <1>2, RefileIsFair
<1>3. ASSUME NEW name \in ArgNames, DeletePcb(name) PROVE Fair
  BY <1>3, DeleteIsFair
<1>4. ASSUME NEW name \in ArgNames,
             SuspendPcb(name) \/ ResumePcb(name) \/ BlockPcb(name) \/ UnblockPcb(name)
             \/ \E new \in PrioArgs : SetPcbPriority(name, new)
      PROVE  Fair
  <2>1. \/ Named(name) # NULL /\ \E rec : Refile(Named(name), rec)
        \/ UNCHANGED queue
    BY <1>4 DEF SuspendPcb, ResumePcb, BlockPcb, UnblockPcb, SetPcbPriority
  <2>. QED  BY <1>2, <2>1, QueuesKept
<1>5. ASSUME NEW a \in AlarmArgs, AlarmCommand(a) PROVE Fair
  BY <1>5, LoadIsFair, QueuesKept DEF AlarmCommand, memVars
<1>6. ASSUME YieldCommand PROVE Fair
  BY <1>6, IdleIsFair DEF YieldCommand, AtPrompt, At
<1>7. CASE LoadR3Command \/ CommandWithoutEffect \/ \E yes \in BOOLEAN : ShutdownCommand(yes)
  BY <1>7, QueuesKept DEF LoadR3Command, CommandWithoutEffect, ShutdownCommand, memVars
<1>. QED  BY <1>3, <1>4, <1>5, <1>6, <1>7 DEF ReadCommand

LEMMA CpuStepIsFair ==
    ASSUME Inv, Inv', InOrder(queue, pcb), CpuStep
    PROVE  Fair
<1>1. CASE KmainLoadComhand \/ KmainLoadIdle \/ LoadR3Step
  BY <1>1, LoadIsFair DEF KmainLoadComhand, KmainLoadIdle, LoadR3Step
<1>2. CASE KmainYield \/ SysIdleProcess \/ R3Iteration \/ AlarmPoll
  BY <1>2, IdleIsFair DEF KmainYield, SysIdleProcess, R3Iteration, AlarmPoll, At
<1>3. CASE ComhandEnd
  BY <1>3, IdleIsFair, ExitIsFair DEF ComhandEnd, At
<1>4. CASE R3Exit \/ AlarmFire
  BY <1>4, ExitIsFair DEF R3Exit, AlarmFire, At
<1>5. CASE KmainHalt \/ AlarmStart
  BY <1>5, QueuesKept DEF KmainHalt, AlarmStart, memVars
<1>. QED  BY <1>1, <1>2, <1>3, <1>4, <1>5 DEF CpuStep

\* pcb_insert puts a PCB behind its equals and pcb_remove leaves the others where
\* they are, so whatever the system does, processes of one priority are served in
\* the order in which they were filed.
THEOREM FirstComeFirstServed == Spec => NoOvertaking
<1>. DEFINE Moves ==
              \A n \in QueueName : \E moved \in Pcbs' \union {NULL} :
                /\ \A a, b \in (Range(queue[n]) \intersect Range(queue'[n])) \ {moved} :
                      Before(queue[n], a, b) <=> Before(queue'[n], a, b)
                /\ \A b \in Range(queue'[n]) \ {moved} :
                      Before(queue'[n], moved, b) =>
                          /\ n \in PriorityQueue
                          /\ pcb'[moved].process_priority < pcb'[b].process_priority
<1>1. ASSUME Fair PROVE Moves
  BY <1>1 DEF Fair, SameOrder, Behind
<1>2. ReadyInPriorityOrder => InOrder(queue, pcb)
  BY DEF ReadyInPriorityOrder, InOrder, Sorted
<1>3. ASSUME Inv, Inv', ReadyInPriorityOrder, [Next]_vars PROVE [Moves]_vars
  <2>1. CASE Next
    <3>1. CASE Stopped
      BY <1>3, <3>1, QueuesKept, <1>1 DEF Stopped, vars, kernelVars, memVars
    <3>. QED  BY <1>1, <1>2, <1>3, <2>1, <3>1, ReadCommandIsFair, CpuStepIsFair DEF Next
  <2>. QED  BY <1>3, <2>1
<1>4. NoOvertaking <=> [][Moves]_vars
  BY DEF NoOvertaking
<1>. QED  BY <1>3, <1>4, Invariance, ReadyStaysInOrder, PTL DEF Spec

----------------------------------------------------------------------------
(***************************************************************************)
(* Roles.  kmain's two loads are the first two, so the command handler is  *)
(* PCB 1 and the idle process PCB 2.  The invariant says who can be where  *)
(* in the programs: the handler's commands are executed by PCB 1 alone and *)
(* the idle loop by PCB 2 alone, whatever else was loaded.  So only the    *)
(* handler's EXIT can end one of the two, and when nothing is ready, it is *)
(* the idle process that finds out.                                        *)
(***************************************************************************)
Handler  == 1
IdleProc == 2

HandlerLabel == {"comhand", "comhand_end", "loadR3"}

MayRun(p, eip) ==
    /\ p = Handler <=> eip \in HandlerLabel
    /\ p = IdleProc <=> eip = "sys_idle"

PcbRoles(ps) ==
    \A p \in DOMAIN ps :
        /\ MayRun(p, ps[p].stack_ptr.eip)
        /\ ps[p].process_class = SYSTEM_PROCESS <=> p \in {Handler, IdleProc}
        /\ ps[p].process_name = "Comhand" => p = Handler
        /\ p \in {Handler, IdleProc} =>
              ps[p].execution_state = READY /\ ps[p].dispatching_state = NOT_SUSPENDED

\* How far kmain has come.
Booted ==
    /\ cpu.eip = "kmain_comhand" => Len(pcb) = 0
    /\ cpu.eip = "kmain_idle_proc" => Len(pcb) = 1
    /\ cpu.eip \notin {"kmain_comhand", "kmain_idle_proc"} => Len(pcb) >= 2

EndedByShutdown ==
    /\ IdleProc \notin ended
    /\ Handler \in ended => should_shutdown

Halting == cpu.eip = "kmain_halt" => Handler \in ended /\ queue["ready"] = << >>

CpuRole == cpu.eip \notin BootLabel \union {"kmain_halt"} => MayRun(current_process, cpu.eip)

Roles ==
    /\ PcbRoles(pcb)
    /\ CpuRole
    /\ On => Booted
    /\ EndedByShutdown
    /\ Halting

----------------------------------------------------------------------------
LEMMA SystemQueue ==
    ASSUME NEW ps, PcbRoles(ps), NEW p \in DOMAIN ps, p \in {Handler, IdleProc}
    PROVE  QueueOf(ps[p]) = "ready"
<1>1. ps[p].execution_state = READY /\ ps[p].dispatching_state = NOT_SUSPENDED
  BY DEF PcbRoles
<1>. QED  BY <1>1 DEF QueueOf, READY, BLOCKED, NOT_SUSPENDED, SUSPENDED

\* A system process that does not run and has not ended is on the ready queue.
LEMMA SystemIsReady ==
    ASSUME Inv, Roles, On, NEW p \in Pcbs, p \in {Handler, IdleProc},
           p # current_process, p \notin ended
    PROVE  p \in Range(queue["ready"])
<1>1. p \in OnQueues(queue)
  BY DEF Inv, NoneMissing, Queued
<1>2. PICK n \in QueueName : p \in Range(queue[n])
  BY <1>1 DEF OnQueues
<1>3. QueueOf(pcb[p]) = n
  BY <1>2 DEF Inv, FiledByState, Filed
<1>4. QueueOf(pcb[p]) = "ready"
  BY SystemQueue DEF Roles, Pcbs
<1>. QED  BY <1>2, <1>3, <1>4

\* With nothing ready it is the idle process that runs, and the handler has ended.
LEMMA NothingReady ==
    ASSUME Inv, Roles, On, Len(pcb) >= 2, queue["ready"] = << >>
    PROVE  Handler \in ended /\ current_process = IdleProc
<1>1. Handler \in Pcbs /\ IdleProc \in Pcbs /\ Handler # IdleProc
  BY LenProperties DEF Inv, TypeOK, Pcbs, Handler, IdleProc
<1>2. Range(queue["ready"]) = {}
  BY DEF Range
<1>3. current_process = IdleProc
  BY <1>1, <1>2, SystemIsReady DEF Roles, EndedByShutdown
<1>. QED  BY <1>1, <1>2, <1>3, SystemIsReady

\* The end of a system call.
LEMMA DispatchKeepsRoles ==
    ASSUME NEW ps \in Seq(PCB), NEW qs \in [QueueName -> Seq(DOMAIN ps)],
           NEW cur, NEW flag, NEW ic, NEW fr,
           PcbRoles(ps), SavedContextsResume(ps), Len(ps) >= 2, ic.eip = "kmain_halt",
           EndedByShutdown', qs["ready"] = << >> => Handler \in ended',
           Dispatch(qs, ps, cur, flag, ic, fr)
    PROVE  Roles'
<1>1. CASE qs["ready"] # << >>
  <2>. DEFINE next == Head(qs["ready"])
  <2>1. next \in DOMAIN ps
    <3>1. "ready" \in QueueName
      BY DEF QueueName
    <3>. QED  BY <1>1, <3>1
  <2>2. /\ pcb' = ps
        /\ cpu' = ps[next].stack_ptr
        /\ current_process' = next
    BY <1>1 DEF Dispatch, PcbInsert
  <2>. HIDE DEF next
  <2>3. /\ MayRun(next, cpu'.eip)
        /\ cpu'.eip \notin BootLabel \union {"kmain_halt"}
    BY <2>1, <2>2 DEF PcbRoles, SavedContextsResume, ProcessLabel, BootLabel
  <2>4. CpuRole' /\ Halting' /\ Booted'
    BY <2>2, <2>3 DEF CpuRole, Halting, Booted, BootLabel
  <2>. QED  BY <2>2, <2>4 DEF Roles
<1>2. CASE qs["ready"] = << >>
  <2>1. /\ pcb' = ps /\ queue' = qs
        /\ cpu' = ic
    BY <1>2 DEF Dispatch
  <2>2. CpuRole' /\ Halting' /\ Booted'
    BY <1>2, <2>1 DEF CpuRole, Halting, Booted
  <2>. QED  BY <2>1, <2>2 DEF Roles
<1>. QED  BY <1>1, <1>2

\* A step within a process.
LEMMA QuietKeepsRoles ==
    ASSUME Inv, Roles, On, NEW eip, NEW i, Goto(eip, i),
           \/ cpu.eip \in HandlerLabel /\ eip \in HandlerLabel
           \/ cpu.eip = "alarm" /\ eip = "alarm_wait",
           UNCHANGED current_process, PcbRoles(pcb'), Len(pcb') >= Len(pcb), Len(pcb') \in Nat,
           EndedByShutdown'
    PROVE  Roles'
<1>1. cpu'.eip = eip
  BY DEF Goto, Inv, TypeOK, Contexts
<1>2. Len(pcb') >= 2
  <2>1. Len(pcb) >= 2 /\ Len(pcb) \in Nat
    BY LenProperties DEF Roles, Booted, HandlerLabel, Inv, TypeOK
  <2>. QED  BY <2>1
<1>3. CpuRole'
  BY <1>1 DEF Roles, CpuRole, MayRun, HandlerLabel, BootLabel
<1>4. Halting' /\ Booted'
  BY <1>1, <1>2 DEF Halting, Booted, HandlerLabel
<1>. QED  BY <1>3, <1>4 DEF Roles

LEMMA LoadKeepsRoles ==
    ASSUME Inv, Roles, On, NEW name, NEW class, NEW priority, NEW eip, NEW i,
           Load(name, class, priority, eip, i),
           MayRun(Len(pcb) + 1, eip),
           class = SYSTEM_PROCESS <=> Len(pcb) + 1 \in {Handler, IdleProc},
           name = "Comhand" => Len(pcb) + 1 = Handler
    PROVE  /\ PcbRoles(pcb')
           /\ Len(pcb') \in Nat
           /\ Len(pcb') = IF machine' = "on" THEN Len(pcb) + 1 ELSE Len(pcb')
           /\ Len(pcb') >= Len(pcb)
<1>. DEFINE rec == [process_name      |-> name,
                    process_class     |-> class,
                    process_priority  |-> priority,
                    execution_state   |-> READY,
                    dispatching_state |-> NOT_SUSPENDED,
                    stack_ptr         |-> Context(Len(pcb) + 1, eip, i)]
            ps  == Append(pcb, rec)
<1>1. (UNCHANGED pcb /\ machine' = "heap_full") \/ pcb' = ps
  BY DEF Load, NewPcb, PcbInsert
<1>2. pcb \in Seq(PCB) /\ Len(pcb) \in Nat /\ DOMAIN pcb = 1..Len(pcb)
  BY LenProperties DEF Inv, TypeOK
<1>3. /\ rec.stack_ptr.eip = eip /\ rec.process_class = class /\ rec.process_name = name
      /\ rec.execution_state = READY /\ rec.dispatching_state = NOT_SUSPENDED
  BY DEF Context
<1>. HIDE DEF rec
<1>4. /\ Len(ps) = Len(pcb) + 1
      /\ DOMAIN ps = 1..(Len(pcb) + 1)
      /\ \A p \in 1..(Len(pcb) + 1) : ps[p] = IF p = Len(pcb) + 1 THEN rec ELSE pcb[p]
  BY <1>2
<1>5. PcbRoles(ps)
  BY <1>2, <1>3, <1>4 DEF Roles, PcbRoles
<1>. HIDE DEF ps
<1>. QED  BY <1>1, <1>2, <1>4, <1>5 DEF Roles

\* The fields of one PCB change.
LEMMA FieldsKeepRoles ==
    ASSUME Inv, Roles, NEW p \in Pcbs, NEW rec,
           rec.stack_ptr = pcb[p].stack_ptr,
           rec.process_class = pcb[p].process_class,
           rec.process_name = pcb[p].process_name,
           p \in {Handler, IdleProc} =>
              rec.execution_state = READY /\ rec.dispatching_state = NOT_SUSPENDED,
           pcb' = [pcb EXCEPT ![p] = rec]
    PROVE  /\ PcbRoles(pcb')
           /\ Len(pcb') >= Len(pcb) /\ Len(pcb') \in Nat
<1>1. p \in DOMAIN pcb /\ pcb \in Seq(PCB) /\ Len(pcb) \in Nat /\ DOMAIN pcb = 1..Len(pcb)
  BY LenProperties DEF Inv, TypeOK, Pcbs
<1>2. /\ DOMAIN pcb' = DOMAIN pcb /\ pcb'[p] = rec
      /\ \A r \in DOMAIN pcb \ {p} : pcb'[r] = pcb[r]
  BY <1>1
<1>3. Len(pcb') = Len(pcb)
  BY <1>1
<1>. QED  BY <1>1, <1>2, <1>3 DEF Roles, PcbRoles

LEMMA RefileKeepsRoles ==
    ASSUME Inv, Roles, AtPrompt, NEW p \in Pcbs, NEW rec,
           rec.stack_ptr = pcb[p].stack_ptr,
           rec.process_class = pcb[p].process_class,
           rec.process_name = pcb[p].process_name,
           p \in {Handler, IdleProc} =>
              rec.execution_state = READY /\ rec.dispatching_state = NOT_SUSPENDED,
           Refile(p, rec)
    PROVE  Roles'
<1>1. /\ pcb' = [pcb EXCEPT ![p] = rec] /\ Goto("comhand_end", 0)
      /\ UNCHANGED <<current_process, ended, should_shutdown>>
  BY DEF Refile, PcbInsert, schedVars, comhandVars
<1>2. PcbRoles(pcb') /\ Len(pcb') >= Len(pcb) /\ Len(pcb') \in Nat
  BY <1>1, FieldsKeepRoles
<1>3. EndedByShutdown' /\ On
  BY <1>1 DEF Roles, EndedByShutdown, AtPrompt, At, On
<1>4. cpu.eip \in HandlerLabel /\ "comhand_end" \in HandlerLabel
  BY DEF AtPrompt, At, HandlerLabel
<1>. QED  BY <1>1, <1>2, <1>3, <1>4, QuietKeepsRoles

LEMMA IdleKeepsRoles ==
    ASSUME Inv, Roles, On, NEW ctx \in Contexts, SysIdle(ctx),
           UNCHANGED should_shutdown, cpu.eip # "kmain_halt",
           cpu.eip \notin {"kmain_comhand", "kmain_idle_proc"},
           \/ current_process = NULL /\ cpu.eip = "kmain_yield" /\ ctx.eip = "kmain_halt"
           \/ /\ cpu.eip \notin BootLabel /\ ctx.eip \in ProcessLabel
              /\ MayRun(current_process, ctx.eip)
    PROVE  Roles'
<1>. DEFINE cur == current_process
            ps  == IF cur = NULL THEN pcb
                   ELSE [pcb EXCEPT ![cur].execution_state = READY, ![cur].stack_ptr = ctx]
            ic  == IF initial_context = NoContext THEN ctx ELSE initial_context
            flag == insert_flag \/ cur # NULL
<1>1. Dispatch(queue, ps, cur, flag, ic, freed) /\ UNCHANGED ended
  BY DEF SysIdle
<1>2. Len(pcb) >= 2 /\ pcb \in Seq(PCB) /\ queue \in [QueueName -> Seq(DOMAIN pcb)]
  BY DEF Roles, Booted, Inv, TypeOK, Pcbs
<1>3. ic.eip = "kmain_halt"
  BY DEF Inv, ContextsOK
<1>4. /\ ps \in Seq(PCB) /\ DOMAIN ps = DOMAIN pcb /\ Len(ps) = Len(pcb)
      /\ PcbRoles(ps) /\ SavedContextsResume(ps)
  <2>1. CASE cur = NULL
    BY <1>2, <2>1 DEF Roles, Inv, ContextsOK
  <2>2. CASE cur # NULL
    <3>. DEFINE rec == [pcb[cur] EXCEPT !.execution_state = READY, !.stack_ptr = ctx]
    <3>1. /\ cur \in DOMAIN pcb /\ ctx.eip \in ProcessLabel /\ MayRun(cur, ctx.eip)
      BY <2>2 DEF Inv, TypeOK, Pcbs
    <3>2. pcb[cur] \in PCB
      BY <1>2, <3>1, ElementOfSeq, LenProperties
    <3>3. /\ rec \in PCB /\ rec.stack_ptr = ctx /\ rec.execution_state = READY
          /\ rec.process_class = pcb[cur].process_class
          /\ rec.process_name = pcb[cur].process_name
          /\ rec.dispatching_state = pcb[cur].dispatching_state
      BY <3>2 DEF PCB, READY
    <3>4. ps = [pcb EXCEPT ![cur] = rec]
      BY <1>2, <2>2, <3>1, <3>2, LenProperties DEF PCB
    <3>. HIDE DEF ps, rec
    <3>5. /\ ps \in Seq(PCB)
          /\ DOMAIN ps = DOMAIN pcb
          /\ \A r \in DOMAIN pcb \ {cur} : ps[r] = pcb[r]
          /\ ps[cur] = rec
      BY <1>2, <3>1, <3>3, <3>4, ExceptSeq, LenProperties
    <3>6. Len(ps) = Len(pcb)
      BY <1>2, <3>1, <3>4, LenProperties
    <3>7. SavedContextsResume(ps)
      BY <3>1, <3>3, <3>5 DEF SavedContextsResume, Inv, ContextsOK
    <3>8. PcbRoles(ps)
      BY <3>1, <3>3, <3>5 DEF Roles, PcbRoles
    <3>. QED  BY <3>5, <3>6, <3>7, <3>8
  <2>. QED  BY <2>1, <2>2
<1>5. EndedByShutdown' /\ (queue["ready"] = << >> => Handler \in ended')
  BY <1>1, <1>2, NothingReady DEF Roles, EndedByShutdown
<1>. HIDE DEF ps, ic, flag, cur
<1>. QED  BY <1>1, <1>2, <1>3, <1>4, <1>5, DispatchKeepsRoles

\* Whoever ends, the idle process is there to take over.
LEMMA ExitLeavesIdle ==
    ASSUME Inv, Roles, On, cpu.eip \in ProcessLabel \ {"sys_idle"}
    PROVE  LET qs == PcbRemove(queue, current_process)
           IN  qs \in [QueueName -> Seq(DOMAIN pcb)] /\ qs["ready"] # << >>
<1>. DEFINE cur == current_process
            qs  == PcbRemove(queue, cur)
<1>1. MayRun(cur, cpu.eip)
  BY DEF Roles, CpuRole, ProcessLabel, BootLabel
<1>2. Len(pcb) >= 2 /\ pcb \in Seq(PCB) /\ queue \in [QueueName -> Seq(DOMAIN pcb)]
  BY DEF Roles, Booted, ProcessLabel, Inv, TypeOK, Pcbs
<1>3. IdleProc \in Pcbs /\ IdleProc # cur
  BY <1>1, <1>2, LenProperties DEF Pcbs, IdleProc, MayRun
<1>4. IdleProc \in Range(queue["ready"])
  BY <1>3, SystemIsReady DEF Roles, EndedByShutdown
<1>. HIDE DEF cur
<1>5. /\ qs \in [QueueName -> Seq(DOMAIN pcb)] /\ Filed(qs, pcb)
      /\ OnQueues(qs) = OnQueues(queue) \ {cur}
  BY <1>2, RemoveUnfiles DEF Inv, FiledByState
<1>6. IdleProc \in OnQueues(qs)
  BY <1>3, <1>4, <1>5 DEF OnQueues, QueueName
<1>7. PICK n \in QueueName : IdleProc \in Range(qs[n])
  BY <1>6 DEF OnQueues
<1>8. n = QueueOf(pcb[IdleProc])
  BY <1>5, <1>7 DEF Filed
<1>9. n = "ready"
  BY <1>3, <1>8, SystemQueue DEF Roles, Pcbs
<1>. QED  BY <1>5, <1>7, <1>9 DEF Range, cur

LEMMA ExitKeepsRoles ==
    ASSUME Inv, Roles, On, SysExit, UNCHANGED should_shutdown,
           cpu.eip \in ProcessLabel \ {"sys_idle"},
           cpu.eip \in HandlerLabel => should_shutdown
    PROVE  Roles'
<1>. DEFINE cur == current_process
            qs  == PcbRemove(queue, cur)
            fr  == freed \union ({cur} \ {NULL})
<1>1. /\ Dispatch(qs, pcb, NULL, insert_flag, initial_context, fr)
      /\ ended' = ended \union ({cur} \ {NULL})
  BY DEF SysExit
<1>2. initial_context.eip = "kmain_halt"
  BY DEF Inv, ContextsOK, ProcessLabel, BootLabel
<1>3. MayRun(cur, cpu.eip)
  BY DEF Roles, CpuRole, ProcessLabel, BootLabel
<1>4. EndedByShutdown'
  BY <1>1, <1>3 DEF Roles, EndedByShutdown, MayRun
<1>5. Len(pcb) >= 2 /\ pcb \in Seq(PCB)
  BY DEF Roles, Booted, ProcessLabel, Inv, TypeOK
<1>6. qs \in [QueueName -> Seq(DOMAIN pcb)] /\ qs["ready"] # << >>
  BY ExitLeavesIdle
<1>. HIDE DEF cur, qs, fr
<1>. QED  BY <1>1, <1>2, <1>4, <1>5, <1>6, DispatchKeepsRoles DEF Roles, Inv, ContextsOK

LEMMA ReadCommandKeepsRoles ==
    ASSUME Inv, Roles, ReadCommand
    PROVE  Roles'
<1>1. AtPrompt /\ On /\ cpu.eip = "comhand"
  BY DEF ReadCommand, DeletePcb, SuspendPcb, ResumePcb, BlockPcb, UnblockPcb, SetPcbPriority,
         ShutdownCommand, AlarmCommand, YieldCommand, LoadR3Command, CommandWithoutEffect,
         AtPrompt, At, On
<1>2. current_process = Handler
  BY <1>1 DEF Roles, CpuRole, MayRun, BootLabel, HandlerLabel
<1>3. /\ pcb \in Seq(PCB) /\ Len(pcb) \in Nat /\ DOMAIN pcb = 1..Len(pcb) /\ Len(pcb) >= 2
  BY <1>1, LenProperties DEF Inv, TypeOK, Roles, Booted
<1>4. ASSUME NEW name, Named(name) # NULL
      PROVE  Named(name) \in Pcbs /\ pcb[Named(name)] \in PCB
  BY <1>4, NamedIsQueued
<1>5. ASSUME UNCHANGED current_process, PcbRoles(pcb'), Len(pcb') >= Len(pcb), Len(pcb') \in Nat,
             EndedByShutdown', NEW eip \in HandlerLabel, NEW i, Goto(eip, i)
      PROVE  Roles'
  BY <1>1, <1>5, QuietKeepsRoles DEF HandlerLabel
<1>6. ASSUME UNCHANGED <<pcb, current_process>>, EndedByShutdown',
             NEW eip \in HandlerLabel, NEW i, Goto(eip, i)
      PROVE  Roles'
  BY <1>3, <1>5, <1>6 DEF Roles
<1>7. "comhand_end" \in HandlerLabel /\ "loadR3" \in HandlerLabel
  BY DEF HandlerLabel
<1>8. ASSUME NEW name \in ArgNames, DeletePcb(name) PROVE Roles'
  <2>1. /\ Named(name) \in Pcbs /\ pcb[Named(name)].process_class # SYSTEM_PROCESS
        /\ ended' = ended \union {Named(name)}
        /\ UNCHANGED <<pcb, current_process, should_shutdown>> /\ Goto("comhand_end", 0)
    BY <1>4, <1>8 DEF DeletePcb, comhandVars
  <2>2. Named(name) \notin {Handler, IdleProc}
    BY <2>1 DEF Roles, PcbRoles, Pcbs
  <2>3. EndedByShutdown'
    BY <2>1, <2>2 DEF Roles, EndedByShutdown
  <2>. QED  BY <1>6, <1>7, <2>1, <2>3
<1>9. ASSUME NEW p \in Pcbs, pcb[p] \in PCB, pcb[p].process_class # SYSTEM_PROCESS,
             NEW rec, Refile(p, rec),
             \/ rec = [pcb[p] EXCEPT !.dispatching_state = SUSPENDED]
             \/ rec = [pcb[p] EXCEPT !.execution_state = BLOCKED]
      PROVE  Roles'
  <2>1. p \notin {Handler, IdleProc}
    BY <1>9 DEF Roles, PcbRoles, Pcbs
  <2>2. /\ rec.stack_ptr = pcb[p].stack_ptr
        /\ rec.process_class = pcb[p].process_class
        /\ rec.process_name = pcb[p].process_name
    BY <1>9 DEF PCB
  <2>. QED  BY <1>1, <1>9, <2>1, <2>2, RefileKeepsRoles
<1>10. ASSUME NEW p \in Pcbs, pcb[p] \in PCB, NEW rec, Refile(p, rec),
              \/ rec = [pcb[p] EXCEPT !.dispatching_state = NOT_SUSPENDED]
              \/ rec = [pcb[p] EXCEPT !.execution_state = READY]
              \/ \E new : rec = [pcb[p] EXCEPT !.process_priority = new]
       PROVE  Roles'
  <2>1. /\ rec.stack_ptr = pcb[p].stack_ptr
        /\ rec.process_class = pcb[p].process_class
        /\ rec.process_name = pcb[p].process_name
        /\ rec.execution_state \in {READY, pcb[p].execution_state}
        /\ rec.dispatching_state \in {NOT_SUSPENDED, pcb[p].dispatching_state}
    BY <1>10 DEF PCB
  <2>2. p \in {Handler, IdleProc} =>
           rec.execution_state = READY /\ rec.dispatching_state = NOT_SUSPENDED
    BY <2>1 DEF Roles, PcbRoles, Pcbs
  <2>. QED  BY <1>1, <1>10, <2>1, <2>2, RefileKeepsRoles
<1>11. ASSUME NEW name \in ArgNames, SuspendPcb(name) PROVE Roles'
  <2>1. CASE /\ Named(name) # NULL
             /\ pcb[Named(name)].process_class # SYSTEM_PROCESS
             /\ Refile(Named(name), [pcb[Named(name)] EXCEPT !.dispatching_state = SUSPENDED])
    BY <1>4, <1>9, <2>1
  <2>2. CASE machine' = "page_fault"
             /\ UNCHANGED <<pcb, queue, made, heap_addr, schedVars, cpu, ended, comhandVars>>
    BY <2>2 DEF Roles, CpuRole, On, EndedByShutdown, Halting, schedVars, comhandVars
  <2>. QED  BY <1>11, <2>1, <2>2 DEF SuspendPcb
<1>12. ASSUME NEW name \in ArgNames, BlockPcb(name) PROVE Roles'
  BY <1>4, <1>9, <1>12 DEF BlockPcb
<1>13. ASSUME NEW name \in ArgNames, ResumePcb(name) \/ UnblockPcb(name) PROVE Roles'
  BY <1>4, <1>10, <1>13 DEF ResumePcb, UnblockPcb
<1>14. ASSUME NEW name \in ArgNames, NEW new \in PrioArgs, SetPcbPriority(name, new)
       PROVE  Roles'
  <2>. DEFINE p == Named(name)
  <2>1. CASE Refile(p, [pcb[p] EXCEPT !.process_priority = new])
    BY <1>4, <1>10, <1>14, <2>1 DEF SetPcbPriority
  <2>2. CASE /\ pcb' = [pcb EXCEPT ![p].process_priority = new]
             /\ Goto("comhand_end", 0)
             /\ UNCHANGED <<schedVars, ended, comhandVars>>
    <3>. DEFINE rec == [pcb[p] EXCEPT !.process_priority = new]
    <3>1. p \in Pcbs /\ pcb[p] \in PCB
      BY <1>4, <1>14 DEF SetPcbPriority
    <3>2. pcb' = [pcb EXCEPT ![p] = rec]
      BY <2>2, <3>1, <1>3 DEF PCB, Pcbs
    <3>3. /\ rec.stack_ptr = pcb[p].stack_ptr
          /\ rec.process_class = pcb[p].process_class
          /\ rec.process_name = pcb[p].process_name
          /\ rec.execution_state = pcb[p].execution_state
          /\ rec.dispatching_state = pcb[p].dispatching_state
      BY <3>1 DEF PCB
    <3>4. p \in {Handler, IdleProc} =>
             rec.execution_state = READY /\ rec.dispatching_state = NOT_SUSPENDED
      BY <3>1, <3>3 DEF Roles, PcbRoles, Pcbs
    <3>. HIDE DEF rec, p
    <3>5. PcbRoles(pcb') /\ Len(pcb') >= Len(pcb) /\ Len(pcb') \in Nat
      BY <3>1, <3>2, <3>3, <3>4, FieldsKeepRoles
    <3>6. EndedByShutdown' /\ UNCHANGED current_process
      BY <2>2 DEF Roles, EndedByShutdown, schedVars, comhandVars
    <3>. QED  BY <1>5, <1>7, <2>2, <3>5, <3>6
  <2>. QED  BY <1>14, <2>1, <2>2 DEF SetPcbPriority
<1>15. ASSUME NEW yes \in BOOLEAN, ShutdownCommand(yes) PROVE Roles'
  <2>1. UNCHANGED <<pcb, current_process, ended>> /\ Goto("comhand_end", 0)
    BY <1>15 DEF ShutdownCommand, memVars, schedVars
  <2>2. Handler \notin ended
    BY <1>2 DEF Inv, Exclusive
  <2>3. EndedByShutdown'
    BY <2>1, <2>2 DEF Roles, EndedByShutdown
  <2>. QED  BY <1>6, <1>7, <2>1, <2>3
<1>16. ASSUME NEW a \in AlarmArgs, AlarmCommand(a) PROVE Roles'
  <2>1. /\ UNCHANGED <<current_process, ended, should_shutdown>> /\ Goto("comhand_end", 0)
    BY <1>16 DEF AlarmCommand, schedVars
  <2>2. EndedByShutdown'
    BY <2>1 DEF Roles, EndedByShutdown
  <2>3. CASE a.valid
    <3>1. Load("Alarm", USER_APP, 1, "alarm", 0)
      BY <1>16, <2>3 DEF AlarmCommand
    <3>2. /\ MayRun(Len(pcb) + 1, "alarm") /\ Len(pcb) + 1 \notin {Handler, IdleProc}
          /\ USER_APP # SYSTEM_PROCESS /\ "Alarm" # "Comhand"
      BY <1>3 DEF MayRun, Handler, IdleProc, HandlerLabel, USER_APP, SYSTEM_PROCESS
    <3>3. PcbRoles(pcb') /\ Len(pcb') \in Nat /\ Len(pcb') >= Len(pcb)
      BY <1>1, <3>1, <3>2, LoadKeepsRoles
    <3>. QED  BY <1>5, <1>7, <2>1, <2>2, <3>3
  <2>4. CASE ~ a.valid
    BY <1>6, <1>7, <1>16, <2>1, <2>2, <2>4 DEF AlarmCommand, memVars
  <2>. QED  BY <2>3, <2>4
<1>17. ASSUME YieldCommand PROVE Roles'
  <2>. DEFINE ctx == [cpu EXCEPT !.eip = "comhand_end"]
  <2>1. SysIdle(ctx) /\ UNCHANGED should_shutdown
    BY <1>17 DEF YieldCommand, comhandVars
  <2>2. ctx \in Contexts /\ ctx.eip = "comhand_end"
    BY DEF Inv, TypeOK, Contexts, Label
  <2>. HIDE DEF ctx
  <2>3. ctx.eip \in ProcessLabel /\ MayRun(current_process, ctx.eip) /\ cpu.eip \notin BootLabel
    BY <1>1, <1>2, <2>2 DEF MayRun, HandlerLabel, ProcessLabel, Handler, IdleProc, BootLabel
  <2>. QED  BY <1>1, <2>1, <2>2, <2>3, IdleKeepsRoles
<1>18. ASSUME LoadR3Command \/ CommandWithoutEffect PROVE Roles'
  <2>1. UNCHANGED <<pcb, current_process, ended, should_shutdown>>
        /\ (Goto("loadR3", 1) \/ Goto("comhand_end", 0))
    BY <1>18 DEF LoadR3Command, CommandWithoutEffect, memVars, schedVars, comhandVars
  <2>2. EndedByShutdown'
    BY <2>1 DEF Roles, EndedByShutdown
  <2>. QED  BY <1>6, <1>7, <2>1, <2>2
<1>. QED  BY <1>8, <1>11, <1>12, <1>13, <1>14, <1>15, <1>16, <1>17, <1>18 DEF ReadCommand

LEMMA CpuStepKeepsRoles ==
    ASSUME Inv, Roles, CpuStep
    PROVE  Roles'
<1>1. On
  BY DEF CpuStep, KmainLoadComhand, KmainLoadIdle, KmainYield, KmainHalt, ComhandEnd, LoadR3Step,
         SysIdleProcess, R3Iteration, R3Exit, AlarmStart, AlarmPoll, AlarmFire, At, On
<1>2. /\ pcb \in Seq(PCB) /\ Len(pcb) \in Nat /\ DOMAIN pcb = 1..Len(pcb) /\ cpu \in Contexts
      /\ Booted
  BY <1>1, LenProperties DEF Inv, TypeOK, Roles
\* kmain's loads.
<1>3. ASSUME NEW name, NEW class, NEW priority, NEW eip, NEW start,
             Load(name, class, priority, start, 0), MayRun(Len(pcb) + 1, start),
             class = SYSTEM_PROCESS, Len(pcb) + 1 \in {Handler, IdleProc},
             name = "Comhand" => Len(pcb) + 1 = Handler,
             Goto(eip, 0), eip \in BootLabel,
             eip = "kmain_idle_proc" => Len(pcb) = 0,
             eip = "kmain_yield" => Len(pcb) = 1, eip # "kmain_comhand",
             UNCHANGED <<schedVars, ended, comhandVars>>
      PROVE  Roles'
  <2>1. cpu'.eip = eip
    BY <1>2, <1>3 DEF Goto, Contexts
  <2>2. /\ PcbRoles(pcb') /\ Len(pcb') \in Nat
        /\ Len(pcb') = IF machine' = "on" THEN Len(pcb) + 1 ELSE Len(pcb')
    BY <1>1, <1>3, LoadKeepsRoles
  <2>3. CpuRole' /\ Halting'
    BY <1>3, <2>1 DEF CpuRole, Halting, BootLabel
  <2>4. On' => Booted'
    BY <1>2, <1>3, <2>1, <2>2 DEF On, Booted, BootLabel
  <2>5. EndedByShutdown'
    BY <1>3 DEF Roles, EndedByShutdown, comhandVars
  <2>. QED  BY <2>2, <2>3, <2>4, <2>5 DEF Roles
<1>4. ASSUME KmainLoadComhand PROVE Roles'
  <2>1. cpu.eip = "kmain_comhand" /\ Len(pcb) + 1 = Handler
    BY <1>2, <1>4 DEF KmainLoadComhand, At, Booted, Handler
  <2>2. MayRun(Len(pcb) + 1, "comhand")
    BY <2>1 DEF MayRun, Handler, IdleProc, HandlerLabel
  <2>3. /\ Load("Comhand", SYSTEM_PROCESS, 0, "comhand", 0) /\ Goto("kmain_idle_proc", 0)
        /\ UNCHANGED <<schedVars, ended, comhandVars>>
    BY <1>4 DEF KmainLoadComhand
  <2>. QED  BY <1>2, <1>3, <2>1, <2>2, <2>3 DEF BootLabel, Handler
<1>5. ASSUME KmainLoadIdle PROVE Roles'
  <2>1. cpu.eip = "kmain_idle_proc" /\ Len(pcb) + 1 = IdleProc
    <3>1. cpu.eip = "kmain_idle_proc" /\ Len(pcb) = 1
      BY <1>2, <1>5 DEF KmainLoadIdle, At, Booted
    <3>. QED  BY <3>1 DEF IdleProc
  <2>2. MayRun(Len(pcb) + 1, "sys_idle")
    BY <2>1 DEF MayRun, Handler, IdleProc, HandlerLabel
  <2>3. /\ Load("Sys_i", SYSTEM_PROCESS, 9, "sys_idle", 0) /\ Goto("kmain_yield", 0)
        /\ UNCHANGED <<schedVars, ended, comhandVars>>
    BY <1>5 DEF KmainLoadIdle
  <2>. QED  BY <1>2, <1>3, <2>1, <2>2, <2>3 DEF BootLabel, IdleProc
<1>6. ASSUME KmainYield PROVE Roles'
  <2>. DEFINE ctx == [cpu EXCEPT !.eip = "kmain_halt"]
  <2>1. /\ SysIdle(ctx) /\ cpu.eip = "kmain_yield" /\ current_process = NULL
        /\ UNCHANGED should_shutdown
    BY <1>6 DEF KmainYield, At, Inv, ContextsOK, BootLabel, comhandVars
  <2>2. ctx \in Contexts /\ ctx.eip = "kmain_halt"
    BY <1>2 DEF Contexts, Label
  <2>. HIDE DEF ctx
  <2>. QED  BY <1>1, <2>1, <2>2, IdleKeepsRoles
<1>7. ASSUME KmainHalt PROVE Roles'
  BY <1>7 DEF KmainHalt, schedVars, comhandVars, Roles, CpuRole, On, EndedByShutdown, Halting
<1>8. ASSUME NEW ctx \in Contexts, SysIdle(ctx), UNCHANGED comhandVars,
             cpu.eip \in ProcessLabel,
             \/ ctx.eip = cpu.eip
             \/ cpu.eip \in HandlerLabel /\ ctx.eip = "comhand"
      PROVE  Roles'
  <2>1. MayRun(current_process, cpu.eip) /\ cpu.eip \notin BootLabel /\ cpu.eip # "kmain_halt"
    BY <1>8 DEF Roles, CpuRole, ProcessLabel, BootLabel
  <2>2. MayRun(current_process, ctx.eip) /\ ctx.eip \in ProcessLabel
    BY <1>8, <2>1 DEF MayRun, HandlerLabel, ProcessLabel
  <2>. QED  BY <1>1, <1>8, <2>1, <2>2, IdleKeepsRoles DEF BootLabel, comhandVars
<1>9. ASSUME ComhandEnd PROVE Roles'
  <2>. DEFINE ctx == [cpu EXCEPT !.eip = "comhand"]
  <2>1. ctx \in Contexts /\ ctx.eip = "comhand" /\ UNCHANGED comhandVars
    BY <1>2, <1>9 DEF ComhandEnd, Contexts, Label
  <2>2. /\ cpu.eip = "comhand_end" /\ cpu.eip \in ProcessLabel \ {"sys_idle"}
        /\ cpu.eip \in HandlerLabel
    BY <1>9 DEF ComhandEnd, At, ProcessLabel, HandlerLabel
  <2>3. (SysExit /\ should_shutdown) \/ SysIdle(ctx)
    BY <1>9 DEF ComhandEnd
  <2>. HIDE DEF ctx
  <2>. QED  BY <1>1, <1>8, <2>1, <2>2, <2>3, ExitKeepsRoles DEF comhandVars
<1>10. ASSUME LoadR3Step PROVE Roles'
  <2>. DEFINE i == cpu.i
  <2>1. /\ cpu.eip = "loadR3" /\ i \in DOMAIN R3Procs
        /\ Load(R3Procs[i].name, USER_APP, 3, "r3", R3Procs[i].iterations)
        /\ Goto("comhand_end", 0) \/ Goto("loadR3", i + 1)
        /\ UNCHANGED <<schedVars, ended, comhandVars>>
    BY <1>10 DEF LoadR3Step, At, Inv, ContextsOK
  <2>2. /\ MayRun(Len(pcb) + 1, "r3") /\ Len(pcb) + 1 \notin {Handler, IdleProc}
        /\ USER_APP # SYSTEM_PROCESS
    BY <1>2, <2>1 DEF MayRun, Booted, Handler, IdleProc, HandlerLabel, USER_APP, SYSTEM_PROCESS
  <2>3. R3Procs[i].name # "Comhand"
    BY <2>1, R3Assumption
  <2>4. PcbRoles(pcb') /\ Len(pcb') \in Nat /\ Len(pcb') >= Len(pcb)
    BY <1>1, <2>1, <2>2, <2>3, LoadKeepsRoles
  <2>5. EndedByShutdown' /\ UNCHANGED current_process
    BY <2>1 DEF Roles, EndedByShutdown, schedVars, comhandVars
  <2>6. /\ "comhand_end" \in HandlerLabel /\ "loadR3" \in HandlerLabel
    BY DEF HandlerLabel
  <2>. QED  BY <1>1, <2>1, <2>4, <2>5, <2>6, QuietKeepsRoles
<1>11. ASSUME SysIdleProcess \/ AlarmPoll PROVE Roles'
  <2>1. SysIdle(cpu) /\ UNCHANGED comhandVars /\ cpu.eip \in ProcessLabel
    BY <1>11 DEF SysIdleProcess, AlarmPoll, At, ProcessLabel
  <2>. QED  BY <1>2, <1>8, <2>1
<1>12. ASSUME R3Iteration PROVE Roles'
  <2>. DEFINE ctx == [cpu EXCEPT !.i = @ - 1]
  <2>1. SysIdle(ctx) /\ UNCHANGED comhandVars /\ cpu.eip = "r3" /\ cpu.i > 0
    BY <1>12 DEF R3Iteration, At
  <2>2. ctx \in Contexts /\ ctx.eip = cpu.eip
    BY <1>2, <2>1 DEF Contexts
  <2>. HIDE DEF ctx
  <2>. QED  BY <1>8, <2>1, <2>2 DEF ProcessLabel
<1>13. ASSUME R3Exit \/ AlarmFire PROVE Roles'
  <2>1. /\ SysExit /\ UNCHANGED should_shutdown
        /\ cpu.eip \in ProcessLabel \ {"sys_idle"} /\ cpu.eip \notin HandlerLabel
    BY <1>13 DEF R3Exit, AlarmFire, At, ProcessLabel, HandlerLabel, comhandVars
  <2>. QED  BY <1>1, <2>1, ExitKeepsRoles
<1>14. ASSUME AlarmStart PROVE Roles'
  <2>1. /\ cpu.eip = "alarm" /\ Goto("alarm_wait", global_time)
        /\ UNCHANGED <<pcb, current_process, ended, should_shutdown>>
    BY <1>14 DEF AlarmStart, At, memVars, schedVars
  <2>2. EndedByShutdown' /\ PcbRoles(pcb') /\ Len(pcb') >= Len(pcb) /\ Len(pcb') \in Nat
    BY <1>2, <2>1 DEF Roles, EndedByShutdown
  <2>. QED  BY <1>1, <2>1, <2>2, QuietKeepsRoles
<1>. QED  BY <1>4, <1>5, <1>6, <1>7, <1>9, <1>10, <1>11, <1>12, <1>13, <1>14 DEF CpuStep

\* Who runs what, in every state the system can be in.
THEOREM RolesAreKept == Spec => [](Inv /\ Roles)
<1>1. Init => Roles
  <2>. SUFFICES ASSUME Init PROVE Roles
    OBVIOUS
  <2>1. pcb = << >> /\ Len(pcb) = 0 /\ DOMAIN pcb = {} /\ cpu.eip = "kmain_comhand" /\ ended = {}
    BY DEF Init, KernelInit, Context
  <2>. QED  BY <2>1 DEF Roles, PcbRoles, CpuRole, BootLabel, Booted, EndedByShutdown, Halting
<1>2. ASSUME Inv, Roles, [Next]_vars PROVE Roles'
  <2>1. CASE UNCHANGED vars
    BY <1>2, <2>1 DEF Roles, CpuRole, On, Booted, EndedByShutdown, Halting,
                      vars, kernelVars, memVars, schedVars, comhandVars
  <2>. QED  BY <1>2, <2>1, ReadCommandKeepsRoles, CpuStepKeepsRoles DEF Next, Stopped
<1>. QED  BY <1>1, <1>2, Invariance, PTL DEF Spec

\* The commands that accept the name of a system process (resumepcb, unblockpcb,
\* setpcbprio) leave it where it can be dispatched, and the others refuse it: the
\* command handler and the idle process run or are ready until a shutdown.
THEOREM SystemProcessesAreKept == Spec => []SystemProcessesStay
<1>1. ASSUME Inv, Roles PROVE SystemProcessesStay
  <2>1. SUFFICES ASSUME On, NEW p \in Pcbs, pcb[p].process_class = SYSTEM_PROCESS
                 PROVE  \/ p = current_process
                        \/ p \in Range(queue["ready"])
                        \/ p \in ended /\ should_shutdown
    BY DEF SystemProcessesStay
  <2>2. p \in {Handler, IdleProc}
    BY <1>1, <2>1 DEF Roles, PcbRoles, Pcbs
  <2>3. p \in ended => should_shutdown
    BY <1>1, <2>2 DEF Roles, EndedByShutdown
  <2>. QED  BY <1>1, <2>1, <2>2, <2>3, SystemIsReady
<1>. QED  BY <1>1, RolesAreKept, PTL

\* kmain gets the CPU back from sys_call, and returns to the code that powers the
\* machine off, only after a confirmed shutdown, with the command handler ended
\* and nothing ready, if no program of loadR3 has the command handler's name.
THEOREM PowerOffIsAsked == Spec => []StopsOnlyAfterShutdown
<1>1. ASSUME Inv, Roles PROVE StopsOnlyAfterShutdown
  <2>1. SUFFICES ASSUME cpu.eip = "kmain_halt"
                 PROVE  /\ should_shutdown
                        /\ queue["ready"] = << >>
                        /\ \A p \in Pcbs : pcb[p].process_name = "Comhand" => p \in ended
    BY DEF StopsOnlyAfterShutdown
  <2>2. Handler \in ended /\ queue["ready"] = << >>
    BY <1>1, <2>1 DEF Roles, Halting
  <2>3. \A p \in Pcbs : pcb[p].process_name = "Comhand" => p = Handler
    BY <1>1 DEF Roles, PcbRoles, Pcbs
  <2>. QED  BY <1>1, <2>2, <2>3 DEF Roles, EndedByShutdown
<1>. QED  BY <1>1, RolesAreKept, PTL

----------------------------------------------------------------------------
(***************************************************************************)
(* Mpx implements ProcessTable, for every heap, every list of programs and *)
(* every sequence of commands, and system calls do not fault.              *)
(***************************************************************************)

(***************************************************************************)
(* Beside Inv and Roles it takes that the process that runs would be filed *)
(* as ready: it came off the ready queue, and no command finds it to       *)
(* change its state fields.  So IDLE never makes a process wait.           *)
(***************************************************************************)
RunsReady == On /\ current_process # NULL => QueueOf(pcb[current_process]) = "ready"

TableStep == [Table!Next]_<<TableStatus, TablePhase>>

Keeps == RunsReady' /\ TableStep

----------------------------------------------------------------------------
(***************************************************************************)
(* The kinds of step.                                                      *)
(***************************************************************************)

\* What a state of the table that is not a panic looks like.
LEMMA TableOf ==
    ASSUME TablePhase # "panic"
    PROVE  TableStatus = [p \in Pcbs |-> StatusOf(p)]
BY DEF TableStatus

\* A step that shows in no status.
LEMMA QuietStep ==
    ASSUME RunsReady, On, UNCHANGED <<pcb, ended, current_process>>, TablePhase' = TablePhase
    PROVE  Keeps
<1>1. \A p \in Pcbs : StatusOf(p)' = StatusOf(p)
  BY DEF StatusOf, QueueOf
<1>2. TableStatus' = TableStatus
  BY <1>1 DEF TableStatus, Pcbs
<1>3. RunsReady'
  BY DEF RunsReady
<1>. QED  BY <1>2, <1>3 DEF Keeps, TableStep

\* A panic.
LEMMA PanicStep ==
    ASSUME TablePhase \in {"boot", "on"}, machine' \in {"heap_full", "page_fault"}
    PROVE  Keeps
<1>1. TablePhase' = "panic" /\ TableStatus' = << >>
  BY DEF TablePhase, TableStatus
<1>2. Table!Panic
  BY <1>1 DEF Table!Panic
<1>3. RunsReady'
  BY DEF RunsReady, On
<1>. QED  BY <1>2, <1>3 DEF Keeps, TableStep, Table!Next

\* The phase while the machine runs.
LEMMA PhaseIs ==
    ASSUME On, cpu.eip # "kmain_halt"
    PROVE  TablePhase = IF current_process = NULL THEN "boot" ELSE "on"
BY DEF TablePhase, On

\* load() adds a process that is ready.
LEMMA LoadStep ==
    ASSUME Inv, RunsReady, On, cpu.eip # "kmain_halt", cpu'.eip # "kmain_halt",
           NEW name, NEW class, NEW priority, NEW eip, NEW i,
           Load(name, class, priority, eip, i), UNCHANGED <<ended, current_process>>
    PROVE  Keeps
<1>0. PICK n : n = Len(pcb) + 1
  OBVIOUS
<1>. DEFINE rec == [process_name |-> name, process_class |-> class,
                    process_priority |-> priority, execution_state |-> READY,
                    dispatching_state |-> NOT_SUSPENDED, stack_ptr |-> Context(Len(pcb) + 1, eip, i)]
<1>1. TablePhase \in {"boot", "on"}
  BY PhaseIs
<1>2. /\ pcb \in Seq(PCB) /\ Len(pcb) \in Nat /\ Pcbs = 1..Len(pcb)
      /\ ended \subseteq Pcbs /\ current_process \in Pcbs \union {NULL}
  BY LenProperties DEF Inv, TypeOK, Pcbs
<1>3. machine' \in {"on", "heap_full", "page_fault"} /\ (machine' = "on" => pcb' = Append(pcb, rec))
  BY DEF Load, NewPcb, PcbInsert, CreateQueue, WalkEmptyFifo, LinkIn, On
<1>4. QueueOf(rec) = "ready"
  BY DEF QueueOf, READY, BLOCKED, NOT_SUSPENDED, SUSPENDED
<1>. HIDE DEF rec
<1>5. CASE machine' = "on"
  <2>1. /\ Pcbs' = 1..n /\ pcb'[n] = rec
        /\ \A p \in Pcbs : pcb'[p] = pcb[p]
    BY <1>0, <1>2, <1>3, <1>5, AppendProperties DEF Pcbs
  <2>2. TablePhase' = TablePhase
    BY <1>5 DEF TablePhase, On
  <2>3. \A p \in Pcbs : StatusOf(p)' = StatusOf(p)
    BY <2>1, <2>2 DEF StatusOf
  <2>4. StatusOf(n)' = "ready"
    BY <1>0, <1>2, <1>4, <2>1 DEF StatusOf, NULL
  <2>5. TableStatus = [p \in 1..Len(pcb) |-> StatusOf(p)]
    BY <1>1, <1>2 DEF TableStatus
  <2>6. TableStatus' = [p \in 1..n |-> IF p = n THEN "ready" ELSE StatusOf(p)]
    <3>1. TableStatus' = [p \in 1..n |-> StatusOf(p)']
      BY <1>1, <2>1, <2>2 DEF TableStatus
    <3>2. \A p \in 1..n : p = n \/ p \in Pcbs
      BY <1>0, <1>2
    <3>. QED  BY <2>3, <2>4, <3>1, <3>2
  <2>7. TableStatus' = Append(TableStatus, "ready")
    BY <1>0, <1>2, <2>5, <2>6
  <2>8. Table!Load
    BY <1>1, <2>2, <2>7 DEF Table!Load
  <2>9. RunsReady'
    BY <1>2, <1>5, <2>1 DEF RunsReady, On
  <2>. QED  BY <2>8, <2>9 DEF Keeps, TableStep, Table!Next
<1>6. CASE machine' # "on"
  BY <1>1, <1>3, <1>6, PanicStep
<1>. QED  BY <1>5, <1>6

\* A command of the running process changes another one, or ends it.
LEMMA CommandStep ==
    ASSUME Inv, RunsReady, On, On', cpu.eip # "kmain_halt", cpu'.eip # "kmain_halt",
           current_process # NULL, UNCHANGED current_process,
           NEW p \in Queued, p \in Pcbs, Pcbs' = Pcbs,
           \A r \in Pcbs \ {p} : pcb'[r] = pcb[r] /\ (r \in ended' <=> r \in ended)
    PROVE  Keeps
<1>1. TablePhase = "on" /\ TablePhase' = "on"
  BY DEF TablePhase, On
<1>2. /\ current_process \in Pcbs /\ p # current_process /\ p \notin ended
      /\ current_process \notin ended
  BY DEF Inv, TypeOK, Exclusive
<1>3. \A r \in Pcbs \ {p} : StatusOf(r)' = StatusOf(r)
  BY <1>1 DEF StatusOf
<1>4. StatusOf(p)' \in {"ready", "waiting", "ended"}
  BY <1>2 DEF StatusOf
<1>5. /\ TableStatus = [r \in Pcbs |-> StatusOf(r)]
      /\ TableStatus' = [r \in Pcbs |-> StatusOf(r)']
  BY <1>1 DEF TableStatus
<1>6. TableStatus' = [TableStatus EXCEPT ![p] = StatusOf(p)']
  BY <1>3, <1>5
<1>7. StatusOf(current_process) = "running" /\ StatusOf(p) # "ended"
  BY <1>1, <1>2 DEF StatusOf
<1>8. Table!Command(current_process, p) /\ p \in Table!Process /\ current_process \in Table!Process
  BY <1>1, <1>2, <1>4, <1>5, <1>6, <1>7 DEF Table!Command, Table!Running, Table!Process
<1>9. RunsReady'
  BY <1>2 DEF RunsReady
<1>. QED  BY <1>8, <1>9 DEF Keeps, TableStep, Table!Next

\* What is ready in the table is what is on the ready queue.
LEMMA ReadyIsQueued ==
    ASSUME Inv, On, cpu.eip # "kmain_halt", NEW p \in Pcbs, p # current_process
    PROVE  StatusOf(p) = "ready" <=> p \in Range(queue["ready"])
<1>1. p \in ended <=> p \notin Queued
  BY DEF Inv, Exclusive, NoneMissing
<1>2. p \in Range(queue["ready"]) => p \in Queued /\ QueueOf(pcb[p]) = "ready"
  BY DEF Inv, FiledByState, Filed, Queued, OnQueues, QueueName
<1>3. p \in Queued /\ QueueOf(pcb[p]) = "ready" => p \in Range(queue["ready"])
  BY DEF Inv, FiledByState, Filed, Queued, OnQueues
<1>. QED  BY <1>1, <1>2, <1>3 DEF StatusOf

\* The CPU goes from one process to another.
LEMMA SwitchStep ==
    ASSUME Inv, Inv', RunsReady, On, On', cpu.eip # "kmain_halt", cpu'.eip # "kmain_halt",
           NEW next \in Range(queue["ready"]), current_process' = next,
           Pcbs' = Pcbs, \A p \in Pcbs : QueueOf(pcb'[p]) = QueueOf(pcb[p]),
           \/ ended' = ended
           \/ current_process # NULL /\ ended' = ended \union {current_process}
    PROVE  Keeps
<1>0. PICK cur : cur = current_process
  OBVIOUS
<1>1. next \in Pcbs /\ next # cur /\ next \notin ended /\ next # NULL
  <2>1. next \in Queued /\ next \in Pcbs
    BY RangeOfSeq DEF Inv, TypeOK, Queued, OnQueues, QueueName
  <2>2. NULL \notin Pcbs
    BY LenProperties DEF Inv, TypeOK, Pcbs, NULL
  <2>. QED  BY <1>0, <2>1, <2>2 DEF Inv, Exclusive
<1>2. QueueOf(pcb[next]) = "ready"
  BY DEF Inv, FiledByState, Filed, QueueName
<1>3. TablePhase' = "on" /\ StatusOf(next) = "ready" /\ next \notin ended'
  BY <1>0, <1>1, ReadyIsQueued DEF TablePhase, On
<1>4. TablePhase \in {"boot", "on"}
  BY PhaseIs
<1>5. /\ TableStatus = [p \in Pcbs |-> StatusOf(p)]
      /\ TableStatus' = [p \in Pcbs |-> StatusOf(p)']
  BY <1>3, <1>4 DEF TableStatus
<1>6. \A p \in Pcbs \ {cur, next} : StatusOf(p)' = StatusOf(p)
  BY <1>0 DEF StatusOf
<1>7. StatusOf(next)' = "running"
  BY <1>3 DEF StatusOf
<1>8. RunsReady'
  BY <1>1, <1>2 DEF RunsReady
<1>9. CASE cur = NULL
  <2>1. TablePhase = "boot" /\ cur \notin Pcbs
    BY <1>0, <1>9, PhaseIs, LenProperties DEF Inv, TypeOK, Pcbs, NULL
  <2>2. TableStatus' = [TableStatus EXCEPT ![next] = "running"]
    BY <1>5, <1>6, <1>7, <2>1
  <2>3. Table!Start(next) /\ next \in Table!Process
    BY <1>1, <1>3, <1>5, <2>1, <2>2 DEF Table!Start, Table!Ready, Table!Process
  <2>. QED  BY <1>8, <2>3 DEF Keeps, TableStep, Table!Next
<1>10. CASE cur # NULL
  <2>1. TablePhase = "on" /\ cur \in Pcbs /\ cur \notin ended
    BY <1>0, <1>10, PhaseIs DEF Inv, TypeOK, Exclusive
  <2>2. StatusOf(cur) = "running"
    BY <1>0, <2>1 DEF StatusOf
  <2>3. StatusOf(cur)' \in {"ready", "ended"}
    BY <1>0, <1>1, <1>10, <2>1 DEF RunsReady, StatusOf
  <2>4. TableStatus' = [TableStatus EXCEPT ![cur] = StatusOf(cur)', ![next] = "running"]
    BY <1>1, <1>5, <1>6, <1>7, <2>1
  <2>5. /\ Table!Switch(cur, next)
        /\ cur \in Table!Process /\ next \in Table!Process
    BY <1>1, <1>3, <1>5, <2>1, <2>2, <2>3, <2>4
       DEF Table!Switch, Table!Running, Table!Ready, Table!Process
  <2>. QED  BY <1>8, <2>5 DEF Keeps, TableStep, Table!Next
<1>. QED  BY <1>9, <1>10

\* The CPU goes back to kmain: the last process gave it up and none was ready.
LEMMA StopStep ==
    ASSUME Inv, RunsReady, On, On', cpu.eip # "kmain_halt", cpu'.eip = "kmain_halt",
           queue["ready"] = << >>, current_process # NULL, UNCHANGED <<current_process, ended>>,
           Pcbs' = Pcbs, \A p \in Pcbs : QueueOf(pcb'[p]) = QueueOf(pcb[p])
    PROVE  Keeps
<1>. DEFINE cur == current_process
<1>1. TablePhase = "on" /\ TablePhase' = "ending"
  BY PhaseIs DEF TablePhase, On
<1>2. cur \in Pcbs /\ cur \notin ended /\ StatusOf(cur) = "running"
  BY <1>1 DEF Inv, TypeOK, Exclusive, StatusOf
<1>3. /\ TableStatus = [p \in Pcbs |-> StatusOf(p)]
      /\ TableStatus' = [p \in Pcbs |-> StatusOf(p)']
  BY <1>1 DEF TableStatus
<1>4. \A p \in Pcbs : StatusOf(p) # "ready"
  <2>1. Range(queue["ready"]) = {}
    BY DEF Range
  <2>. QED  BY <1>2, <2>1, ReadyIsQueued
<1>5. \A p \in Pcbs \ {cur} : StatusOf(p)' = StatusOf(p)
  BY DEF StatusOf
<1>6. StatusOf(cur)' = "ready"
  BY <1>1, <1>2 DEF RunsReady, StatusOf
<1>7. TableStatus' = [TableStatus EXCEPT ![cur] = "ready"]
  BY <1>2, <1>3, <1>5, <1>6
<1>8. Table!Stop(cur) /\ cur \in Table!Process
  BY <1>1, <1>2, <1>3, <1>4, <1>7 DEF Table!Stop, Table!Running, Table!Ready, Table!Process
<1>9. RunsReady'
  BY <1>2 DEF RunsReady
<1>. QED  BY <1>8, <1>9 DEF Keeps, TableStep, Table!Next

----------------------------------------------------------------------------
(***************************************************************************)
(* The system calls.                                                       *)
(***************************************************************************)

\* IDLE passes the CPU on, or back to kmain.
LEMMA IdleStep ==
    ASSUME Inv, Inv', Roles, RunsReady, On, NEW ctx, SysIdle(ctx), cpu.eip # "kmain_halt",
           cpu.eip \notin {"kmain_comhand", "kmain_idle_proc"}
    PROVE  Keeps
<1>0. PICK cur : cur = current_process
  OBVIOUS
<1>. DEFINE ps  == IF cur = NULL THEN pcb
                   ELSE [pcb EXCEPT ![cur].execution_state = READY, ![cur].stack_ptr = ctx]
            ic  == IF initial_context = NoContext THEN ctx ELSE initial_context
            flag == insert_flag \/ cur # NULL
<1>1. Dispatch(queue, ps, cur, flag, ic, freed) /\ ended' = ended
  BY <1>0 DEF SysIdle
<1>2. /\ DOMAIN ps = Pcbs
      /\ \A p \in Pcbs \ {cur} : ps[p] = pcb[p]
      /\ \A p \in Pcbs : QueueOf(ps[p]) = QueueOf(pcb[p])
  <2>1. \A p \in Pcbs : pcb[p] \in PCB
    BY ElementOfSeq, LenProperties DEF Inv, TypeOK, Pcbs
  <2>2. CASE cur = NULL
    BY <2>2 DEF Pcbs
  <2>3. CASE cur # NULL
    <3>1. cur \in Pcbs /\ QueueOf(pcb[cur]) = "ready"
      BY <1>0, <2>3 DEF Inv, TypeOK, RunsReady
    <3>2. /\ DOMAIN ps = Pcbs
          /\ \A p \in Pcbs \ {cur} : ps[p] = pcb[p]
          /\ ps[cur].execution_state = READY
          /\ ps[cur].dispatching_state = pcb[cur].dispatching_state
      BY <2>1, <2>3, <3>1 DEF PCB, Pcbs
    <3>3. QueueOf(ps[cur]) = "ready"
      BY <2>1, <3>1, <3>2 DEF QueueOf, PCB, READY, BLOCKED, NOT_SUSPENDED, SUSPENDED
    <3>. QED  BY <3>1, <3>2, <3>3
  <2>. QED  BY <2>2, <2>3
<1>3. TablePhase \in {"boot", "on"}
  BY PhaseIs
<1>. HIDE DEF ps, flag
<1>4. CASE queue["ready"] # << >>
  <2>. DEFINE next == Head(queue["ready"])
  <2>1. PICK p : p = next
    OBVIOUS
  <2>2. /\ pcb' = ps
        /\ current_process' = next
        /\ cpu' = ps[next].stack_ptr
        /\ machine' \in {machine, "heap_full", "page_fault"}
    BY <1>1, <1>4 DEF Dispatch, PcbInsert, CreateQueue, WalkEmptyFifo, LinkIn
  <2>3. p \in Range(queue["ready"]) /\ p \in Pcbs /\ p # cur
    <3>1. "ready" \in QueueName /\ queue["ready"] \in Seq(Pcbs)
      BY DEF QueueName, Inv, TypeOK
    <3>2. p \in Range(queue["ready"]) /\ p \in Pcbs
      BY <1>4, <2>1, <3>1, EmptySeq, LenProperties, HeadTailProperties DEF Range
    <3>. QED  BY <1>0, <3>1, <3>2 DEF Inv, Exclusive, Queued, OnQueues
  <2>. HIDE DEF next
  <2>4. cpu'.eip # "kmain_halt"
    BY <1>2, <2>1, <2>2, <2>3 DEF Inv, ContextsOK, SavedContextsResume, ProcessLabel, Pcbs
  <2>5. CASE On'
    BY <1>1, <1>2, <2>1, <2>2, <2>3, <2>4, <2>5, SwitchStep DEF Pcbs
  <2>6. CASE ~ On'
    BY <1>3, <2>2, <2>6, PanicStep DEF On
  <2>. QED  BY <2>5, <2>6
<1>5. CASE queue["ready"] = << >>
  <2>1. cur # NULL /\ cpu.eip \notin BootLabel
    BY <1>0, <1>5, NothingReady DEF Roles, Booted, IdleProc, NULL, Inv, ContextsOK
  <2>2. ic.eip = "kmain_halt"
    BY <2>1 DEF Inv, ContextsOK
  <2>. HIDE DEF ic
  <2>3. pcb' = ps /\ cpu' = ic /\ UNCHANGED <<machine, current_process>>
    BY <1>0, <1>1, <1>5 DEF Dispatch
  <2>. QED  BY <1>0, <1>1, <1>2, <1>5, <2>1, <2>2, <2>3, StopStep DEF On, Pcbs
<1>. QED  BY <1>4, <1>5

\* EXIT ends the caller and passes the CPU on.
LEMMA ExitStep ==
    ASSUME Inv, Inv', Roles, RunsReady, On, SysExit, cpu.eip \in ProcessLabel \ {"sys_idle"}
    PROVE  Keeps
<1>. DEFINE qs == PcbRemove(queue, current_process)
            fr == freed \union ({current_process} \ {NULL})
<1>1. /\ Dispatch(qs, pcb, NULL, insert_flag, initial_context, fr)
      /\ ended' = ended \union ({current_process} \ {NULL})
  BY DEF SysExit
<1>2. qs \in [QueueName -> Seq(Pcbs)] /\ qs["ready"] # << >>
  BY ExitLeavesIdle DEF Pcbs
<1>3. "ready" \in QueueName /\ Range(qs["ready"]) \subseteq Range(queue["ready"])
  BY RemoveTakesOff DEF QueueName, Inv, TypeOK
<1>4. ~ insert_flag /\ cpu.eip # "kmain_halt"
  BY DEF ProcessLabel, Inv, ContextsOK
<1>. HIDE DEF qs, fr
<1>5. PICK next : next = Head(qs["ready"])
  OBVIOUS
<1>6. next \in Range(queue["ready"]) /\ next \in Pcbs
  BY <1>2, <1>3, <1>5, EmptySeq, LenProperties, HeadTailProperties DEF Range
<1>7. /\ current_process' = next
      /\ cpu' = pcb[next].stack_ptr
      /\ UNCHANGED <<pcb, machine>>
  BY <1>1, <1>2, <1>4, <1>5 DEF Dispatch
<1>8. cpu'.eip # "kmain_halt"
  BY <1>6, <1>7 DEF Inv, ContextsOK, SavedContextsResume, ProcessLabel, Pcbs
<1>. QED  BY <1>1, <1>4, <1>6, <1>7, <1>8, SwitchStep DEF On, Pcbs

----------------------------------------------------------------------------
(***************************************************************************)
(* The actions.                                                            *)
(***************************************************************************)

\* A step from one place to another of a process that has the CPU.
LEMMA GotoStep ==
    ASSUME Inv, RunsReady, On, cpu.eip # "kmain_halt", NEW eip, NEW i, Goto(eip, i),
           eip # "kmain_halt", UNCHANGED <<pcb, ended, current_process, machine>>
    PROVE  Keeps
<1>1. cpu'.eip = eip
  BY DEF Goto, Inv, TypeOK, Contexts
<1>2. TablePhase' = TablePhase
  BY <1>1 DEF TablePhase
<1>. QED  BY <1>2, QuietStep

\* A command that changes fields of a PCB, and may file it again.
LEMMA FieldStep ==
    ASSUME Inv, Roles, RunsReady, AtPrompt, NEW name, Named(name) # NULL, NEW rec,
           pcb' = [pcb EXCEPT ![Named(name)] = rec], Goto("comhand_end", 0),
           UNCHANGED <<current_process, ended>>,
           machine' \in {machine, "heap_full", "page_fault"}
    PROVE  Keeps
<1>1. PICK p : p = Named(name)
  OBVIOUS
<1>2. p \in Queued /\ p \in Pcbs
  BY <1>1, NamedIsQueued
<1>3. On /\ cpu.eip = "comhand" /\ current_process = Handler
  BY DEF AtPrompt, At, On, Roles, CpuRole, MayRun, BootLabel, HandlerLabel
<1>4. cpu'.eip = "comhand_end"
  BY DEF Goto, Inv, TypeOK, Contexts
<1>5. Pcbs' = Pcbs /\ \A r \in Pcbs \ {p} : pcb'[r] = pcb[r]
  BY <1>1, <1>2 DEF Pcbs
<1>6. CASE On'
  BY <1>2, <1>3, <1>4, <1>5, <1>6, CommandStep DEF Handler, NULL
<1>7. CASE ~ On'
  BY <1>3, <1>7, PhaseIs, PanicStep DEF On
<1>. QED  BY <1>6, <1>7

LEMMA RefileStep ==
    ASSUME Inv, Roles, RunsReady, AtPrompt, NEW name, Named(name) # NULL, NEW rec,
           Refile(Named(name), rec)
    PROVE  Keeps
<1>1. /\ pcb' = [pcb EXCEPT ![Named(name)] = rec] /\ Goto("comhand_end", 0)
      /\ UNCHANGED <<current_process, ended>>
      /\ machine' \in {machine, "heap_full", "page_fault"}
  BY DEF Refile, PcbInsert, CreateQueue, WalkEmptyFifo, LinkIn, schedVars
<1>. QED  BY <1>1, FieldStep

LEMMA DeleteStep ==
    ASSUME Inv, Roles, RunsReady, NEW name, DeletePcb(name)
    PROVE  Keeps
<1>1. PICK p : p = Named(name)
  OBVIOUS
<1>2. /\ AtPrompt /\ Goto("comhand_end", 0) /\ p # NULL
      /\ ended' = ended \union {p}
      /\ UNCHANGED <<pcb, current_process, machine>>
  BY <1>1 DEF DeletePcb
<1>3. p \in Queued /\ p \in Pcbs
  BY <1>1, <1>2, NamedIsQueued
<1>4. On /\ cpu.eip = "comhand" /\ current_process = Handler
  BY <1>2 DEF AtPrompt, At, On, Roles, CpuRole, MayRun, BootLabel, HandlerLabel
<1>5. cpu'.eip = "comhand_end" /\ On'
  BY <1>2, <1>4 DEF Goto, Inv, TypeOK, Contexts, On
<1>. QED  BY <1>2, <1>3, <1>4, <1>5, CommandStep DEF Handler, NULL, Pcbs

LEMMA ReadCommandStep ==
    ASSUME Inv, Inv', Roles, RunsReady, ReadCommand
    PROVE  Keeps
<1>1. AtPrompt /\ On /\ cpu.eip = "comhand"
  BY DEF ReadCommand, DeletePcb, SuspendPcb, ResumePcb, BlockPcb, UnblockPcb, SetPcbPriority,
         ShutdownCommand, AlarmCommand, YieldCommand, LoadR3Command, CommandWithoutEffect,
         AtPrompt, At, On
<1>2. ASSUME NEW name \in ArgNames, DeletePcb(name) PROVE Keeps
  BY <1>2, DeleteStep
<1>3. ASSUME NEW name \in ArgNames, SuspendPcb(name) PROVE Keeps
  <2>1. CASE name # Missing
    BY <1>1, <1>3, <2>1, RefileStep DEF SuspendPcb
  <2>2. CASE name = Missing
    BY <1>1, <1>3, <2>2, PhaseIs, PanicStep DEF SuspendPcb
  <2>. QED  BY <2>1, <2>2
<1>4. ASSUME NEW name \in ArgNames, ResumePcb(name) \/ BlockPcb(name) \/ UnblockPcb(name)
      PROVE  Keeps
  BY <1>1, <1>4, RefileStep DEF ResumePcb, BlockPcb, UnblockPcb
<1>5. ASSUME NEW name \in ArgNames, NEW new \in PrioArgs, SetPcbPriority(name, new) PROVE Keeps
  <2>. DEFINE p == Named(name)
  <2>1. p # NULL
    BY <1>5 DEF SetPcbPriority
  <2>2. \/ Refile(p, [pcb[p] EXCEPT !.process_priority = new])
        \/ /\ pcb' = [pcb EXCEPT ![p].process_priority = new]
           /\ Goto("comhand_end", 0)
           /\ UNCHANGED <<machine, current_process, ended>>
    BY <1>5 DEF SetPcbPriority, schedVars
  <2>3. pcb' = [pcb EXCEPT ![p].process_priority = new] =>
           pcb' = [pcb EXCEPT ![p] = [pcb[p] EXCEPT !.process_priority = new]]
    OBVIOUS
  <2>. HIDE DEF p
  <2>. QED  BY <1>1, <2>1, <2>2, <2>3, RefileStep, FieldStep DEF p
<1>6. ASSUME NEW a \in AlarmArgs, AlarmCommand(a) PROVE Keeps
  <2>1. /\ Goto("comhand_end", 0) /\ UNCHANGED <<current_process, ended>>
        /\ Load("Alarm", USER_APP, 1, "alarm", 0) \/ UNCHANGED <<pcb, machine>>
    BY <1>6 DEF AlarmCommand, memVars, schedVars
  <2>2. cpu'.eip # "kmain_halt"
    BY <2>1 DEF Goto, Inv, TypeOK, Contexts
  <2>. QED  BY <1>1, <2>1, <2>2, LoadStep, GotoStep
<1>7. ASSUME YieldCommand PROVE Keeps
  BY <1>1, <1>7, IdleStep DEF YieldCommand
<1>8. ASSUME LoadR3Command \/ CommandWithoutEffect \/ \E yes \in BOOLEAN : ShutdownCommand(yes)
      PROVE  Keeps
  BY <1>1, <1>8, GotoStep
     DEF LoadR3Command, CommandWithoutEffect, ShutdownCommand, memVars, schedVars
<1>. QED  BY <1>2, <1>3, <1>4, <1>5, <1>6, <1>7, <1>8 DEF ReadCommand

LEMMA CpuStepStep ==
    ASSUME Inv, Inv', Roles, RunsReady, CpuStep
    PROVE  Keeps
<1>1. On
  BY DEF CpuStep, KmainLoadComhand, KmainLoadIdle, KmainYield, KmainHalt, ComhandEnd, LoadR3Step,
         SysIdleProcess, R3Iteration, R3Exit, AlarmStart, AlarmPoll, AlarmFire, At, On
<1>2. ASSUME KmainLoadComhand \/ KmainLoadIdle \/ LoadR3Step PROVE Keeps
  <2>1. \E name, class, priority, eip, i : Load(name, class, priority, eip, i)
    BY <1>2 DEF KmainLoadComhand, KmainLoadIdle, LoadR3Step
  <2>2. \E eip, i : eip # "kmain_halt" /\ Goto(eip, i)
    BY <1>2 DEF KmainLoadComhand, KmainLoadIdle, LoadR3Step
  <2>3. cpu.eip # "kmain_halt" /\ UNCHANGED <<ended, current_process>>
    BY <1>2 DEF KmainLoadComhand, KmainLoadIdle, LoadR3Step, At, schedVars
  <2>4. cpu'.eip # "kmain_halt"
    BY <2>2 DEF Goto, Inv, TypeOK, Contexts
  <2>. QED  BY <1>1, <2>1, <2>3, <2>4, LoadStep
<1>3. ASSUME KmainYield \/ SysIdleProcess \/ R3Iteration \/ AlarmPoll PROVE Keeps
  BY <1>1, <1>3, IdleStep DEF KmainYield, SysIdleProcess, R3Iteration, AlarmPoll, At
<1>4. ASSUME R3Exit \/ AlarmFire PROVE Keeps
  BY <1>1, <1>4, ExitStep DEF R3Exit, AlarmFire, At, ProcessLabel
<1>5. ASSUME ComhandEnd PROVE Keeps
  BY <1>1, <1>5, IdleStep, ExitStep DEF ComhandEnd, At, ProcessLabel
<1>6. ASSUME AlarmStart PROVE Keeps
  BY <1>1, <1>6, GotoStep DEF AlarmStart, At, memVars, schedVars
<1>7. ASSUME KmainHalt PROVE Keeps
  <2>1. /\ TablePhase = "ending" /\ TablePhase' = "off"
        /\ UNCHANGED <<pcb, ended, current_process>>
    BY <1>1, <1>7 DEF KmainHalt, At, TablePhase, On, schedVars
  <2>2. TableStatus' = TableStatus
    <3>1. \A p \in Pcbs : StatusOf(p)' = StatusOf(p)
      BY <2>1 DEF StatusOf
    <3>. QED  BY <2>1, <3>1 DEF TableStatus, Pcbs
  <2>3. Table!PowerOff
    BY <2>1, <2>2 DEF Table!PowerOff
  <2>4. RunsReady'
    BY <1>7 DEF KmainHalt, RunsReady, On
  <2>. QED  BY <2>3, <2>4 DEF Keeps, TableStep, Table!Next
<1>. QED  BY <1>2, <1>3, <1>4, <1>5, <1>6, <1>7 DEF CpuStep

LEMMA NextStep ==
    ASSUME Inv, Inv', Roles, RunsReady, [Next]_vars
    PROVE  Keeps
<1>1. CASE UNCHANGED vars
  <2>1. UNCHANGED <<pcb, ended, current_process, machine, cpu>>
    BY <1>1 DEF vars, kernelVars, memVars, schedVars
  <2>2. \A p \in Pcbs : StatusOf(p)' = StatusOf(p)
    BY <2>1 DEF StatusOf, TablePhase
  <2>3. TablePhase' = TablePhase /\ TableStatus' = TableStatus /\ RunsReady'
    BY <2>1, <2>2 DEF TablePhase, TableStatus, Pcbs, RunsReady, On
  <2>. QED  BY <2>3 DEF Keeps, TableStep
<1>. QED  BY <1>1, ReadCommandStep, CpuStepStep DEF Next, Stopped

----------------------------------------------------------------------------
\* The process that has the CPU is one that sys_call took off the ready queue,
\* and stays one: no command gets hold of it to suspend or to block it.
THEOREM RunningIsReady == Spec => []RunsReady
<1>1. Init => RunsReady
  BY DEF Init, KernelInit, RunsReady
<1>2. ASSUME Inv, Inv', Roles, RunsReady, [Next]_vars PROVE RunsReady'
  BY <1>2, NextStep DEF Keeps
<1>. QED  BY <1>1, <1>2, RolesAreKept, PTL DEF Spec

\* The kernel and the command handler keep the promises of ProcessTable: no
\* process is run that is suspended, blocked or has ended, never do two run, and
\* kmain gets the CPU back only when no process is left that is ready.
THEOREM ProcessTableIsImplemented == Spec => ImplementsProcessTable
<1>1. Init => Table!Init
  <2>. SUFFICES ASSUME Init PROVE Table!Init
    OBVIOUS
  <2>1. /\ pcb = << >> /\ DOMAIN pcb = {} /\ current_process = NULL /\ machine = "on"
        /\ cpu.eip = "kmain_comhand"
    BY DEF Init, KernelInit, Context
  <2>2. TablePhase = "boot"
    BY <2>1 DEF TablePhase
  <2>3. TableStatus = << >>
    BY <2>1, <2>2 DEF TableStatus, Pcbs
  <2>. QED  BY <2>2, <2>3 DEF Table!Init
<1>2. ASSUME Inv, Inv', Roles, RunsReady, [Next]_vars
      PROVE  [Table!Next]_<<TableStatus, TablePhase>>
  BY <1>2, NextStep DEF Keeps, TableStep
<1>. QED  BY <1>1, <1>2, RolesAreKept, RunningIsReady, PTL
          DEF Spec, ImplementsProcessTable, Table!Spec

----------------------------------------------------------------------------
(***************************************************************************)
(* Page faults.  pcb_insert faults on a FIFO queue that has been emptied.  *)
(* load() and sys_call call it too, but what they file is ready.           *)
(***************************************************************************)
LEMMA InsertFaults ==
    ASSUME On, NEW ps, NEW qs, NEW p, NEW heap, PcbInsert(qs, ps, p, heap),
           machine' = "page_fault"
    PROVE  LET n == QueueOf(ps[p])
           IN  n \in made \ PriorityQueue /\ qs[n] = << >> /\ queue' = qs /\ made' = made
BY DEF PcbInsert, CreateQueue, WalkEmptyFifo, LinkIn, On

LEMMA LoadDoesNotFault ==
    ASSUME Inv, On, NEW name, NEW class, NEW priority, NEW eip, NEW i,
           Load(name, class, priority, eip, i)
    PROVE  machine' # "page_fault"
<1>. DEFINE n   == Len(pcb) + 1
            rec == [process_name |-> name, process_class |-> class,
                    process_priority |-> priority, execution_state |-> READY,
                    dispatching_state |-> NOT_SUSPENDED, stack_ptr |-> Context(n, eip, i)]
<1>1. \/ machine' = "heap_full"
      \/ PcbInsert(queue, Append(pcb, rec), n, heap_addr + PcbSize)
  BY DEF Load, NewPcb
<1>2. QueueOf(rec) = "ready"
  BY DEF QueueOf, READY, BLOCKED, NOT_SUSPENDED, SUSPENDED
<1>. HIDE DEF rec
<1>3. Append(pcb, rec)[n] = rec
  BY AppendProperties, LenProperties DEF Inv, TypeOK
<1>. QED  BY <1>1, <1>2, <1>3, InsertFaults DEF PriorityQueue

LEMMA SystemCallDoesNotFault ==
    ASSUME Inv, RunsReady, On, cpu.eip # "kmain_halt", SysExit \/ \E ctx : SysIdle(ctx)
    PROVE  machine' # "page_fault"
<1>. DEFINE cur == current_process
<1>1. ~ insert_flag
  BY DEF Inv, ContextsOK
<1>2. ASSUME SysExit PROVE machine' # "page_fault"
  BY <1>1, <1>2 DEF SysExit, Dispatch, On
<1>3. ASSUME NEW ctx, SysIdle(ctx) PROVE machine' # "page_fault"
  <2>. DEFINE ps == IF cur = NULL THEN pcb
                    ELSE [pcb EXCEPT ![cur].execution_state = READY, ![cur].stack_ptr = ctx]
              ic == IF initial_context = NoContext THEN ctx ELSE initial_context
  <2>1. Dispatch(queue, ps, cur, cur # NULL, ic, freed)
    BY <1>1, <1>3 DEF SysIdle
  <2>2. cur # NULL => QueueOf(ps[cur]) = "ready"
    <3>1. SUFFICES ASSUME cur # NULL PROVE QueueOf(ps[cur]) = "ready"
      OBVIOUS
    <3>2. cur \in Pcbs /\ QueueOf(pcb[cur]) = "ready" /\ pcb[cur] \in PCB
      BY <3>1, ElementOfSeq, LenProperties DEF Inv, TypeOK, Pcbs, RunsReady
    <3>3. ps[cur].execution_state = READY
          /\ ps[cur].dispatching_state = pcb[cur].dispatching_state
      BY <3>1, <3>2 DEF Pcbs, PCB
    <3>. QED  BY <3>2, <3>3 DEF QueueOf, PCB, READY, BLOCKED, NOT_SUSPENDED, SUSPENDED
  <2>. HIDE DEF ps, ic, cur
  <2>3. \/ machine' = machine
        \/ cur # NULL /\ \E qs : PcbInsert(qs, ps, cur, heap_addr)
    BY <2>1 DEF Dispatch
  <2>. QED  BY <2>2, <2>3, InsertFaults DEF On, PriorityQueue
<1>. QED  BY <1>2, <1>3

LEMMA RefileFaults ==
    ASSUME Inv, AtPrompt, NEW name, Named(name) # NULL, NEW rec, Refile(Named(name), rec)
    PROVE  FaultsAreKnown'
<1>1. cpu'.eip = "comhand_end"
  BY DEF Refile, Goto, Inv, TypeOK, Contexts
<1>2. On /\ \E ps, qs, p, heap : PcbInsert(qs, ps, p, heap)
  BY DEF AtPrompt, At, On, Refile
<1>. QED  BY <1>1, <1>2, InsertFaults DEF FaultsAreKnown

\* Only suspendpcb without a name, and a command that files a PCB in a FIFO
\* queue that has been emptied, end in a page fault: no system call and no load
\* does.
THEOREM SystemCallsDoNotFault == Spec => []FaultsAreKnown
<1>1. Init => FaultsAreKnown
  BY DEF Init, KernelInit, FaultsAreKnown
<1>2. ASSUME Inv, RunsReady, FaultsAreKnown, [Next]_vars PROVE FaultsAreKnown'
  <2>1. CASE UNCHANGED vars
    BY <1>2, <2>1 DEF FaultsAreKnown, vars, kernelVars, memVars
  <2>2. ASSUME machine' # "page_fault" PROVE FaultsAreKnown'
    BY <2>2 DEF FaultsAreKnown
  <2>3. ASSUME On, UNCHANGED machine PROVE FaultsAreKnown'
    BY <2>2, <2>3 DEF On
  <2>4. CASE CpuStep
    <3>1. CASE KmainLoadComhand \/ KmainLoadIdle \/ LoadR3Step
      BY <1>2, <2>2, <3>1, LoadDoesNotFault DEF KmainLoadComhand, KmainLoadIdle, LoadR3Step, At, On
    <3>2. CASE KmainYield \/ SysIdleProcess \/ R3Iteration \/ AlarmPoll \/ ComhandEnd \/ R3Exit
               \/ AlarmFire
      BY <1>2, <2>2, <3>2, SystemCallDoesNotFault
         DEF KmainYield, SysIdleProcess, R3Iteration, AlarmPoll, ComhandEnd, R3Exit, AlarmFire, At, On
    <3>3. CASE KmainHalt \/ AlarmStart
      BY <2>2, <2>3, <3>3 DEF KmainHalt, AlarmStart, At, On, memVars
    <3>. QED  BY <2>4, <3>1, <3>2, <3>3 DEF CpuStep
  <2>5. CASE ReadCommand
    <3>1. ASSUME NEW name \in ArgNames,
                 SuspendPcb(name) \/ ResumePcb(name) \/ BlockPcb(name) \/ UnblockPcb(name)
                 \/ \E new \in PrioArgs : SetPcbPriority(name, new)
          PROVE  FaultsAreKnown'
      <4>1. \/ AtPrompt /\ Named(name) # NULL /\ \E rec : Refile(Named(name), rec)
            \/ AtPrompt /\ cpu' = cpu
            \/ On /\ UNCHANGED machine
        BY <3>1 DEF SuspendPcb, ResumePcb, BlockPcb, UnblockPcb, SetPcbPriority, AtPrompt, At, On
      <4>2. AtPrompt /\ cpu' = cpu => FaultsAreKnown'
        BY DEF AtPrompt, At, FaultsAreKnown
      <4>. QED  BY <1>2, <2>3, <4>1, <4>2, RefileFaults
    <3>2. ASSUME NEW a \in AlarmArgs, AlarmCommand(a) PROVE FaultsAreKnown'
      BY <1>2, <2>2, <2>3, <3>2, LoadDoesNotFault DEF AlarmCommand, AtPrompt, At, On, memVars
    <3>3. CASE YieldCommand
      BY <1>2, <2>2, <3>3, SystemCallDoesNotFault DEF YieldCommand, AtPrompt, At, On
    <3>4. ASSUME \/ \E name \in ArgNames : DeletePcb(name)
                 \/ \E yes \in BOOLEAN : ShutdownCommand(yes)
                 \/ LoadR3Command \/ CommandWithoutEffect
          PROVE  FaultsAreKnown'
      BY <2>3, <3>4 DEF DeletePcb, ShutdownCommand, LoadR3Command, CommandWithoutEffect,
                        AtPrompt, At, On, memVars
    <3>. QED  BY <2>5, <3>1, <3>2, <3>3, <3>4 DEF ReadCommand
  <2>6. CASE Stopped
    BY <2>1, <2>6 DEF Stopped
  <2>. QED  BY <1>2, <2>1, <2>4, <2>5, <2>6 DEF Next
<1>. QED  BY <1>1, <1>2, RunningIsReady, Invariance, PTL DEF Spec
=============================================================================
