-------------------------------- MODULE Mpx --------------------------------
(***************************************************************************)
(* The whole system from the end of kmain's boot sequence to power-off:    *)
(* kmain (kernel/kmain.c) loads the command handler and the system idle    *)
(* process and gives up the CPU; from then on the processes run in turn.   *)
(* The programs are those of user/core.c (proc1 to proc5, idle), of        *)
(* user/interface.c (the alarm process), and the command handler.          *)
(***************************************************************************)
EXTENDS Comhand

vars == <<kernelVars, comhandVars>>

Init ==
    /\ KernelInit
    /\ should_shutdown = FALSE
    /\ global_time = 0

----------------------------------------------------------------------------
(***************************************************************************)
(* kmain: two loads, IDLE, and, once the CPU comes back to it, the return  *)
(* to the boot code that powers the machine off.                           *)
(***************************************************************************)
KmainLoadComhand ==
    /\ At("kmain_comhand")
    /\ Load("Comhand", SYSTEM_PROCESS, 0, "comhand", 0)
    /\ Goto("kmain_idle_proc", 0)
    /\ UNCHANGED <<schedVars, ended, comhandVars>>

KmainLoadIdle ==
    /\ At("kmain_idle_proc")
    /\ Load("Sys_i", SYSTEM_PROCESS, 9, "sys_idle", 0)
    /\ Goto("kmain_yield", 0)
    /\ UNCHANGED <<schedVars, ended, comhandVars>>

KmainYield ==
    /\ At("kmain_yield")
    /\ SysIdle([cpu EXCEPT !.eip = "kmain_halt"])
    /\ UNCHANGED comhandVars

KmainHalt ==
    /\ At("kmain_halt")
    /\ machine' = "off"
    /\ UNCHANGED <<pcb, queue, made, heap_addr, schedVars, cpu, ended, comhandVars>>

----------------------------------------------------------------------------
(***************************************************************************)
(* The programs of the processes.  i counts the iterations r3_proc still   *)
(* has to do; in the alarm process it is its copy of the alarm time.       *)
(***************************************************************************)

\* A plausible slip: the loop prints and never calls the kernel.
SysIdleProcessNeverYields ==
    /\ At("sys_idle")
    /\ UNCHANGED vars

\* sys_idle_process: IDLE for ever.
SysIdleProcess ==
    /\ At("sys_idle")
    /\ SysIdle(cpu)
    /\ UNCHANGED comhandVars

\* r3_proc: IDLE after each line it prints, then EXIT.
R3Iteration ==
    /\ At("r3")
    /\ cpu.i > 0
    /\ SysIdle([cpu EXCEPT !.i = @ - 1])
    /\ UNCHANGED comhandVars

R3Exit ==
    /\ At("r3")
    /\ cpu.i = 0
    /\ SysExit
    /\ UNCHANGED comhandVars

\* alarm_proc takes its time from the globals when it first runs, and clears them.
AlarmStart ==
    /\ At("alarm")
    /\ Goto("alarm_wait", global_time)
    /\ global_time' = 0
    /\ UNCHANGED <<memVars, schedVars, ended, should_shutdown>>

\* It reads the clock and gives up the CPU while the time has not come, ...
AlarmPoll ==
    /\ At("alarm_wait")
    /\ \E now \in Times : now < cpu.i
    /\ SysIdle(cpu)
    /\ UNCHANGED comhandVars

\* ... and prints the message and ends once it has.
AlarmFire ==
    /\ At("alarm_wait")
    /\ \E now \in Times : now >= cpu.i
    /\ SysExit
    /\ UNCHANGED comhandVars

\* After a panic or power-off nothing runs: kpanic halts for ever.
Stopped ==
    /\ machine # "on"
    /\ UNCHANGED vars

----------------------------------------------------------------------------
\* What the CPU does by itself, without waiting for a line to be typed.
CpuStep ==
    \/ KmainLoadComhand
    \/ KmainLoadIdle
    \/ KmainYield
    \/ KmainHalt
    \/ ComhandEnd
    \/ LoadR3Step
    \/ SysIdleProcess
    \/ R3Iteration
    \/ R3Exit
    \/ AlarmStart
    \/ AlarmPoll
    \/ AlarmFire

Next == CpuStep \/ ReadCommand \/ Stopped

Spec == Init /\ [][Next]_vars

(***************************************************************************)
(* The CPU does not stop between instructions.  Nobody has to type a       *)
(* command.  A clock that is read again and again gets to the alarm's time *)
(* some day: an alarm that keeps asking is not refused for ever.           *)
(***************************************************************************)
Fairness ==
    /\ WF_vars(CpuStep)
    /\ SF_vars(AlarmFire)

FairSpec == Spec /\ Fairness

----------------------------------------------------------------------------
(***************************************************************************)
(* Types.                                                                  *)
(***************************************************************************)
ProcessName == {"Comhand", "Sys_i", "Alarm"} \union {R3Procs[i].name : i \in DOMAIN R3Procs}

Label == {"kmain_comhand", "kmain_idle_proc", "kmain_yield", "kmain_halt",
          "comhand", "comhand_end", "loadR3", "sys_idle", "r3", "alarm", "alarm_wait",
          "none"}

Contexts == [stk : Nat, eip : Label, i : Nat]

PCB == [process_name      : ProcessName,
        process_class     : {USER_APP, SYSTEM_PROCESS},
        process_priority  : Priority,
        execution_state   : {READY, BLOCKED},
        dispatching_state : {NOT_SUSPENDED, SUSPENDED},
        stack_ptr         : Contexts]

Pcbs == DOMAIN pcb

MachineState == {"on", "off", "heap_full", "page_fault"}

\* Every variable has its type, and no queue or variable names a PCB that
\* was never allocated.
TypeOK ==
    /\ pcb \in Seq(PCB)
    /\ queue \in [QueueName -> Seq(Pcbs)]
    /\ made \in SUBSET QueueName
    /\ heap_addr \in Nat
    /\ current_process \in Pcbs \union {NULL}
    /\ insert_flag \in BOOLEAN
    /\ initial_context \in Contexts
    /\ cpu \in Contexts
    /\ machine \in MachineState
    /\ ended \in SUBSET Pcbs
    /\ freed \in SUBSET Pcbs
    /\ should_shutdown \in BOOLEAN
    /\ global_time \in Nat

----------------------------------------------------------------------------
(***************************************************************************)
(* Safety.  After a panic only the message is left, so most of these speak *)
(* of a machine that is still on.                                          *)
(***************************************************************************)
On == machine = "on"

OnQueues(qs) == UNION {Range(qs[n]) : n \in QueueName}

Queued == OnQueues(queue)

\* A PCB on a queue is on the queue its own state fields name, and on it once:
\* sys_call dispatches whatever it finds on the ready queue, and every command
\* trusts the fields.
Filed(qs, ps) ==
    \A n \in QueueName :
        /\ \A p \in Range(qs[n]) : QueueOf(ps[p]) = n
        /\ IsInjective(qs[n])

FiledByState == Filed(queue, pcb)

\* No process is ever lost or run twice: while the machine is on, each PCB is
\* exactly one of running, on a queue, or ended.  The running one is on no queue
\* although sys_call picks the next process before it files the caller.
NoProcessLost ==
    On => \A p \in Pcbs :
             \/ p = current_process /\ p \notin Queued /\ p \notin ended
             \/ p # current_process /\ p \in Queued /\ p \notin ended
             \/ p # current_process /\ p \notin Queued /\ p \in ended

\* The ready queues are in priority order whatever was inserted, suspended,
\* resumed or given a new priority: dispatch only ever looks at the front.
ReadyInPriorityOrder ==
    \A n \in PriorityQueue : \A j, k \in DOMAIN queue[n] :
        j < k => pcb[queue[n][j]].process_priority <= pcb[queue[n][k]].process_priority

\* Each process goes on where it left off: the CPU runs in the stack of the
\* current process (kmain's when there is none), and the context saved for a
\* process that waits is one in its own stack.
RunsOwnStack ==
    On => /\ cpu.stk = (IF cpu.eip = "kmain_halt" THEN NULL ELSE current_process)
          /\ \A p \in Queued : pcb[p].stack_ptr.stk = p
          /\ initial_context.stk = NULL

\* kmain gets the CPU back, and the machine goes off, only after the user has
\* confirmed shutdown, the command handler has ended and no process is ready.
StopsOnlyAfterShutdown ==
    cpu.eip = "kmain_halt" =>
        /\ should_shutdown
        /\ queue["ready"] = << >>
        /\ \A p \in Pcbs : pcb[p].process_name = "Comhand" => p \in ended

\* The two system processes can always be dispatched: no command suspends,
\* blocks or deletes them, whatever it is given.
SystemProcessesStay ==
    On => \A p \in Pcbs : pcb[p].process_class = SYSTEM_PROCESS =>
             \/ p = current_process
             \/ p \in Range(queue["ready"])
             \/ p \in ended /\ should_shutdown

\* A page fault comes from a command, never from a system call: from suspendpcb
\* without a name, or from filing a PCB in a FIFO queue that has been emptied.
FaultsAreKnown ==
    machine = "page_fault" =>
        \/ cpu.eip = "comhand"
        \/ cpu.eip = "comhand_end" /\ \E n \in made \ PriorityQueue : queue[n] = << >>

\* The show commands find every PCB they list again by its name; where no two
\* names are equal, what they print as ready is what is ready, suspended or not,
\* and as blocked what is blocked.
ShowsWhatIsQueued ==
    On => /\ NULL \notin Range(ShowAllPcbs)
          /\ (\A p, r \in Queued : pcb[p].process_name = pcb[r].process_name => p = r) =>
                /\ Range(ShowReadyPcbs) = {p \in Queued : pcb[p].execution_state = READY}
                /\ Range(ShowBlockedPcbs) = {p \in Queued : pcb[p].execution_state = BLOCKED}

(***************************************************************************)
(* Action properties.                                                      *)
(***************************************************************************)
Before(q, a, b) == \E j, k \in DOMAIN q : j < k /\ q[j] = a /\ q[k] = b

\* First come, first served among equals.  A step moves at most one PCB on each
\* queue: all others keep their order, and the one that is moved goes behind
\* every PCB of its own priority (on a FIFO queue, behind every PCB).
NoOvertaking ==
    [][\A n \in QueueName : \E moved \in Pcbs' \union {NULL} :
          /\ \A a, b \in (Range(queue[n]) \intersect Range(queue'[n])) \ {moved} :
                Before(queue[n], a, b) <=> Before(queue'[n], a, b)
          /\ \A b \in Range(queue'[n]) \ {moved} :
                Before(queue'[n], moved, b) =>
                    /\ n \in PriorityQueue
                    /\ pcb'[moved].process_priority < pcb'[b].process_priority]_vars

\* A process gets the CPU only when no process that waits for it has a higher
\* priority, but for the one that has just given it up.
DispatchIsByPriority ==
    [][current_process' # current_process /\ current_process' # NULL =>
          \A p \in Range(queue'["ready"]) \ {current_process} :
              pcb'[current_process'].process_priority <= pcb'[p].process_priority]_vars

(***************************************************************************)
(* The system implements ProcessTable.  Whether a process that is queued   *)
(* is ready is taken from its state fields, and whether it runs from the   *)
(* scheduler.                                                              *)
(***************************************************************************)
TablePhase ==
    IF machine \in {"heap_full", "page_fault"} THEN "panic"
    ELSE IF machine = "off" THEN "off"
    ELSE IF cpu.eip = "kmain_halt" THEN "ending"
    ELSE IF current_process = NULL THEN "boot"
    ELSE "on"

StatusOf(p) ==
    IF p \in ended THEN "ended"
    ELSE IF p = current_process /\ TablePhase = "on" THEN "running"
    ELSE IF QueueOf(pcb[p]) = "ready" THEN "ready"
    ELSE "waiting"

TableStatus == IF TablePhase = "panic" THEN << >> ELSE [p \in Pcbs |-> StatusOf(p)]

Table == INSTANCE ProcessTable WITH status <- TableStatus, phase <- TablePhase

\* No process is run while it is suspended or blocked, none runs again after it
\* has ended, never do two run, and kmain gets the CPU back only when no process
\* is left that is ready.
ImplementsProcessTable == Table!Spec

(***************************************************************************)
(* What the repository says of the program and the program does not do.    *)
(***************************************************************************)

\* pcb.h:51: pcb_insert inserts a PCB into the appropriate queue.  A PCB that
\* comes to a queue which has been emptied is not inserted: the kernel faults.
NeverFaults == machine # "page_fault"

\* processes.h:43: the idle process is dispatched if no other process is
\* available to execute.
IdleOnlyWhenNothingElse == cpu.eip = "sys_idle" => queue["ready"] = << >>

(***************************************************************************)
(* Liveness.                                                               *)
(***************************************************************************)

\* The command handler always comes back to its prompt, whatever was loaded and
\* whatever priorities were given, until it is shut down or the machine panics.
ConsoleComesBack == []<>(~On \/ cpu.eip = "comhand" \/ should_shutdown)

\* A confirmed shutdown ends in power-off once the processes that are ready have
\* ended, however many the user has loaded, suspended or blocked.
ShutdownCompletes == should_shutdown ~> ~On
=============================================================================
