------------------------------ MODULE Comhand ------------------------------
(***************************************************************************)
(* The command handler process (user/interface.c) on top of the kernel:    *)
(* load(), and the commands that change the state of the system.           *)
(*                                                                         *)
(* The handler reads a line ("comhand"), runs the command's function and   *)
(* then calls IDLE, or EXIT once shutdown was confirmed ("comhand_end").   *)
(* It holds the CPU while it waits for the line.                           *)
(***************************************************************************)
EXTENDS Kernel

CONSTANTS
    R3Procs,        \* what loadR3 loads: <<[name, iterations], ...>>
    ArgNames,       \* the process names users type
    PrioArgs,       \* the priorities users type
    AlarmArgs,      \* the alarm times users type, and whether they are valid
    Times           \* the times of day the clock can show, in seconds

\* A command typed without its argument.
Missing == ""

ASSUME R3Assumption ==
    /\ R3Procs \in Seq([name : STRING, iterations : Nat])
    /\ R3Procs # << >>
    /\ \A i \in DOMAIN R3Procs : R3Procs[i].name # "Comhand"
ASSUME ArgAssumption ==
    /\ ArgNames \subseteq STRING
    /\ PrioArgs \subseteq Int
    /\ AlarmArgs \subseteq [time : Nat, valid : BOOLEAN]
    /\ Times \subseteq Nat
    /\ \A a \in AlarmArgs : a.valid => a.time \in Times

VARIABLES
    should_shutdown,    \* the user confirmed shutdown
    global_time         \* global_hours, _minutes and _seconds, in seconds

comhandVars == <<should_shutdown, global_time>>

----------------------------------------------------------------------------
(***************************************************************************)
(* load(): allocate a PCB, fill it in, and file it.  The process starts at *)
(* its function's first instruction, on its own stack.                     *)
(***************************************************************************)
Load(name, class, priority, eip, i) ==
    NewPcb([process_name      |-> name,
            process_class     |-> class,
            process_priority  |-> priority,
            execution_state   |-> READY,
            dispatching_state |-> NOT_SUSPENDED,
            stack_ptr         |-> Context(Len(pcb) + 1, eip, i)])

At(eip) == machine = "on" /\ cpu.eip = eip

AtPrompt == At("comhand")

Goto(eip, i) == cpu' = [cpu EXCEPT !.eip = eip, !.i = i]

Named(name) == PcbFind(queue, pcb, name)

(***************************************************************************)
(* What the state-changing commands share: they take a PCB off its queue,  *)
(* change its fields to rec and file it again.                             *)
(***************************************************************************)
Refile(p, rec) ==
    /\ PcbInsert(PcbRemove(queue, p), [pcb EXCEPT ![p] = rec], p, heap_addr)
    /\ Goto("comhand_end", 0)
    /\ UNCHANGED <<schedVars, ended, comhandVars>>

----------------------------------------------------------------------------
(***************************************************************************)
(* The commands.  Each action is the case in which its handler changes     *)
(* something; a refusal (no such process, a system process, a bad          *)
(* argument) prints a message and is CommandWithoutEffect below.           *)
(***************************************************************************)

\* A plausible slip: a system process is not refused.
DeletePcbOfAnyClass(name) ==
    /\ AtPrompt
    /\ name # Missing
    /\ Named(name) # NULL
    /\ queue' = PcbRemove(queue, Named(name))
    /\ freed' = freed \union {Named(name)}
    /\ ended' = ended \union {Named(name)}
    /\ Goto("comhand_end", 0)
    /\ UNCHANGED <<pcb, made, heap_addr, machine, current_process, insert_flag,
                   initial_context, comhandVars>>

\* deletepcb
DeletePcb(name) ==
    LET p == Named(name)
    IN  /\ AtPrompt
        /\ name # Missing
        /\ p # NULL
        /\ pcb[p].process_class # SYSTEM_PROCESS
        /\ queue' = PcbRemove(queue, p)
        /\ freed' = freed \union {p}
        /\ ended' = ended \union {p}
        /\ Goto("comhand_end", 0)
        /\ UNCHANGED <<pcb, made, heap_addr, machine, current_process, insert_flag,
                       initial_context, comhandVars>>

\* A plausible slip: the field is set and the PCB left where it is.
SuspendPcbInPlace(name) ==
    LET p == Named(name)
    IN  /\ AtPrompt
        /\ name # Missing
        /\ p # NULL
        /\ pcb[p].process_class # SYSTEM_PROCESS
        /\ pcb' = [pcb EXCEPT ![p].dispatching_state = SUSPENDED]
        /\ Goto("comhand_end", 0)
        /\ UNCHANGED <<queue, made, heap_addr, machine, schedVars, ended, comhandVars>>

\* suspendpcb.  Without a name the handler prints its usage and goes on to
\* pcb_find(NULL), which compares the first PCB it meets with a NULL string.
SuspendPcb(name) ==
    LET p == Named(name)
    IN  /\ AtPrompt
        /\ \/ /\ name # Missing
              /\ p # NULL
              /\ pcb[p].process_class # SYSTEM_PROCESS
              /\ pcb[p].dispatching_state # SUSPENDED
              /\ Refile(p, [pcb[p] EXCEPT !.dispatching_state = SUSPENDED])
           \/ /\ name = Missing
              /\ Searched(queue) # << >>
              /\ machine' = "page_fault"
              /\ UNCHANGED <<pcb, queue, made, heap_addr, schedVars, cpu, ended, comhandVars>>

\* resumepcb: whatever the class, suspended or not.
ResumePcb(name) ==
    LET p == Named(name)
    IN  /\ AtPrompt
        /\ name # Missing
        /\ p # NULL
        /\ Refile(p, [pcb[p] EXCEPT !.dispatching_state = NOT_SUSPENDED])

\* blockpcb: blocked already or not.
BlockPcb(name) ==
    LET p == Named(name)
    IN  /\ AtPrompt
        /\ name # Missing
        /\ p # NULL
        /\ pcb[p].process_class # SYSTEM_PROCESS
        /\ Refile(p, [pcb[p] EXCEPT !.execution_state = BLOCKED])

\* unblockpcb: whatever the class, blocked or not.
UnblockPcb(name) ==
    LET p == Named(name)
    IN  /\ AtPrompt
        /\ name # Missing
        /\ p # NULL
        /\ Refile(p, [pcb[p] EXCEPT !.execution_state = READY])

\* A plausible slip: the queue is not reordered for the new priority.
SetPcbPriorityInPlace(name, new) ==
    LET p == Named(name)
    IN  /\ AtPrompt
        /\ name # Missing
        /\ p # NULL
        /\ new \in Priority
        /\ pcb' = [pcb EXCEPT ![p].process_priority = new]
        /\ Goto("comhand_end", 0)
        /\ UNCHANGED <<queue, made, heap_addr, machine, schedVars, ended, comhandVars>>

\* A plausible slip: the new priority is not checked.
SetPcbPriorityUnchecked(name, new) ==
    LET p == Named(name)
    IN  /\ AtPrompt
        /\ name # Missing
        /\ p # NULL
        /\ \/ /\ pcb[p].execution_state = READY
              /\ Refile(p, [pcb[p] EXCEPT !.process_priority = new])
           \/ /\ pcb[p].execution_state # READY
              /\ pcb' = [pcb EXCEPT ![p].process_priority = new]
              /\ Goto("comhand_end", 0)
              /\ UNCHANGED <<queue, made, heap_addr, machine, schedVars, ended, comhandVars>>

\* setpcbprio: a READY PCB is filed again, a BLOCKED one keeps its place.
SetPcbPriority(name, new) ==
    LET p == Named(name)
    IN  /\ AtPrompt
        /\ name # Missing
        /\ p # NULL
        /\ new \in Priority
        /\ \/ /\ pcb[p].execution_state = READY
              /\ Refile(p, [pcb[p] EXCEPT !.process_priority = new])
           \/ /\ pcb[p].execution_state # READY
              /\ pcb' = [pcb EXCEPT ![p].process_priority = new]
              /\ Goto("comhand_end", 0)
              /\ UNCHANGED <<queue, made, heap_addr, machine, schedVars, ended, comhandVars>>

----------------------------------------------------------------------------
\* shutdown, with the user's answer to "Are you sure?".
ShutdownCommand(yes) ==
    /\ AtPrompt
    /\ should_shutdown' = yes
    /\ Goto("comhand_end", 0)
    /\ UNCHANGED <<memVars, schedVars, ended, global_time>>

\* yield: IDLE in the middle of the handler.
YieldCommand ==
    /\ AtPrompt
    /\ SysIdle([cpu EXCEPT !.eip = "comhand_end"])
    /\ UNCHANGED comhandVars

\* loadR3: one load after the other; i is the next one.
LoadR3Command ==
    /\ AtPrompt
    /\ Goto("loadR3", 1)
    /\ UNCHANGED <<memVars, schedVars, ended, comhandVars>>

LoadR3Step ==
    LET i == cpu.i
    IN  /\ At("loadR3")
        /\ Load(R3Procs[i].name, USER_APP, 3, "r3", R3Procs[i].iterations)
        /\ IF i = Len(R3Procs) THEN Goto("comhand_end", 0) ELSE Goto("loadR3", i + 1)
        /\ UNCHANGED <<schedVars, ended, comhandVars>>

\* alarm: the time goes into the globals before it is checked, and an alarm
\* process is loaded only if it is a valid one.
AlarmCommand(a) ==
    /\ AtPrompt
    /\ global_time' = a.time
    /\ IF a.valid
       THEN Load("Alarm", USER_APP, 1, "alarm", 0)
       ELSE UNCHANGED memVars
    /\ Goto("comhand_end", 0)
    /\ UNCHANGED <<schedVars, ended, should_shutdown>>

(***************************************************************************)
(* The show commands print a PCB for each PCB of a queue: the first one    *)
(* that has its name.                                                      *)
(***************************************************************************)
ShowPcb(name) == Named(name)

ShowQueue(n) == [k \in DOMAIN queue[n] |-> ShowPcb(pcb[queue[n][k]].process_name)]

ShowReadyPcbs   == ShowQueue("ready") \o ShowQueue("susp_ready")
ShowBlockedPcbs == ShowQueue("blocked") \o ShowQueue("susp_blocked")
ShowAllPcbs     == ShowReadyPcbs \o ShowBlockedPcbs

\* Every command that only prints, every refusal and every unknown command.
CommandWithoutEffect ==
    /\ AtPrompt
    /\ Goto("comhand_end", 0)
    /\ UNCHANGED <<memVars, schedVars, ended, comhandVars>>

\* A plausible slip: the flag is not looked at after the command.
ComhandEndIgnoresShutdown ==
    /\ At("comhand_end")
    /\ SysIdle([cpu EXCEPT !.eip = "comhand"])
    /\ UNCHANGED comhandVars

\* The end of comhand's loop.
ComhandEnd ==
    /\ At("comhand_end")
    /\ IF should_shutdown THEN SysExit ELSE SysIdle([cpu EXCEPT !.eip = "comhand"])
    /\ UNCHANGED comhandVars

ReadCommand ==
    \/ \E name \in ArgNames :
          \/ DeletePcb(name)
          \/ SuspendPcb(name)
          \/ ResumePcb(name)
          \/ BlockPcb(name)
          \/ UnblockPcb(name)
          \/ \E new \in PrioArgs : SetPcbPriority(name, new)
    \/ \E yes \in BOOLEAN : ShutdownCommand(yes)
    \/ \E a \in AlarmArgs : AlarmCommand(a)
    \/ YieldCommand
    \/ LoadR3Command
    \/ CommandWithoutEffect
=============================================================================
