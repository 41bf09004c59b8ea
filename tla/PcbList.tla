------------------------------ MODULE PcbList ------------------------------
(***************************************************************************)
(* The process queues as user/pcb.c has them: a front for each queue and   *)
(* a next in each PCB.  The next of a new PCB is whatever the memory held, *)
(* and pcb_insert does not write it when it files a PCB in an empty        *)
(* priority queue.  Whether that pointer is ever followed depends on who   *)
(* is on the ready queue when, so the calls that move PCBs are here too:   *)
(* kmain's, the command handler's, and those of system calls.              *)
(***************************************************************************)
EXTENDS Pcb, FiniteSets

CONSTANTS
    MaxPcbs,        \* bound: PCBs ever loaded, as the heap bounds them
    UserPriority,   \* the priority user processes are loaded with
    PrioArgs        \* the priorities users type

ASSUME ListAssumption ==
    /\ MaxPcbs \in Nat
    /\ UserPriority \in Priority
    /\ PrioArgs \subseteq Priority

Numbers == 1..MaxPcbs

\* A pointer to something that is no PCB, and the two system processes.
Wild    == MaxPcbs + 1
Comhand == 1
Sys_i   == 2

VARIABLES
    pcb,        \* the fields of the PCBs
    front,      \* each queue's front
    next,       \* each PCB's next
    made,       \* the queues that exist
    running,    \* the process that has the CPU; NULL is kmain
    machine     \* "boot", "on", "off", or "page_fault"

vars == <<pcb, front, next, made, running, machine>>

Links == [front |-> front, next |-> next]

(***************************************************************************)
(* The PCBs one comes by from f: next is followed until it is NULL.  A     *)
(* list that is not one ends in Wild or is longer than there are PCBs.     *)
(***************************************************************************)
Chain(f, nx) ==
    LET at[k \in 1..(MaxPcbs + 1)] ==
            IF k = 1 THEN f ELSE IF at[k - 1] \in Numbers THEN nx[at[k - 1]] ELSE NULL
    IN  [k \in 1..Cardinality({j \in 1..(MaxPcbs + 1) : at[j] # NULL}) |-> at[k]]

On(l, n) == Chain(l.front[n], l.next)

----------------------------------------------------------------------------
(***************************************************************************)
(* pcb_insert, pointer by pointer; l is front and next.  The walk stops at *)
(* the last PCB, or before the first one with a larger number.             *)
(***************************************************************************)
Larger(ps, c, p) == ps[c].process_priority > ps[p].process_priority

InsertFirst(l, n, p) ==
    [front |-> [l.front EXCEPT ![n] = p], next |-> [l.next EXCEPT ![p] = NULL]]

InsertByPriority(l, ps, n, p) ==
    LET f    == l.front[n]
        q    == On(l, n)
        stop == SelectInSeq(q, LAMBDA c : l.next[c] = NULL \/ Larger(ps, l.next[c], p))
        c    == q[stop]
    IN  IF f = NULL THEN [l EXCEPT !.front[n] = p]
        ELSE IF Larger(ps, f, p) THEN [l EXCEPT !.front[n] = p, !.next[p] = f]
        ELSE [l EXCEPT !.next[p] = l.next[c], !.next[c] = p]

InsertAtEnd(l, n, p) == [l EXCEPT !.next[Last(On(l, n))] = p, !.next[p] = NULL]

\* An existing, empty FIFO queue is walked from NULL.
WalksNull(l, n) == n \in made \ PriorityQueue /\ l.front[n] = NULL

InsertPcb(l, ps, p) ==
    LET n == QueueOf(ps[p])
    IN  IF n \notin made THEN InsertFirst(l, n, p)
        ELSE IF n \in PriorityQueue THEN InsertByPriority(l, ps, n, p)
        ELSE InsertAtEnd(l, n, p)

(***************************************************************************)
(* pcb_remove.  The PCB before p, or the front, is linked to the one       *)
(* behind p, and p's own next is cleared.                                  *)
(***************************************************************************)
QueueWith(l, p) == SelectInSeq(SearchOrder, LAMBDA n : Contains(On(l, n), p))

Bypass(l, n, p) ==
    LET q    == On(l, n)
        prev == SelectInSeq(q, LAMBDA c : l.next[c] = p)
    IN  IF l.front[n] = p THEN [l EXCEPT !.front[n] = l.next[p]]
        ELSE [l EXCEPT !.next[q[prev]] = l.next[p]]

\* A plausible slip: the PCB that was taken off keeps its next.
RemoveKeepsNext(l, p) ==
    LET k == QueueWith(l, p)
    IN  IF k = 0 THEN l ELSE Bypass(l, SearchOrder[k], p)

RemovePcb(l, p) ==
    LET k == QueueWith(l, p)
    IN  IF k = 0 THEN l ELSE [Bypass(l, SearchOrder[k], p) EXCEPT !.next[p] = NULL]

OnSomeQueue(p) == QueueWith(Links, p) # 0

----------------------------------------------------------------------------
SetLinks(l) ==
    /\ front' = l.front
    /\ next' = l.next

\* Filing p, once everything else about the PCBs is ps and the links are l.
File(l, ps, p) ==
    /\ pcb' = ps
    /\ IF WalksNull(l, QueueOf(ps[p]))
       THEN SetLinks(l) /\ machine' = "page_fault" /\ UNCHANGED made
       ELSE /\ SetLinks(InsertPcb(l, ps, p))
            /\ made' = made \union {QueueOf(ps[p])}
            /\ UNCHANGED machine

\* load: the memory of a new PCB holds anything.
Load(class, priority) ==
    LET p   == Len(pcb) + 1
        rec == [process_class |-> class, process_priority |-> priority,
                execution_state |-> READY, dispatching_state |-> NOT_SUSPENDED]
    IN  /\ p <= MaxPcbs
        /\ \E garbage \in {NULL, Wild, Comhand} :
              File([Links EXCEPT !.next[p] = garbage], Append(pcb, rec), p)

\* The end of sys_call: the front is taken off, and then cur is filed, unless it
\* is NULL.  With nothing ready the CPU goes back to kmain, which ends.
Dispatch(ps, cur) ==
    LET n == front["ready"]
        l == RemovePcb(Links, n)
    IN  IF n = NULL
        THEN /\ pcb' = ps
             /\ machine' = "off"
             /\ UNCHANGED <<front, next, made, running>>
        ELSE /\ running' = n
             /\ IF cur = NULL
                THEN SetLinks(l) /\ pcb' = ps /\ UNCHANGED <<made, machine>>
                ELSE File(l, ps, cur)

----------------------------------------------------------------------------
(***************************************************************************)
(* kmain loads the handler and the idle process and executes IDLE.         *)
(***************************************************************************)
Init ==
    /\ pcb = << >>
    /\ front = [n \in QueueName |-> NULL]
    /\ next = [p \in Numbers |-> NULL]
    /\ made = {}
    /\ running = NULL
    /\ machine = "boot"

KmainLoad ==
    /\ machine = "boot"
    /\ Len(pcb) < 2
    /\ Load(SYSTEM_PROCESS, IF pcb = << >> THEN 0 ELSE 9)
    /\ UNCHANGED running

KmainYield ==
    /\ machine = "boot"
    /\ Len(pcb) = 2
    /\ machine' = "on"
    /\ running' = front["ready"]
    /\ SetLinks(RemovePcb(Links, front["ready"]))
    /\ UNCHANGED <<pcb, made>>

(***************************************************************************)
(* System calls: IDLE, and EXIT, which the handler calls after a shutdown  *)
(* and user processes when they are done.  The idle process never ends.    *)
(***************************************************************************)
SysIdle ==
    /\ machine = "on"
    /\ Dispatch([pcb EXCEPT ![running].execution_state = READY], running)

SysExit ==
    /\ machine = "on"
    /\ running # Sys_i
    /\ Dispatch(pcb, NULL)

(***************************************************************************)
(* The commands.  Each acts on a PCB that pcb_find has found on a queue.   *)
(***************************************************************************)
CommandOn(p) ==
    /\ machine = "on"
    /\ running = Comhand
    /\ OnSomeQueue(p)
    /\ UNCHANGED running

Refile(p, rec) == File(RemovePcb(Links, p), [pcb EXCEPT ![p] = rec], p)

IsUser(p) == pcb[p].process_class = USER_APP

LoadUser ==
    /\ machine = "on"
    /\ running = Comhand
    /\ Load(USER_APP, UserPriority)
    /\ UNCHANGED running

Delete(p) ==
    /\ CommandOn(p)
    /\ IsUser(p)
    /\ SetLinks(RemovePcb(Links, p))
    /\ UNCHANGED <<pcb, made, machine>>

\* A plausible slip: a system process is not refused.
SuspendAnyClass(p) ==
    /\ CommandOn(p)
    /\ pcb[p].dispatching_state = NOT_SUSPENDED
    /\ Refile(p, [pcb[p] EXCEPT !.dispatching_state = SUSPENDED])

Suspend(p) ==
    /\ CommandOn(p)
    /\ IsUser(p)
    /\ pcb[p].dispatching_state = NOT_SUSPENDED
    /\ Refile(p, [pcb[p] EXCEPT !.dispatching_state = SUSPENDED])

Resume(p) ==
    /\ CommandOn(p)
    /\ Refile(p, [pcb[p] EXCEPT !.dispatching_state = NOT_SUSPENDED])

Block(p) ==
    /\ CommandOn(p)
    /\ IsUser(p)
    /\ Refile(p, [pcb[p] EXCEPT !.execution_state = BLOCKED])

Unblock(p) ==
    /\ CommandOn(p)
    /\ Refile(p, [pcb[p] EXCEPT !.execution_state = READY])

SetPriority(p, new) ==
    LET rec == [pcb[p] EXCEPT !.process_priority = new]
    IN  /\ CommandOn(p)
        /\ IF pcb[p].execution_state = READY
           THEN Refile(p, rec)
           ELSE /\ pcb' = [pcb EXCEPT ![p] = rec]
                /\ UNCHANGED <<front, next, made, machine>>

\* After power-off or a page fault nothing runs.
Stopped ==
    /\ machine \in {"off", "page_fault"}
    /\ UNCHANGED vars

Next ==
    \/ KmainLoad
    \/ KmainYield
    \/ SysIdle
    \/ SysExit
    \/ LoadUser
    \/ \E p \in DOMAIN pcb :
          \/ Delete(p)
          \/ Suspend(p)
          \/ Resume(p)
          \/ Block(p)
          \/ Unblock(p)
          \/ \E new \in PrioArgs : SetPriority(p, new)
    \/ Stopped

Spec == Init /\ [][Next]_vars

----------------------------------------------------------------------------
(***************************************************************************)
(* Properties.                                                             *)
(***************************************************************************)
\* A PCB on no queue has no next: what pcb_insert does not write when it files a
\* PCB in an empty priority queue is NULL already.
UnqueuedHasNoNext ==
    \A p \in DOMAIN pcb : ~ OnSomeQueue(p) => next[p] = NULL

Queues == INSTANCE PcbQueues WITH queue <- [n \in QueueName |-> Chain(front[n], next)]

\* The links make up four lists, and each call changes them as sequences are
\* changed: the garbage in a new PCB's next is never followed, no list loses its
\* tail or runs into another one, and none becomes a ring.
ImplementsQueues == Queues!Spec
=============================================================================
