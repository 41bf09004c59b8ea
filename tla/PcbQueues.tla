----------------------------- MODULE PcbQueues -----------------------------
(***************************************************************************)
(* What the process queues promise, without the pointers they are made of: *)
(* four sequences of PCBs, and one change at a time.  A PCB arrives, is    *)
(* filed again under new fields, leaves, or is switched for the front of   *)
(* the ready queue.                                                        *)
(***************************************************************************)
EXTENDS Pcb

VARIABLES
    pcb,        \* the fields of the PCBs, in the order they were allocated
    queue       \* the PCBs on each queue, front first

Queued(p) == \E n \in QueueName : Contains(queue[n], p)

File(qs, ps, p) ==
    LET n == QueueOf(ps[p])
    IN  [qs EXCEPT ![n] = Enqueue(n, @, ps, p)]

Init ==
    /\ pcb = << >>
    /\ queue = [n \in QueueName |-> << >>]

\* A new PCB is filed.
Arrive ==
    /\ Len(pcb') = Len(pcb) + 1
    /\ SubSeq(pcb', 1, Len(pcb)) = pcb
    /\ queue' = File(queue, pcb', Len(pcb'))

ChangesAtMost(p) ==
    /\ Len(pcb') = Len(pcb)
    /\ \A r \in DOMAIN pcb \ {p} : pcb'[r] = pcb[r]

\* A PCB gets new fields, and a new place on the queue they call for.
Refile(p) ==
    /\ Queued(p)
    /\ ChangesAtMost(p)
    /\ queue' = File(PcbRemove(queue, p), pcb', p)

\* A PCB gets new fields and keeps its place.
Change(p) ==
    /\ ChangesAtMost(p)
    /\ UNCHANGED queue

\* A PCB is taken off its queue.
Leave(p) ==
    /\ Queued(p)
    /\ ChangesAtMost(p)
    /\ queue' = PcbRemove(queue, p)

\* The front of the ready queue is taken and a PCB on no queue is filed.
Switch(p) ==
    /\ queue["ready"] # << >>
    /\ ~ Queued(p)
    /\ ChangesAtMost(p)
    /\ queue' = File(PcbRemove(queue, Head(queue["ready"])), pcb', p)

Next ==
    \/ Arrive
    \/ \E p \in DOMAIN pcb : Refile(p) \/ Change(p) \/ Leave(p) \/ Switch(p)

Spec == Init /\ [][Next]_<<pcb, queue>>
=============================================================================
