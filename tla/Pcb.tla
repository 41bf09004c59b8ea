-------------------------------- MODULE Pcb --------------------------------
(***************************************************************************)
(* Process control blocks and the four process queues of MPX              *)
(* (user/pcb.c, include/pcb.h): the records, and what finding, inserting   *)
(* and removing a PCB does to the queues.  Everything here is a pure       *)
(* operator on two values:                                                 *)
(*                                                                         *)
(*   ps   the PCBs in the order they were allocated; a PCB is named by its *)
(*        number in ps, as the code names it by its address                *)
(*   qs   for each queue the PCBs on it, front first: the list the code    *)
(*        links through front and next                                     *)
(***************************************************************************)
EXTENDS Integers, Sequences, SequencesExt

(***************************************************************************)
(* The values of pcb.h:10-19.  No PCB has number 0.                        *)
(***************************************************************************)
NULL == 0

USER_APP       == 0
SYSTEM_PROCESS == 1

READY   == 0
BLOCKED == 1

NOT_SUSPENDED == 0
SUSPENDED     == 1

Priority == 0..9

(***************************************************************************)
(* The queues, and the order in which pcb_find and pcb_remove go through   *)
(* them.                                                                   *)
(***************************************************************************)
QueueName == {"ready", "blocked", "susp_ready", "susp_blocked"}

SearchOrder == <<"ready", "blocked", "susp_ready", "susp_blocked">>

\* The queues pcb_insert keeps in priority order; the other two are FIFO.
PriorityQueue == {"ready", "susp_ready"}

\* The queue pcb_insert files a PCB in, from its two state fields.
QueueOf(rec) ==
    CASE rec.dispatching_state = NOT_SUSPENDED /\ rec.execution_state = READY   -> "ready"
      [] rec.dispatching_state = NOT_SUSPENDED /\ rec.execution_state = BLOCKED -> "blocked"
      [] rec.dispatching_state = SUSPENDED     /\ rec.execution_state = READY   -> "susp_ready"
      [] rec.dispatching_state = SUSPENDED     /\ rec.execution_state = BLOCKED -> "susp_blocked"

----------------------------------------------------------------------------
(***************************************************************************)
(* pcb_find: the first PCB with that name, the queues taken in order.      *)
(***************************************************************************)
Searched(qs) ==
    qs["ready"] \o qs["blocked"] \o qs["susp_ready"] \o qs["susp_blocked"]

\* A plausible slip: a process that is suspended and blocked is not looked for.
PcbFindForgetsAQueue(qs, ps, name) ==
    LET all == qs["ready"] \o qs["blocked"] \o qs["susp_ready"]
        k   == SelectInSeq(all, LAMBDA p : ps[p].process_name = name)
    IN  IF k = 0 THEN NULL ELSE all[k]

PcbFind(qs, ps, name) ==
    LET all == Searched(qs)
        k   == SelectInSeq(all, LAMBDA p : ps[p].process_name = name)
    IN  IF k = 0 THEN NULL ELSE all[k]

(***************************************************************************)
(* pcb_insert, once the queue exists.  A priority queue takes the PCB in   *)
(* front of the first one with a larger number (a lower priority), so      *)
(* behind its equals; a FIFO queue takes it at the end.                    *)
(***************************************************************************)

\* A plausible slip: an arrival also overtakes the PCBs of its own priority.
InsertionPointBeforeEquals(q, ps, p) ==
    LET k == SelectInSeq(q, LAMBDA r : ps[r].process_priority >= ps[p].process_priority)
    IN  IF k = 0 THEN Len(q) + 1 ELSE k

InsertionPoint(q, ps, p) ==
    LET k == SelectInSeq(q, LAMBDA r : ps[r].process_priority > ps[p].process_priority)
    IN  IF k = 0 THEN Len(q) + 1 ELSE k

Enqueue(name, q, ps, p) ==
    IF name \in PriorityQueue
    THEN InsertAt(q, InsertionPoint(q, ps, p), p)
    ELSE Append(q, p)

(***************************************************************************)
(* pcb_remove: off the first queue that holds the PCB; a PCB on no queue   *)
(* is left alone (the code returns -1).                                    *)
(***************************************************************************)
PcbRemove(qs, p) ==
    LET k == SelectInSeq(SearchOrder, LAMBDA n : Contains(qs[n], p))
    IN  IF k = 0 THEN qs ELSE [qs EXCEPT ![SearchOrder[k]] = RemoveFirst(@, p)]
=============================================================================
