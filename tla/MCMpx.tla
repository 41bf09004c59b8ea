------------------------------- MODULE MCMpx -------------------------------
(***************************************************************************)
(* Values of Mpx's constants for TLC.  The heap is what bounds the number  *)
(* of processes, as it does in the code: with PcbSize 4 and QueueSize 1 a  *)
(* heap of n bytes holds about n \div 4 PCBs next to their queues.         *)
(***************************************************************************)
EXTENDS Mpx

OneR3  == <<[name |-> "P1", iterations |-> 1]>>
Day == {0, 1}

NoAlarm      == {}
ValidAlarms  == {[time |-> 1, valid |-> TRUE]}

\* 00:00:60 is refused, and is as many seconds as 00:01:00.
SomeInvalid  == ValidAlarms \union {[time |-> 1, valid |-> FALSE]}
=============================================================================
