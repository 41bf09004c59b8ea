---------------------------- MODULE ProcessTable ----------------------------
(***************************************************************************)
(* What MPX promises of its processes, without queues, PCBs or contexts:   *)
(* one of them runs at a time, a process that waits is not run, one that   *)
(* has ended stays so, and the machine ends only when nothing is ready.    *)
(***************************************************************************)
EXTENDS Naturals, Sequences

VARIABLES
    status,     \* of each process: "ready", "running", "waiting" or "ended"
    phase       \* "boot", "on", "ending", "off", or "panic"

Process == DOMAIN status

Running == {p \in Process : status[p] = "running"}
Ready   == {p \in Process : status[p] = "ready"}

Init ==
    /\ status = << >>
    /\ phase = "boot"

\* A new process is ready.
Load ==
    /\ phase \in {"boot", "on"}
    /\ status' = Append(status, "ready")
    /\ UNCHANGED phase

\* The first process to run.
Start(p) ==
    /\ phase = "boot"
    /\ p \in Ready
    /\ status' = [status EXCEPT ![p] = "running"]
    /\ phase' = "on"

\* The running process gives up the CPU, or ends, and one that is ready runs.
Switch(r, p) ==
    /\ phase = "on"
    /\ r \in Running /\ p \in Ready
    /\ \E then \in {"ready", "ended"} :
          status' = [status EXCEPT ![r] = then, ![p] = "running"]
    /\ UNCHANGED phase

\* The running process stops another one, lets it go on, or ends it.
Command(r, p) ==
    /\ phase = "on"
    /\ r \in Running /\ p # r
    /\ status[p] # "ended"
    /\ \E new \in {"ready", "waiting", "ended"} : status' = [status EXCEPT ![p] = new]
    /\ UNCHANGED phase

\* The running process gives up the CPU, or ends, and none is ready.
Stop(r) ==
    /\ phase = "on"
    /\ r \in Running
    /\ Ready = {}
    /\ \E then \in {"ready", "ended"} : status' = [status EXCEPT ![r] = then]
    /\ phase' = "ending"

PowerOff ==
    /\ phase = "ending"
    /\ phase' = "off"
    /\ UNCHANGED status

\* A panic leaves no process.
Panic ==
    /\ phase \in {"boot", "on"}
    /\ phase' = "panic"
    /\ status' = << >>

Next ==
    \/ Load
    \/ \E p \in Process : Start(p)
    \/ \E r, p \in Process : Switch(r, p) \/ Command(r, p)
    \/ \E r \in Process : Stop(r)
    \/ PowerOff
    \/ Panic

Spec == Init /\ [][Next]_<<status, phase>>
=============================================================================
