CONSTANTS
    PcbSize = 4
    QueueSize = 1
    HeapSize = 20
    R3Procs <- OneR3
    ArgNames = {"P1"}
    PrioArgs = {}
    AlarmArgs <- NoAlarm
    Times <- Day
SPECIFICATION Spec
INVARIANTS
    NeverFaults
