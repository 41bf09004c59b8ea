CONSTANTS
    PcbSize = 4
    QueueSize = 1
    HeapSize = 23
    R3Procs <- OneR3
    ArgNames = {"", "P1", "Sys_i"}
    PrioArgs = {1, 10}
    AlarmArgs <- ValidAlarms
    Times <- Day
SPECIFICATION Spec
INVARIANTS
    TypeOK
    FiledByState
    NoProcessLost
    RunsOwnStack
    StopsOnlyAfterShutdown
    SystemProcessesStay
    ReadyInPriorityOrder
    FaultsAreKnown
    ShowsWhatIsQueued
PROPERTIES
    
    DispatchIsByPriority
