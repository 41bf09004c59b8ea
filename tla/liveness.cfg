CONSTANTS
    PcbSize = 4
    QueueSize = 1
    HeapSize = 20
    R3Procs <- OneR3
    ArgNames = {"P1", "Alarm"}
    PrioArgs = {0, 9}
    AlarmArgs <- SomeInvalid
    Times <- Day
SPECIFICATION FairSpec
PROPERTIES
    ImplementsProcessTable
    ConsoleComesBack
    ShutdownCompletes
