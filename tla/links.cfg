CONSTANTS
    MaxPcbs = 4
    UserPriority = 3
    PrioArgs = {0, 9}
SPECIFICATION Spec
INVARIANTS
    UnqueuedHasNoNext
PROPERTIES
    ImplementsQueues
