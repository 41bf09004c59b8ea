CONSTANTS
    PAGE_SIZE = 8
    NFRAMES = 28
    KHEAP_BASE = 320
    KHEAP_SIZE = 24
    Slack = 16
    ImageEnds <- EveryEnd
    Sizes = {5, 7}
SPECIFICATION Spec
INVARIANTS
    UsedIsMappedToItself
    FramesAreApart
    TablesAreApart
    BlocksAreMemory
    ComesUpIfItFits
CHECK_DEADLOCK FALSE
