CONSTANTS
    PAGE_SIZE = 4
    PAGE_MAX_SIZE = 16
    PTE_SIZE = 4
    PGD_SIZE = 32
    PTE_COUNT = 4
    PAGE_OFFSET = 384
    PTE_KERN = 20
    FIRST_FRAME = 40
    FRAME_COUNT = 7
    POWER_ON = 40
    HEAP_START = 448
    HDR = 2
    Sizes = {2, 5, 9}
SPECIFICATION CarefulSpec
INVARIANTS
    BlocksStayMapped
    BlocksSound
    ListSound
    PagesAccounted
    OnlyOutOfMemoryStops
PROPERTIES
    BlocksAreStable
    CallsReturn
CHECK_DEADLOCK FALSE
