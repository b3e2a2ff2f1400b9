CONSTANTS
    PAGE_SIZE = 4
    PAGE_MAX_SIZE = 16
    PTE_SIZE = 4
    PGD_SIZE = 32
    PTE_COUNT = 4
    PAGE_OFFSET = 384
    PTE_KERN = 20
    FIRST_FRAME = 40
    FRAME_COUNT = 7
    POWER_ON = 40
    HEAP_START = 448
    HDR = 2
    Sizes = {0, 1, 3, 6}
    STACK_SIZE = 6
SPECIFICATION TestSpec
INVARIANT TestLeavesNothing
PROPERTY KernelIsCareful
CHECK_DEADLOCK FALSE
