CONSTANTS
    WORD = 16777216
    PAGE_OFFSET = 12582912
    PAGE_SIZE = 4096
    LOW_SIZE = 2097152
    RAM_SIZE = 4194304
    STACK_TOP = 1023
    STACK_SIZE = 8192
    KernStacks <- MCKernStacks
    MbootPtrs = {65536, 1200000}
    TablesAt = 1150976
    Symbols <- MCSymbols
    JUNK = 680
    ExclusiveOr <- MCXor
SPECIFICATION BootSpec
INVARIANTS
    BootNeverFaults
    TraceListsCallers
PROPERTY PanicEnds
