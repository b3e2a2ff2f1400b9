CONSTANTS
    PAGE_SIZE = 4
    PAGE_MAX_SIZE = 16
    PTE_SIZE = 4
    PGD_SIZE = 32
    PTE_COUNT = 4
    PAGE_OFFSET = 384
    PTE_KERN = 20
    FIRST_FRAME = 44
    FRAME_COUNT = 4
    POWER_ON = 44
    ClientPages <- MCPages
SPECIFICATION Spec
INVARIANTS
    FramesPartitioned
    TablesIntact
    TlbCoherent
    MappedAreHeld
PROPERTY ImplementsAddressSpace
CHECK_DEADLOCK FALSE
