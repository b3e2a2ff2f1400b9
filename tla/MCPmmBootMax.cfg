CONSTANTS
    PAGE_SIZE = 4
    PAGE_MAX_SIZE = 8
    WORD = 256
    LOAD_BASE = 8
    IMAGE_SIZE = 8
    MemoryMaps <- AllMaps
SPECIFICATION Spec
INVARIANT FramesSupported
CHECK_DEADLOCK FALSE
