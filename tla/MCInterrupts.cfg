CONSTANTS
    Faults = {6, 14, 17}
    Irqs = {32, 40}
    Errors = {0, 2}
    MaxDepth = 4
SPECIFICATION Spec
INVARIANTS
    HandlerReadsItsFrame
    InterruptsSound
PROPERTIES
    ResumesWhereInterrupted
    PageFaultStops
