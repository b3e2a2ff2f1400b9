CONSTANTS
    Main = Main
    Threads = {t1, t2}
    Irqs = {0, 1, 8}
    Values = {"a", "b"}
SPECIFICATION Spec
INVARIANTS
    RegistersPreserved
    SwitchConsistent
    StackShape
    NothingInService
PROPERTY EveryThreadRuns
