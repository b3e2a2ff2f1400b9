CONSTANTS
    Main = Main
    Threads = {t1}
    Irqs = {0, 1}
    Values = {"test", "fill", "write", "set"}
SPECIFICATION ProgramSpec
INVARIANTS
    PrinterAlone
    Alternates
PROPERTY BothPrint
