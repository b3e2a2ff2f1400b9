CONSTANTS
    Columns = 4
    Rows = 3
    TabStop = 2
    BYTE = 8
    MEMORY = 20
    Cells = {" ", "x"}
    Blank = " "
    Unused = "unused"
    WORD = 64
    BUFFER = 24
    MaxFormat = 6
    Alphabet = {"%", "-", "+", " ", "#", "0", "2", ".", "*", "l", "c", "s", "p", "x", "d", "o", "b", "n"}
    Words = {0, 9, 32, 63}
    Chars = {"y"}
    Strings <- MCStrings
SPECIFICATION OutputSpec
INVARIANTS
    OnScreen
    HardwareCursor
PROPERTIES
    ImplementsTerminal
    NumbersReadBack
    FieldsFill
    StopsAtNul
