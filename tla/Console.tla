------------------------------ MODULE Console ------------------------------
(***************************************************************************)
(* The text console (drivers/console.c): the cursor, the text memory of    *)
(* the graphics adapter as one array of cells, and the two registers of    *)
(* the 6845 controller that place the hardware cursor.                     *)
(*                                                                         *)
(* A cell is a character together with its colours.  console_write and     *)
(* console_write_color print one character after the other, so every text  *)
(* is a sequence of the steps below; only one thread prints at a time      *)
(* (OnePrinter of PingPong).                                               *)
(***************************************************************************)
EXTENDS Integers

CONSTANTS
    Columns, Rows,  \* size of the screen (80, 25)
    TabStop,        \* 8
    BYTE,           \* 256: the cursor's coordinates are uint8_t
    MEMORY,         \* cells of the text memory, more than are on the screen
    Cells,          \* what a cell can show
    Blank,          \* the blank of console_clear() and scroll()
    Unused          \* what the memory behind the screen holds

ASSUME ConsoleAssumption ==
    /\ {Columns, Rows, TabStop, BYTE, MEMORY} \subseteq Nat \ {0}
    /\ Columns + TabStop < BYTE /\ Rows < BYTE
    /\ Rows * Columns <= MEMORY
    /\ Rows * Columns <= BYTE * BYTE
    /\ Blank \in Cells

VARIABLES
    video_memory,
    cursor_x, cursor_y,
    crtc            \* registers 14 and 15 of the controller

vars == <<video_memory, cursor_x, cursor_y, crtc>>

Offset(x, y) == y * Columns + x

\* move_cursor(): the location, high byte and low byte.  Fault: computed in
\* eight bits.
move_cursor_Narrow(x, y) == [high |-> 0, low |-> Offset(x, y) % BYTE]
move_cursor(x, y) ==
    [high |-> (Offset(x, y) \div BYTE) % BYTE, low |-> Offset(x, y) % BYTE]

\* console_clear(), which kern_init() calls before anything is printed.
Cleared == [i \in 0..MEMORY - 1 |-> IF i < Rows * Columns THEN Blank ELSE Unused]
Init ==
    /\ video_memory = Cleared
    /\ cursor_x = 0 /\ cursor_y = 0
    /\ crtc = move_cursor(0, 0)

console_clear ==
    /\ video_memory' = [i \in 0..MEMORY - 1 |->
                           IF i < Rows * Columns THEN Blank ELSE video_memory[i]]
    /\ cursor_x' = 0 /\ cursor_y' = 0
    /\ crtc' = move_cursor(0, 0)
-----------------------------------------------------------------------------
\* The cells after scroll(): every line moves up, the last one is cleared.
\* Fault: the last line stays.
Scrolled_KeepsLast(cells) ==
    [i \in 0..MEMORY - 1 |-> IF i < (Rows - 1) * Columns THEN cells[i + Columns] ELSE cells[i]]
Scrolled(cells) ==
    [i \in 0..MEMORY - 1 |->
        IF i < (Rows - 1) * Columns THEN cells[i + Columns]
        ELSE IF i < Rows * Columns THEN Blank ELSE cells[i]]

\* Fault: off by one.
PastScreen_Late(y) == y > Rows

PastLine(x) == x >= Columns
PastScreen(y) == y >= Rows

\* The end of console_putc_color: wrap, scroll() and move_cursor(), from the
\* cursor (x, y) and the cells its branches left.
Finish(x, y, cells) ==
    LET down == IF PastLine(x) THEN y + 1 ELSE y
    IN  /\ cursor_x' = IF PastLine(x) THEN 0 ELSE x
        /\ cursor_y' = IF PastScreen(down) THEN Rows - 1 ELSE down
        /\ video_memory' = IF PastScreen(down) THEN Scrolled(cells) ELSE cells
        /\ crtc' = move_cursor(cursor_x', cursor_y')

\* (cursor_x + 8) & ~(8 - 1)
NextTab(x) == ((x + TabStop) \div TabStop) * TabStop

Backspace == cursor_x # 0 /\ Finish(cursor_x - 1, cursor_y, video_memory)
Tab == Finish(NextTab(cursor_x), cursor_y, video_memory)
CarriageReturn == Finish(0, cursor_y, video_memory)
LineFeed == Finish(0, cursor_y + 1, video_memory)
Printable ==
    \E g \in Cells :
        Finish(cursor_x + 1, cursor_y, [video_memory EXCEPT ![Offset(cursor_x, cursor_y)] = g])
\* A backspace in column 0, any other control character, and the characters
\* from 0x80 on, which are negative.
Ignored == Finish(cursor_x, cursor_y, video_memory)

console_putc_color ==
    Backspace \/ Tab \/ CarriageReturn \/ LineFeed \/ Printable \/ Ignored

Next == console_putc_color \/ console_clear

Spec == Init /\ [][Next]_vars
-----------------------------------------------------------------------------
(* Properties *)

\* Every variable has its type; the cursor is on the screen.
TypeOK ==
    /\ video_memory \in [0..MEMORY - 1 -> Cells \cup {Unused}]
    /\ cursor_x \in 0..Columns - 1 /\ cursor_y \in 0..Rows - 1
    /\ crtc \in [high : 0..BYTE - 1, low : 0..BYTE - 1]

\* No character, tab, wrap or scroll ever writes behind the screen or reads
\* from there: what is shown are cells, what lies behind stays untouched.
StaysOnScreen ==
    \A i \in 0..MEMORY - 1 :
        IF i < Rows * Columns THEN video_memory[i] \in Cells ELSE video_memory[i] = Unused

\* Cursor and text stay where the screen is.
OnScreen == TypeOK /\ StaysOnScreen

\* The blinking cursor is where the next character will appear.
HardwareCursor == crtc.high * BYTE + crtc.low = Offset(cursor_x, cursor_y)

\* The array, the wrap and the scroll together are a screen of lines: text is
\* lost only at the top, never overwritten or torn by a scroll.
Screen ==
    INSTANCE Terminal WITH
        line <- [r \in 0..Rows - 1 |-> [c \in 0..Columns - 1 |-> video_memory[Offset(c, r)]]],
        row <- cursor_y, column <- cursor_x
ImplementsTerminal == Screen!Spec
=============================================================================
