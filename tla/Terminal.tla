------------------------------ MODULE Terminal ------------------------------
(***************************************************************************)
(* What the console promises: a screen of lines.  Text goes in at the      *)
(* cursor, a full line continues on the next one, and when there is no     *)
(* next line the topmost line disappears and the others move up.           *)
(***************************************************************************)
EXTENDS Integers

CONSTANTS Columns, Rows, TabStop, Cells, Blank

VARIABLES
    line,   \* line[r][c]: the cell in column c of line r
    row, column

BlankLine == [c \in 0..Columns - 1 |-> Blank]

Init ==
    /\ line = [r \in 0..Rows - 1 |-> BlankLine]
    /\ row = 0 /\ column = 0

\* The cursor goes on to the start of the next line of the text.
NextLine(text) ==
    /\ column' = 0
    /\ \/ /\ row < Rows - 1
          /\ row' = row + 1 /\ line' = text
       \/ /\ row = Rows - 1
          /\ row' = row
          /\ line' = [r \in 0..Rows - 1 |-> IF r = Rows - 1 THEN BlankLine ELSE text[r + 1]]

\* The cursor goes to column c, or past the end of the line.
GoTo(c, text) ==
    \/ c < Columns /\ column' = c /\ row' = row /\ line' = text
    \/ c >= Columns /\ NextLine(text)

Next ==
    \/ \E g \in Cells : GoTo(column + 1, [line EXCEPT ![row][column] = g])
    \/ \E k \in 1..TabStop :
          (column + k) % TabStop = 0 /\ GoTo(column + k, line)
    \/ column > 0 /\ GoTo(column - 1, line)
    \/ GoTo(0, line)
    \/ NextLine(line)
    \/ line' = [r \in 0..Rows - 1 |-> BlankLine] /\ row' = 0 /\ column' = 0

Spec == Init /\ [][Next]_<<line, row, column>>
=============================================================================
