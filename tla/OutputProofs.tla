---------------------------- MODULE OutputProofs ----------------------------
(***************************************************************************)
(* Proofs about printk(): about Console, for screens, tab stops and text   *)
(* memories of any size (the invariants, and that the console implements   *)
(* the Terminal), about vsprintf() of Printk, for words of any size and    *)
(* formats of any length (a number can be read back from what was printed, *)
(* a conversion fills its field as long as that fits in the buffer, the    *)
(* format ends where it ends), and that Output is the two of them.         *)
(***************************************************************************)
EXTENDS Output, SequenceTheorems, WellFoundedInduction, TLAPS

-----------------------------------------------------------------------------
(* Arithmetic of the array. *)

\* A cell of the screen has its place in the array, in front of the cells
\* behind the screen, and in the line it belongs to.
LEMMA OffsetBounds ==
    ASSUME NEW x \in 0..Columns - 1, NEW y \in 0..Rows - 1
    PROVE  /\ Offset(x, y) \in Nat
           /\ Offset(x, y) < Rows * Columns
           /\ Offset(x, y) < MEMORY
           /\ Offset(x, y) < BYTE * BYTE
           /\ y < Rows - 1 => /\ Offset(x, y) < (Rows - 1) * Columns
                              /\ Offset(x, y) + Columns = Offset(x, y + 1)
           /\ y = Rows - 1 => ~(Offset(x, y) < (Rows - 1) * Columns)
<1>1. Columns \in Nat /\ Rows \in Nat /\ MEMORY \in Nat /\ BYTE \in Nat
      /\ Rows * Columns <= MEMORY /\ Rows * Columns <= BYTE * BYTE
  BY ConsoleAssumption DEF ConsoleAssumption
<1> DEFINE C == Columns
           a == y * C
           b == (y + 1) * C
           m == Rows * C
           l == (Rows - 1) * C
<1>2. a \in Nat /\ b = a + C /\ m = l + C /\ l \in Int /\ m \in Nat
  BY <1>1
<1>3. b <= m
  BY <1>1
<1>4. y < Rows - 1 => b <= l
  BY <1>1
<1>5. y = Rows - 1 => a = l
  OBVIOUS
<1>6. Offset(x, y) = a + x /\ Offset(x, y + 1) = b + x
  BY DEF Offset
<1> HIDE DEF a, b, m, l
<1>7. m <= MEMORY /\ m <= BYTE * BYTE
  BY <1>1 DEF m
<1>8. BYTE * BYTE \in Nat
  BY <1>1
<1>9. x \in Nat /\ x < C /\ C \in Nat
  BY <1>1
<1>10. /\ a + x \in Nat /\ a + x < m /\ a + x < MEMORY /\ a + x < BYTE * BYTE
  BY <1>1, <1>2, <1>3, <1>7, <1>8, <1>9
<1>11. y < Rows - 1 => a + x < l /\ (a + x) + C = b + x
  BY <1>1, <1>2, <1>4, <1>9
<1>12. y = Rows - 1 => ~(a + x < l)
  BY <1>2, <1>5, <1>9
<1> QED
  BY <1>6, <1>10, <1>11, <1>12 DEF m, l

\* Two cells of the screen never share a place.
LEMMA OffsetInjective ==
    ASSUME NEW x \in 0..Columns - 1, NEW y \in 0..Rows - 1,
           NEW c \in 0..Columns - 1, NEW r \in 0..Rows - 1,
           Offset(x, y) = Offset(c, r)
    PROVE  x = c /\ y = r
<1>1. Columns \in Nat /\ Rows \in Nat
  BY ConsoleAssumption DEF ConsoleAssumption
<1> DEFINE a == y * Columns
           b == r * Columns
<1>2. a \in Nat /\ b \in Nat
  BY <1>1
<1>3. y < r => a + Columns <= b
  <2>1. y < r => (y + 1) * Columns <= b
    BY <1>1
  <2>2. (y + 1) * Columns = a + Columns
    BY <1>1
  <2> QED
    BY <2>1, <2>2
<1>4. r < y => b + Columns <= a
  <2>1. r < y => (r + 1) * Columns <= a
    BY <1>1
  <2>2. (r + 1) * Columns = b + Columns
    BY <1>1
  <2> QED
    BY <2>1, <2>2
<1>5. y = r => a = b
  OBVIOUS
<1>6. a + x = b + c
  BY DEF Offset
<1> HIDE DEF a, b
<1> QED
  BY <1>1, <1>2, <1>3, <1>4, <1>5, <1>6

\* The two bytes move_cursor() writes make up the location.
LEMMA TwoBytes ==
    ASSUME NEW o \in Nat, o < BYTE * BYTE
    PROVE  /\ (o \div BYTE) % BYTE \in 0..BYTE - 1 /\ o % BYTE \in 0..BYTE - 1
           /\ ((o \div BYTE) % BYTE) * BYTE + (o % BYTE) = o
<1>1. BYTE \in Nat /\ BYTE > 0
  BY ConsoleAssumption DEF ConsoleAssumption
<1> DEFINE q == o \div BYTE
<1>2. q \in Nat /\ o = BYTE * q + (o % BYTE) /\ o % BYTE \in 0..BYTE - 1
  BY <1>1
<1>3. q < BYTE
  <2> HIDE DEF q
  <2> SUFFICES ASSUME q >= BYTE PROVE FALSE
    BY <1>1, <1>2
  <2>1. BYTE * q >= BYTE * BYTE
    BY <1>1, <1>2
  <2> QED
    BY <1>1, <1>2, <2>1
<1> HIDE DEF q
<1>4. q % BYTE = q
  BY <1>1, <1>2, <1>3
<1>5. q * BYTE = BYTE * q
  BY <1>1, <1>2
<1> QED
  BY <1>1, <1>2, <1>3, <1>4, <1>5 DEF q

\* A tab moves on by 1 to TabStop columns, to a multiple of TabStop.
LEMMA TabMoves ==
    ASSUME NEW x \in Nat
    PROVE  \E k \in 1..TabStop : NextTab(x) = x + k /\ (x + k) % TabStop = 0
<1>1. TabStop \in Nat /\ TabStop > 0
  BY ConsoleAssumption DEF ConsoleAssumption
<1> DEFINE s == x + TabStop
           q == s \div TabStop
<1>2. s \in Nat /\ q \in Nat /\ s = TabStop * q + (s % TabStop) /\ s % TabStop \in 0..TabStop - 1
  BY <1>1
<1> DEFINE k == TabStop - (s % TabStop)
<1>3. k \in 1..TabStop
  BY <1>1, <1>2
<1>4. x + k = TabStop * q
  BY <1>1, <1>2
<1>5. q * TabStop = TabStop * q
  BY <1>1, <1>2
<1>6. (TabStop * q) % TabStop = 0
  <2> HIDE DEF q
  <2> QED
    BY <1>1, <1>2
<1>7. NextTab(x) = q * TabStop
  BY DEF NextTab
<1> HIDE DEF k, q
<1> QED
  BY <1>3, <1>4, <1>5, <1>6, <1>7
-----------------------------------------------------------------------------
(* The text memory. *)

\* The text memory holds cells on the screen and nothing was written behind it.
Memory(v) ==
    /\ v \in [0..MEMORY - 1 -> Cells \cup {Unused}]
    /\ \A i \in 0..MEMORY - 1 : IF i < Rows * Columns THEN v[i] \in Cells ELSE v[i] = Unused

\* A character written on the screen keeps the type of the memory.
LEMMA PutMemory ==
    ASSUME NEW v, Memory(v), NEW x \in 0..Columns - 1, NEW y \in 0..Rows - 1, NEW g \in Cells
    PROVE  Memory([v EXCEPT ![Offset(x, y)] = g])
<1>1. Offset(x, y) \in 0..MEMORY - 1 /\ Offset(x, y) < Rows * Columns
  BY OffsetBounds, ConsoleAssumption DEF ConsoleAssumption
<1> QED
  BY <1>1 DEF Memory

\* So does scroll().
LEMMA ScrolledMemory ==
    ASSUME NEW v, Memory(v)
    PROVE  Memory(Scrolled(v))
<1>1. Columns \in Nat /\ Rows \in Nat /\ MEMORY \in Nat /\ Blank \in Cells
      /\ Rows * Columns <= MEMORY
  BY ConsoleAssumption DEF ConsoleAssumption
<1> DEFINE m == Rows * Columns
           l == (Rows - 1) * Columns
<1>2. m = l + Columns /\ m \in Nat /\ l \in Int
  BY <1>1
<1>3. m <= MEMORY
  BY <1>1
<1>4. \A i \in 0..MEMORY - 1 : i < l => i < m /\ i + Columns \in 0..MEMORY - 1 /\ i + Columns < m
  <2> HIDE DEF m, l
  <2> QED
    BY <1>1, <1>2, <1>3
<1>5. Scrolled(v) = [i \in 0..MEMORY - 1 |-> IF i < l THEN v[i + Columns]
                                             ELSE IF i < m THEN Blank ELSE v[i]]
  BY DEF Scrolled
<1>6. \A i \in 0..MEMORY - 1 : IF i < m THEN v[i] \in Cells ELSE v[i] = Unused
  BY DEF Memory
<1> HIDE DEF m, l
<1>7. \A i \in 0..MEMORY - 1 : IF i < m THEN Scrolled(v)[i] \in Cells ELSE Scrolled(v)[i] = Unused
  BY <1>1, <1>4, <1>5, <1>6
<1>8. Scrolled(v) \in [0..MEMORY - 1 -> Cells \cup {Unused}]
  BY <1>5, <1>7
<1> QED
  BY <1>7, <1>8 DEF Memory, m

-----------------------------------------------------------------------------
(* The invariants. *)

\* The inductive invariant of Console.
Inv == /\ Memory(video_memory)
       /\ cursor_x \in 0..Columns - 1 /\ cursor_y \in 0..Rows - 1
       /\ crtc \in [high : 0..BYTE - 1, low : 0..BYTE - 1]
       /\ HardwareCursor

\* The two registers that move_cursor() writes hold every place of the screen.
LEMMA CursorShown ==
    ASSUME NEW x \in 0..Columns - 1, NEW y \in 0..Rows - 1
    PROVE  /\ move_cursor(x, y) \in [high : 0..BYTE - 1, low : 0..BYTE - 1]
           /\ move_cursor(x, y).high * BYTE + move_cursor(x, y).low = Offset(x, y)
<1>1. Offset(x, y) \in Nat /\ Offset(x, y) < BYTE * BYTE
  BY OffsetBounds
<1> QED
  BY <1>1, TwoBytes DEF move_cursor

\* Whatever a branch of console_putc_color did, its end brings the cursor back
\* to the screen.
LEMMA FinishInv ==
    ASSUME NEW x \in Nat, NEW y \in 0..Rows, PastLine(x) => y < Rows,
           NEW cells, Memory(cells), Finish(x, y, cells)
    PROVE  Inv'
<1>1. Columns \in Nat /\ Rows \in Nat /\ Columns > 0 /\ Rows > 0
  BY ConsoleAssumption DEF ConsoleAssumption
<1>2. cursor_x' \in 0..Columns - 1 /\ cursor_y' \in 0..Rows - 1
  BY <1>1 DEF Finish, PastLine, PastScreen
<1>3. Memory(video_memory')
  BY ScrolledMemory DEF Finish
<1>4. crtc' = move_cursor(cursor_x', cursor_y')
  BY DEF Finish
<1>5. Memory(video_memory)'
  BY <1>3 DEF Memory
<1> QED
  BY <1>2, <1>4, <1>5, CursorShown DEF Inv, HardwareCursor

\* console_clear() establishes the invariant.
LEMMA InitInv == Init => Inv
<1> SUFFICES ASSUME Init PROVE Inv
  OBVIOUS
<1>1. 0 \in 0..Columns - 1 /\ 0 \in 0..Rows - 1 /\ Blank \in Cells
  BY ConsoleAssumption DEF ConsoleAssumption
<1>2. Memory(video_memory)
  BY <1>1 DEF Init, Cleared, Memory
<1> QED
  BY <1>1, <1>2, CursorShown DEF Init, Inv, HardwareCursor

\* Every character keeps it.
LEMMA NextInv == Inv /\ [Next]_vars => Inv'
<1> SUFFICES ASSUME Inv, [Next]_vars PROVE Inv'
  OBVIOUS
<1>1. /\ Memory(video_memory) /\ Blank \in Cells
      /\ cursor_x \in Nat /\ cursor_y \in Nat /\ cursor_x < Columns /\ cursor_y < Rows
      /\ Columns \in Nat /\ Rows \in Nat /\ TabStop \in Nat /\ Columns > 0 /\ Rows > 0
  BY ConsoleAssumption DEF ConsoleAssumption, Inv
<1>2. CASE Backspace
  BY <1>1, <1>2, FinishInv DEF Backspace
<1>3. CASE Tab
  <2>1. NextTab(cursor_x) \in Nat
    BY <1>1, TabMoves
  <2> QED
    BY <1>1, <1>3, <2>1, FinishInv DEF Tab
<1>4. CASE CarriageReturn
  BY <1>1, <1>4, FinishInv DEF CarriageReturn
<1>5. CASE LineFeed
  BY <1>1, <1>5, FinishInv DEF LineFeed, PastLine
<1>6. CASE Printable
  <2> PICK g \in Cells :
        Finish(cursor_x + 1, cursor_y, [video_memory EXCEPT ![Offset(cursor_x, cursor_y)] = g])
    BY <1>6 DEF Printable
  <2>1. Memory([video_memory EXCEPT ![Offset(cursor_x, cursor_y)] = g])
    BY <1>1, PutMemory
  <2> QED
    BY <1>1, <2>1, FinishInv
<1>7. CASE Ignored
  BY <1>1, <1>7, FinishInv DEF Ignored
<1>8. CASE console_clear
  <2>1. Memory(video_memory')
    BY <1>1, <1>8 DEF console_clear, Memory
  <2>2. Memory(video_memory)'
    BY <2>1 DEF Memory
  <2>3. 0 \in 0..Columns - 1 /\ 0 \in 0..Rows - 1
    BY <1>1
  <2> QED
    BY <2>2, <2>3, <1>8, CursorShown DEF console_clear, Inv, HardwareCursor
<1>9. CASE UNCHANGED vars
  BY <1>9 DEF Inv, vars, Memory, HardwareCursor
<1> QED
  BY <1>2, <1>3, <1>4, <1>5, <1>6, <1>7, <1>8, <1>9 DEF Next, console_putc_color

\* So it always holds.
LEMMA Invariance == Spec => []Inv
<1> QED
  BY InitInv, NextInv, PTL DEF Spec

\* After every character the cursor is on the screen (console_putc_color's
\* wrap and scroll()), whatever the sizes and whatever is printed.
THEOREM CursorOnScreen == Spec => []TypeOK
<1>1. Inv => TypeOK
  BY DEF Inv, TypeOK, Memory
<1> QED
  BY <1>1, Invariance, PTL

\* Nothing is ever written to the text memory behind the screen.
THEOREM NothingBehindScreen == Spec => []StaysOnScreen
<1>1. Inv => StaysOnScreen
  BY DEF Inv, StaysOnScreen, Memory
<1> QED
  BY <1>1, Invariance, PTL

\* The two bytes sent to the controller always name the cursor's cell.
THEOREM CursorIsShown == Spec => []HardwareCursor
<1>1. Inv => HardwareCursor
  BY DEF Inv
<1> QED
  BY <1>1, Invariance, PTL

-----------------------------------------------------------------------------
(* The console implements the Terminal. *)

\* The lines that an array of cells shows.
Lines(v) == [r \in 0..Rows - 1 |-> [c \in 0..Columns - 1 |-> v[Offset(c, r)]]]

\* A character changes one cell of one line.
LEMMA PutLines ==
    ASSUME NEW v, Memory(v), NEW x \in 0..Columns - 1, NEW y \in 0..Rows - 1, NEW g \in Cells
    PROVE  Lines([v EXCEPT ![Offset(x, y)] = g]) = [Lines(v) EXCEPT ![y][x] = g]
<1> DEFINE w == [v EXCEPT ![Offset(x, y)] = g]
<1>1. DOMAIN v = 0..MEMORY - 1 /\ MEMORY \in Nat
  BY ConsoleAssumption DEF ConsoleAssumption, Memory
<1>2. \A c \in 0..Columns - 1, r \in 0..Rows - 1 :
         w[Offset(c, r)] = IF c = x /\ r = y THEN g ELSE v[Offset(c, r)]
  <2> TAKE c \in 0..Columns - 1, r \in 0..Rows - 1
  <2>1. Offset(c, r) \in DOMAIN v /\ Offset(x, y) \in DOMAIN v
    BY <1>1, OffsetBounds
  <2>2. Offset(c, r) = Offset(x, y) => c = x /\ r = y
    BY OffsetInjective
  <2> QED
    BY <2>1, <2>2
<1> HIDE DEF w
<1>3. \A r \in 0..Rows - 1 :
         [c \in 0..Columns - 1 |-> w[Offset(c, r)]]
           = IF r = y THEN [[c \in 0..Columns - 1 |-> v[Offset(c, r)]] EXCEPT ![x] = g]
             ELSE [c \in 0..Columns - 1 |-> v[Offset(c, r)]]
  BY <1>2
<1>4. Lines(w) = [Lines(v) EXCEPT ![y][x] = g]
  BY <1>3 DEF Lines
<1> QED
  BY <1>4 DEF w

\* scroll() moves every line up by one and leaves a blank line at the bottom.
LEMMA ScrolledLines ==
    ASSUME NEW v, Memory(v)
    PROVE  Lines(Scrolled(v)) =
             [r \in 0..Rows - 1 |-> IF r = Rows - 1 THEN Screen!BlankLine ELSE Lines(v)[r + 1]]
<1>1. Rows \in Nat /\ MEMORY \in Nat /\ Columns \in Nat
  BY ConsoleAssumption DEF ConsoleAssumption
<1>2. \A c \in 0..Columns - 1, r \in 0..Rows - 1 :
         Scrolled(v)[Offset(c, r)] = IF r = Rows - 1 THEN Blank ELSE v[Offset(c, r + 1)]
  <2> TAKE c \in 0..Columns - 1, r \in 0..Rows - 1
  <2> DEFINE o == Offset(c, r)
  <2>1. /\ o \in 0..MEMORY - 1 /\ o < Rows * Columns
        /\ r = Rows - 1 => ~(o < (Rows - 1) * Columns)
        /\ r # Rows - 1 => o < (Rows - 1) * Columns /\ o + Columns = Offset(c, r + 1)
    BY <1>1, OffsetBounds
  <2>2. Scrolled(v)[o] = IF o < (Rows - 1) * Columns THEN v[o + Columns]
                         ELSE IF o < Rows * Columns THEN Blank ELSE v[o]
    BY <2>1 DEF Scrolled
  <2> HIDE DEF o
  <2>3. Scrolled(v)[o] = IF r = Rows - 1 THEN Blank ELSE v[Offset(c, r + 1)]
    BY <2>1, <2>2
  <2> QED
    BY <2>3 DEF o
<1>3. \A r \in 0..Rows - 1 : r # Rows - 1 => r + 1 \in 0..Rows - 1
  BY <1>1
<1>4. \A r \in 0..Rows - 1 :
         [c \in 0..Columns - 1 |-> Scrolled(v)[Offset(c, r)]]
           = IF r = Rows - 1 THEN [c \in 0..Columns - 1 |-> Blank]
             ELSE [c \in 0..Columns - 1 |-> v[Offset(c, r + 1)]]
  BY <1>2
<1> QED
  BY <1>3, <1>4 DEF Lines, Screen!BlankLine

\* The end of console_putc_color does what the terminal does with a cursor
\* that stays in its line or leaves it to the right.
LEMMA FinishGoTo ==
    ASSUME Inv, NEW x \in Nat, NEW cells, Memory(cells), Finish(x, cursor_y, cells)
    PROVE  Screen!GoTo(x, Lines(cells))
<1>1. /\ Columns \in Nat /\ Rows \in Nat /\ Rows > 0
      /\ cursor_y \in Nat /\ cursor_y < Rows
  BY ConsoleAssumption DEF ConsoleAssumption, Inv
<1>2. CASE x < Columns
  BY <1>1, <1>2 DEF Finish, PastLine, PastScreen, Screen!GoTo, Lines
<1>3. CASE x >= Columns /\ cursor_y < Rows - 1
  BY <1>1, <1>3 DEF Finish, PastLine, PastScreen, Screen!GoTo, Screen!NextLine, Lines
<1>4. CASE x >= Columns /\ cursor_y = Rows - 1
  <2>1. video_memory' = Scrolled(cells) /\ cursor_x' = 0 /\ cursor_y' = Rows - 1
    BY <1>1, <1>4 DEF Finish, PastLine, PastScreen
  <2>2. Lines(video_memory') =
          [r \in 0..Rows - 1 |-> IF r = Rows - 1 THEN Screen!BlankLine ELSE Lines(cells)[r + 1]]
    BY <2>1, ScrolledLines
  <2> QED
    BY <1>4, <2>1, <2>2 DEF Screen!GoTo, Screen!NextLine, Lines
<1> QED
  BY <1>1, <1>2, <1>3, <1>4

\* A line feed.
LEMMA FinishNextLine ==
    ASSUME Inv, Finish(0, cursor_y + 1, video_memory)
    PROVE  Screen!NextLine(Lines(video_memory))
<1>1. /\ Columns \in Nat /\ Columns > 0 /\ Rows \in Nat /\ Rows > 0
      /\ cursor_y \in Nat /\ cursor_y < Rows /\ Memory(video_memory)
  BY ConsoleAssumption DEF ConsoleAssumption, Inv
<1>2. CASE cursor_y < Rows - 1
  BY <1>1, <1>2 DEF Finish, PastLine, PastScreen, Screen!NextLine, Lines
<1>3. CASE cursor_y = Rows - 1
  <2>1. video_memory' = Scrolled(video_memory) /\ cursor_x' = 0 /\ cursor_y' = Rows - 1
    BY <1>1, <1>3 DEF Finish, PastLine, PastScreen
  <2>2. Lines(video_memory') =
          [r \in 0..Rows - 1 |->
             IF r = Rows - 1 THEN Screen!BlankLine ELSE Lines(video_memory)[r + 1]]
    BY <1>1, <2>1, ScrolledLines
  <2> QED
    BY <1>3, <2>1, <2>2 DEF Screen!NextLine, Lines
<1> QED
  BY <1>1, <1>2, <1>3

\* A cleared array of cells is a blank screen.
LEMMA InitRefines == Init => Screen!Init
<1> SUFFICES ASSUME Init PROVE Screen!Init
  OBVIOUS
<1>1. MEMORY \in Nat
  BY ConsoleAssumption DEF ConsoleAssumption
<1>2. \A c \in 0..Columns - 1, r \in 0..Rows - 1 : video_memory[Offset(c, r)] = Blank
  BY <1>1, OffsetBounds DEF Init, Cleared
<1> QED
  BY <1>2 DEF Init, Screen!Init, Screen!BlankLine

\* Every step of the console is a step of the terminal or changes nothing on
\* the screen.
LEMMA NextRefines ==
    Inv /\ [Next]_vars => [Screen!Next]_<<Lines(video_memory), cursor_y, cursor_x>>
<1> SUFFICES ASSUME Inv, [Next]_vars
             PROVE  Screen!Next \/ UNCHANGED <<Lines(video_memory), cursor_y, cursor_x>>
  OBVIOUS
<1>1. /\ Memory(video_memory) /\ cursor_x \in 0..Columns - 1 /\ cursor_y \in 0..Rows - 1
      /\ cursor_x \in Nat /\ Columns \in Nat /\ Rows \in Nat /\ TabStop \in Nat
      /\ MEMORY \in Nat
  BY ConsoleAssumption DEF ConsoleAssumption, Inv
<1>2. CASE Backspace
  <2>1. cursor_x > 0 /\ cursor_x - 1 \in Nat
    BY <1>1, <1>2 DEF Backspace
  <2>2. Screen!GoTo(cursor_x - 1, Lines(video_memory))
    BY <1>1, <1>2, <2>1, FinishGoTo DEF Backspace
  <2> QED
    BY <2>1, <2>2 DEF Screen!Next, Lines
<1>3. CASE Tab
  <2> PICK k \in 1..TabStop : NextTab(cursor_x) = cursor_x + k /\ (cursor_x + k) % TabStop = 0
    BY <1>1, TabMoves
  <2>1. cursor_x + k \in Nat
    BY <1>1
  <2>2. Screen!GoTo(cursor_x + k, Lines(video_memory))
    BY <1>1, <1>3, <2>1, FinishGoTo DEF Tab
  <2> QED
    BY <2>2 DEF Screen!Next, Lines
<1>4. CASE CarriageReturn
  <2>1. Screen!GoTo(0, Lines(video_memory))
    BY <1>1, <1>4, FinishGoTo DEF CarriageReturn
  <2> QED
    BY <2>1 DEF Screen!Next, Lines
<1>5. CASE LineFeed
  <2>1. Screen!NextLine(Lines(video_memory))
    BY <1>5, FinishNextLine DEF LineFeed
  <2> QED
    BY <2>1 DEF Screen!Next, Lines
<1>6. CASE Printable
  <2> PICK g \in Cells :
        Finish(cursor_x + 1, cursor_y, [video_memory EXCEPT ![Offset(cursor_x, cursor_y)] = g])
    BY <1>6 DEF Printable
  <2> DEFINE put == [video_memory EXCEPT ![Offset(cursor_x, cursor_y)] = g]
  <2>1. Memory(put)
    BY <1>1, PutMemory
  <2>2. Lines(put) = [Lines(video_memory) EXCEPT ![cursor_y][cursor_x] = g]
    BY <1>1, PutLines
  <2>3. Finish(cursor_x + 1, cursor_y, put) /\ cursor_x + 1 \in Nat
    BY <1>1
  <2> HIDE DEF put
  <2>4. Screen!GoTo(cursor_x + 1, Lines(put))
    BY <2>1, <2>3, FinishGoTo
  <2> QED
    BY <2>2, <2>4 DEF Screen!Next, Lines
<1>7. CASE Ignored
  BY <1>1, <1>7 DEF Ignored, Finish, PastLine, PastScreen, Lines
<1>8. CASE console_clear
  <2>1. \A c \in 0..Columns - 1, r \in 0..Rows - 1 : video_memory'[Offset(c, r)] = Blank
    BY <1>1, <1>8, OffsetBounds DEF console_clear
  <2> QED
    BY <1>8, <2>1 DEF console_clear, Screen!Next, Screen!BlankLine
<1>9. CASE UNCHANGED vars
  BY <1>9 DEF vars, Lines
<1> QED
  BY <1>2, <1>3, <1>4, <1>5, <1>6, <1>7, <1>8, <1>9 DEF Next, console_putc_color

\* The console is a screen of lines that scrolls: the flat array, the wrap at
\* the right margin and scroll() never lose or tear a line.
THEOREM ConsoleImplementsTerminal == Spec => ImplementsTerminal
<1>1. [Screen!Next]_<<Lines(video_memory), cursor_y, cursor_x>>
        => [Screen!Next]_<<[r \in 0..Rows - 1 |-> [c \in 0..Columns - 1 |-> video_memory[Offset(c, r)]]],
                           cursor_y, cursor_x>>
  BY DEF Lines
<1> QED
  BY <1>1, InitRefines, NextRefines, Invariance, PTL DEF Spec, ImplementsTerminal, Screen!Spec

\* Cursor and text stay where the screen is.
THEOREM AlwaysOnScreen == Spec => []OnScreen
<1>1. TypeOK /\ StaysOnScreen => OnScreen
  BY DEF OnScreen
<1> QED
  BY <1>1, CursorOnScreen, NothingBehindScreen, PTL

-----------------------------------------------------------------------------
(* Induction over the natural numbers, from the least element of a set. *)

\* A set that holds 0, and with each number the next, holds all of them: otherwise
\* the least number missing has no predecessor.
LEMMA Induction ==
    ASSUME NEW S, 0 \in S, \A n \in Nat : n \in S => n + 1 \in S
    PROVE  \A n \in Nat : n \in S
<1> SUFFICES ASSUME NEW k \in Nat, k \notin S PROVE FALSE
  OBVIOUS
<1> DEFINE T == Nat \ S
<1>1. PICK m \in T : \A n \in T : <<n, m>> \notin OpToRel(<, Nat)
  <2>1. k \in T
    OBVIOUS
  <2> QED
    BY <2>1, NatLessThanWellFounded, WFMin
<1>2. m # 0 /\ m - 1 \in Nat /\ m - 1 < m
  OBVIOUS
<1>3. m - 1 \in T
  <2>1. m - 1 \in S => (m - 1) + 1 \in S
    BY <1>2
  <2> QED
    BY <1>2, <2>1
<1> QED
  BY <1>1, <1>2, <1>3 DEF OpToRel

\* A set of natural numbers has a least one.
LEMMA Least ==
    ASSUME NEW S, S \subseteq Nat, S # {}
    PROVE  \E m \in S : \A n \in S : m <= n
<1>1. PICK m \in S : \A n \in S : <<n, m>> \notin OpToRel(<, Nat)
  BY NatLessThanWellFounded, WFMin
<1>2. ASSUME NEW n \in S PROVE m <= n
  <2>1. ~(n < m)
    BY <1>1 DEF OpToRel
  <2> QED
    BY <2>1
<1> QED
  BY <1>2

\* A table in which every entry is made of the one before it.
IsTable(f, b, d, m) == f = [n \in 0..m |-> IF n = 0 THEN 0 ELSE b * f[n - 1] + d[n]]

\* There is one, entry by entry.
LEMMA TableExists ==
    ASSUME NEW b, NEW d, NEW m \in Nat
    PROVE  \E f : IsTable(f, b, d, m)
<1> DEFINE T == {k \in Nat : \E f : IsTable(f, b, d, k)}
<1>1. 0 \in T
  <2>1. IsTable([n \in 0..0 |-> 0], b, d, 0)
    BY DEF IsTable
  <2> QED
    BY <2>1
<1>2. ASSUME NEW k \in Nat, k \in T PROVE k + 1 \in T
  <2>1. PICK f : IsTable(f, b, d, k)
    BY <1>2
  <2> DEFINE g == [n \in 0..k + 1 |-> IF n = k + 1 THEN b * f[k] + d[k + 1] ELSE f[n]]
  <2>2. ASSUME NEW n \in 0..k + 1
        PROVE  g[n] = IF n = 0 THEN 0 ELSE b * g[n - 1] + d[n]
    <3>1. CASE n = k + 1
      <4>1. g[n] = b * f[k] + d[n] /\ n - 1 = k /\ k \in 0..k + 1 /\ k # k + 1 /\ n # 0
        BY <3>1
      <4>2. g[n - 1] = f[k]
        BY <4>1
      <4> QED
        BY <4>1, <4>2
    <3>2. CASE n # k + 1
      <4>1. n \in 0..k
        BY <3>2
      <4>2. g[n] = f[n] /\ f[n] = IF n = 0 THEN 0 ELSE b * f[n - 1] + d[n]
        BY <2>1, <3>2, <4>1 DEF IsTable
      <4>3. n # 0 => g[n - 1] = f[n - 1]
        BY <4>1
      <4> QED
        BY <4>2, <4>3
    <3> QED
      BY <3>1, <3>2
  <2>3. IsTable(g, b, d, k + 1)
    <3>1. g = [n \in 0..k + 1 |-> g[n]]
      OBVIOUS
    <3> HIDE DEF g
    <3> QED
      BY <2>2, <3>1 DEF IsTable
  <2> HIDE DEF g
  <2> QED
    BY <2>3
<1>3. m \in T
  <2> HIDE DEF T
  <2> QED
    BY <1>1, <1>2, Induction
<1> QED
  BY <1>3

\* The values of a sequence of digits.
DigitValues(digits) == [n \in 1..Len(digits) |-> DigitValue(digits[n])]

\* The recursion of Value is such a table, and Value its last entry.
LEMMA ValueTable ==
    ASSUME NEW digits, NEW base, Len(digits) \in Nat
    PROVE  \E f : /\ IsTable(f, base, DigitValues(digits), Len(digits))
                  /\ Value(digits, base) = f[Len(digits)]
<1> DEFINE Is(f) == f = [n \in 0..Len(digits) |-> IF n = 0 THEN 0
                             ELSE base * f[n - 1] + DigitValue(digits[n])]
<1>1. ASSUME NEW f PROVE Is(f) <=> IsTable(f, base, DigitValues(digits), Len(digits))
  <2>1. ASSUME NEW n \in 0..Len(digits)
        PROVE  (IF n = 0 THEN 0 ELSE base * f[n - 1] + DigitValue(digits[n]))
                = (IF n = 0 THEN 0 ELSE base * f[n - 1] + DigitValues(digits)[n])
    <3>1. n # 0 => DigitValue(digits[n]) = DigitValues(digits)[n]
      BY DEF DigitValues
    <3> QED
      BY <3>1
  <2> QED
    BY <2>1 DEF IsTable
<1>2. Value(digits, base) = (CHOOSE g : Is(g))[Len(digits)]
  BY DEF Value
<1>3. Is(CHOOSE g : Is(g))
  <2>1. \E f : IsTable(f, base, DigitValues(digits), Len(digits))
    BY TableExists
  <2> HIDE DEF Is
  <2> QED
    BY <1>1, <2>1
<1> HIDE DEF Is
<1> QED
  BY <1>1, <1>2, <1>3

\* Two tables agree as far as what they are made of does.
LEMMA TablesAgree ==
    ASSUME NEW b, NEW d, NEW e, NEW f, NEW g, NEW m \in Nat, NEW n \in Nat, m <= n,
           IsTable(f, b, d, m), IsTable(g, b, e, n), \A i \in 1..m : d[i] = e[i]
    PROVE  \A k \in 0..m : f[k] = g[k]
<1> DEFINE T == {k \in Nat : k <= m => f[k] = g[k]}
<1>1. 0 \in T
  BY DEF IsTable
<1>2. ASSUME NEW k \in Nat, k \in T PROVE k + 1 \in T
  <2> SUFFICES ASSUME k + 1 <= m PROVE f[k + 1] = g[k + 1]
    OBVIOUS
  <2>1. k + 1 \in 0..m /\ k + 1 \in 0..n /\ k + 1 # 0 /\ (k + 1) - 1 = k /\ k + 1 \in 1..m
    OBVIOUS
  <2>2. f[k + 1] = b * f[k] + d[k + 1]
    BY <2>1 DEF IsTable
  <2>3. g[k + 1] = b * g[k] + e[k + 1]
    BY <2>1 DEF IsTable
  <2>4. f[k] = g[k] /\ d[k + 1] = e[k + 1]
    BY <1>2, <2>1
  <2> QED
    BY <2>2, <2>3, <2>4
<1>3. \A k \in Nat : k \in T
  <2> HIDE DEF T
  <2> QED
    BY <1>1, <1>2, Induction
<1> QED
  BY <1>3

\* One more digit multiplies by the base and adds the digit.
LEMMA ValueAppend ==
    ASSUME NEW S, NEW s \in Seq(S), NEW c \in S, NEW base
    PROVE  Value(Append(s, c), base) = base * Value(s, base) + DigitValue(c)
<1> DEFINE t == Append(s, c)
           n == Len(s)
<1>1. /\ n \in Nat /\ Len(t) = n + 1 /\ n + 1 \in Nat
      /\ \A i \in 1..n : t[i] = s[i]
      /\ t[n + 1] = c
  BY AppendProperties, LenProperties
<1> HIDE DEF t, n
<1>2. PICK f : IsTable(f, base, DigitValues(s), n) /\ Value(s, base) = f[n]
  BY <1>1, ValueTable DEF n
<1>3. PICK g : IsTable(g, base, DigitValues(t), n + 1) /\ Value(t, base) = g[n + 1]
  BY <1>1, ValueTable
<1>4. \A i \in 1..n : DigitValues(s)[i] = DigitValues(t)[i]
  <2> SUFFICES ASSUME NEW i \in 1..n PROVE DigitValues(s)[i] = DigitValues(t)[i]
    OBVIOUS
  <2>1. i \in 1..n + 1
    BY <1>1
  <2>2. DigitValues(s)[i] = DigitValue(s[i])
    BY DEF DigitValues, n
  <2>3. DigitValues(t)[i] = DigitValue(t[i])
    BY <1>1, <2>1 DEF DigitValues
  <2> QED
    BY <1>1, <2>2, <2>3
<1>5. f[n] = g[n]
  <2>1. n <= n + 1 /\ n \in 0..n
    BY <1>1
  <2> QED
    BY <1>1, <1>2, <1>3, <1>4, <2>1, TablesAgree
<1>6. g[n + 1] = base * g[n] + DigitValues(t)[n + 1]
  <2>1. n + 1 \in 0..n + 1 /\ n + 1 # 0 /\ (n + 1) - 1 = n
    BY <1>1
  <2> QED
    BY <1>3, <2>1 DEF IsTable
<1>7. DigitValues(t)[n + 1] = DigitValue(c)
  <2>1. n + 1 \in 1..n + 1
    BY <1>1
  <2> QED
    BY <1>1, <2>1 DEF DigitValues
<1> QED
  BY <1>2, <1>3, <1>5, <1>6, <1>7 DEF t

\* Zeros in front make no difference.
WithZeros(s, z, t) ==
    /\ Len(s) = z + Len(t)
    /\ \A i \in 1..z : DigitValue(s[i]) = 0
    /\ \A i \in 1..Len(t) : s[z + i] = t[i]

\* Zeros in front of a number do not change it.
LEMMA ValueLeadingZeros ==
    ASSUME NEW S, NEW s \in Seq(S), NEW t \in Seq(S), NEW z \in Nat, NEW base \in Nat,
           WithZeros(s, z, t)
    PROVE  Value(s, base) = Value(t, base)
<1>0. /\ Len(s) = z + Len(t)
      /\ \A i \in 1..z : DigitValue(s[i]) = 0
      /\ \A i \in 1..Len(t) : s[z + i] = t[i]
  BY DEF WithZeros
<1>1. Len(s) \in Nat /\ Len(t) \in Nat
  BY LenProperties
<1>2. PICK f : IsTable(f, base, DigitValues(s), Len(s)) /\ Value(s, base) = f[Len(s)]
  BY <1>1, ValueTable
<1>3. PICK g : IsTable(g, base, DigitValues(t), Len(t)) /\ Value(t, base) = g[Len(t)]
  BY <1>1, ValueTable
<1>4. ASSUME NEW i \in 1..Len(s) PROVE /\ i # 0 /\ i - 1 \in 0..Len(s)
                                       /\ f[i] = base * f[i - 1] + DigitValue(s[i])
  <2>1. i # 0 /\ i \in 0..Len(s) /\ i - 1 \in 0..Len(s)
    BY <1>1
  <2>2. f[i] = base * f[i - 1] + DigitValues(s)[i]
    BY <1>2, <2>1 DEF IsTable
  <2>3. DigitValues(s)[i] = DigitValue(s[i])
    BY DEF DigitValues
  <2> QED
    BY <2>1, <2>2, <2>3
<1>5. ASSUME NEW i \in 1..Len(t) PROVE g[i] = base * g[i - 1] + DigitValue(t[i])
  <2>1. i # 0 /\ i \in 0..Len(t)
    BY <1>1
  <2>2. g[i] = base * g[i - 1] + DigitValues(t)[i]
    BY <1>3, <2>1 DEF IsTable
  <2>3. DigitValues(t)[i] = DigitValue(t[i])
    BY DEF DigitValues
  <2> QED
    BY <2>2, <2>3
<1>6. \A k \in 0..z : f[k] = 0
  <2> DEFINE T == {k \in Nat : k <= z => f[k] = 0}
  <2>1. 0 \in T
    BY <1>1, <1>2 DEF IsTable
  <2>2. ASSUME NEW k \in Nat, k \in T PROVE k + 1 \in T
    <3> SUFFICES ASSUME k + 1 <= z PROVE f[k + 1] = 0
      OBVIOUS
    <3>1. k + 1 \in 1..Len(s) /\ (k + 1) - 1 = k /\ k + 1 \in 1..z /\ k <= z
      BY <1>0, <1>1
    <3>2. f[k] = 0 /\ DigitValue(s[k + 1]) = 0
      BY <1>0, <2>2, <3>1
    <3>3. f[k + 1] = base * f[k] + DigitValue(s[k + 1])
      BY <1>4, <3>1
    <3>4. base * 0 + 0 = 0
      OBVIOUS
    <3> QED
      BY <3>2, <3>3, <3>4
  <2>3. \A k \in Nat : k \in T
    <3> HIDE DEF T
    <3> QED
      BY <2>1, <2>2, Induction
  <2> QED
    BY <2>3
<1>7. \A k \in 0..Len(t) : f[z + k] = g[k]
  <2> DEFINE T == {k \in Nat : k <= Len(t) => f[z + k] = g[k]}
  <2>1. 0 \in T
    <3>1. g[0] = 0
      BY <1>1, <1>3 DEF IsTable
    <3>2. z + 0 = z /\ z \in 0..z
      OBVIOUS
    <3> QED
      BY <1>6, <3>1, <3>2
  <2>2. ASSUME NEW k \in Nat, k \in T PROVE k + 1 \in T
    <3> SUFFICES ASSUME k + 1 <= Len(t) PROVE f[z + (k + 1)] = g[k + 1]
      OBVIOUS
    <3>1. /\ z + (k + 1) \in 1..Len(s) /\ (z + (k + 1)) - 1 = z + k
          /\ k + 1 \in 1..Len(t) /\ (k + 1) - 1 = k /\ k <= Len(t)
      BY <1>0, <1>1
    <3>2. f[z + (k + 1)] = base * f[z + k] + DigitValue(s[z + (k + 1)])
      BY <1>4, <3>1
    <3>3. g[k + 1] = base * g[k] + DigitValue(t[k + 1])
      BY <1>5, <3>1
    <3>4. f[z + k] = g[k] /\ s[z + (k + 1)] = t[k + 1]
      BY <1>0, <2>2, <3>1
    <3> QED
      BY <3>2, <3>3, <3>4
  <2>3. \A k \in Nat : k \in T
    <3> HIDE DEF T
    <3> QED
      BY <2>1, <2>2, Induction
  <2> QED
    BY <2>3
<1> QED
  <2>1. Len(t) \in 0..Len(t)
    BY <1>1
  <2> QED
    BY <1>0, <1>2, <1>3, <1>7, <2>1
-----------------------------------------------------------------------------
\* The characters of the two arrays number() takes its digits from.
DigitChars == {Small[i] : i \in 1..16} \cup {Large[i] : i \in 1..16}

\* Both arrays name the digits 0 to 15.
LEMMA DigitNames ==
    ASSUME NEW digits \in {Small, Large}
    PROVE  /\ Len(digits) = 16
           /\ \A k \in 0..15 : digits[k + 1] \in DigitChars /\ DigitValue(digits[k + 1]) = k
<1>1. Len(Small) = 16 /\ Len(Large) = 16
  BY DEF Small, Large
<1>2. ASSUME NEW k \in 0..15 PROVE digits[k + 1] \in DigitChars
  <2>1. k + 1 \in 1..16
    OBVIOUS
  <2> QED
    BY <2>1 DEF DigitChars
<1>3. ASSUME NEW i \in 1..16, NEW j \in 1..16,
             digits[i] \in {Small[j], Large[j]}
      PROVE  i = j
  <2>1. CASE digits = Small
    BY <1>3, <2>1 DEF Small, Large
  <2>2. CASE digits = Large
    BY <1>3, <2>2 DEF Small, Large
  <2> QED
    BY <2>1, <2>2
<1>4. ASSUME NEW k \in 0..15 PROVE DigitValue(digits[k + 1]) = k
  <2> DEFINE P(i) == digits[k + 1] \in {Small[i], Large[i]}
  <2>1. k + 1 \in 1..16 /\ P(k + 1)
    OBVIOUS
  <2>2. \A i \in 1..16 : P(i) => i = k + 1
    BY <1>3, <2>1
  <2> DEFINE place == CHOOSE i \in 1..16 : P(i)
  <2>3. DigitValue(digits[k + 1]) = place - 1
    BY DEF DigitValue
  <2>4. place = k + 1
    <3> HIDE DEF P
    <3> QED
      BY <2>1, <2>2
  <2> HIDE DEF place
  <2> QED
    BY <2>3, <2>4
<1> QED
  BY <1>1, <1>2, <1>4

\* A table of the digits of all numbers up to m, as Digits makes it.
IsDigits(f, m, base, digits) ==
    f = [n \in 0..m |-> IF n < base THEN << digits[n + 1] >>
                        ELSE Append(f[n \div base], digits[(n % base) + 1])]

\* do_div() leaves a smaller number and a digit.
LEMMA Quotient ==
    ASSUME NEW n \in Nat, NEW base \in Nat, 2 <= base, base <= n
    PROVE  /\ n \div base \in Nat /\ n \div base < n
           /\ n % base \in 0..base - 1 /\ n = base * (n \div base) + (n % base)
<1> DEFINE q == n \div base
           r == n % base
<1>1. q \in Int /\ r \in 0..base - 1 /\ n = base * q + r
  OBVIOUS
<1> HIDE DEF q, r
<1>2. q \in Nat
  <2>1. q < 0 => base * q <= -base
    BY <1>1
  <2> QED
    BY <1>1, <2>1
<1>3. q < n
  <2>1. q >= 1 => base * q >= 2 * q
    BY <1>1
  <2>2. 2 * q >= n => q >= 1
    BY <1>2
  <2> QED
    BY <1>1, <1>2, <2>1
<1> QED
  BY <1>1, <1>2, <1>3 DEF q, r

\* Such a table exists.
LEMMA DigitsExist ==
    ASSUME NEW m \in Nat, NEW base \in Nat, 2 <= base, NEW digits
    PROVE  \E f : IsDigits(f, m, base, digits)
<1> DEFINE T == {k \in Nat : \E f : IsDigits(f, k, base, digits)}
           Entry(f, n) == IF n < base THEN << digits[n + 1] >>
                          ELSE Append(f[n \div base], digits[(n % base) + 1])
<1>1. 0 \in T
  <2>1. IsDigits([n \in 0..0 |-> << digits[n + 1] >>], 0, base, digits)
    BY DEF IsDigits
  <2> QED
    BY <2>1
<1>2. ASSUME NEW k \in Nat, k \in T PROVE k + 1 \in T
  <2>1. PICK f : IsDigits(f, k, base, digits)
    BY <1>2
  <2>2. f = [n \in 0..k |-> Entry(f, n)]
    BY <2>1 DEF IsDigits
  <2> DEFINE g == [n \in 0..k + 1 |-> IF n = k + 1 THEN Entry(f, k + 1) ELSE f[n]]
  <2>3. ASSUME NEW n \in 0..k + 1 PROVE g[n] = Entry(g, n)
    <3>1. base <= n => g[n \div base] = f[n \div base]
      <4> SUFFICES ASSUME base <= n PROVE g[n \div base] = f[n \div base]
        OBVIOUS
      <4>1. n \div base \in Nat /\ n \div base < n
        BY Quotient
      <4>2. n \div base \in 0..k + 1 /\ n \div base # k + 1
        BY <4>1
      <4> QED
        BY <4>2
    <3>2. Entry(g, n) = Entry(f, n)
      BY <3>1
    <3>3. CASE n = k + 1
      <4>1. g[n] = Entry(f, n)
        BY <3>3
      <4> QED
        BY <3>2, <4>1
    <3>4. CASE n # k + 1
      <4>1. n \in 0..k
        BY <3>4
      <4>2. f[n] = Entry(f, n)
        <5> HIDE DEF Entry
        <5> QED
          BY <2>2, <4>1
      <4>3. g[n] = f[n]
        BY <3>4
      <4> HIDE DEF g, Entry
      <4> QED
        BY <3>2, <4>2, <4>3
    <3> HIDE DEF g, Entry
    <3> QED
      BY <3>3, <3>4
  <2>4. IsDigits(g, k + 1, base, digits)
    <3>1. g = [n \in 0..k + 1 |-> g[n]]
      OBVIOUS
    <3>2. g = [n \in 0..k + 1 |-> Entry(g, n)]
      <4> HIDE DEF g, Entry
      <4> QED
        BY <2>3, <3>1
    <3> HIDE DEF g
    <3> QED
      BY <3>2 DEF IsDigits
  <2> HIDE DEF g
  <2> QED
    BY <2>4
<1>3. \A k \in Nat : k \in T
  <2> HIDE DEF T
  <2> QED
    BY <1>1, <1>2, Induction
<1> QED
  BY <1>3

\* The digits that number() computes stand for its argument.
LEMMA DigitsFacts ==
    ASSUME NEW num \in Nat, NEW base \in 2..16, NEW digits \in {Small, Large}
    PROVE  /\ Digits(num, base, digits) \in Seq(DigitChars)
           /\ Len(Digits(num, base, digits)) \in Nat \ {0}
           /\ Value(Digits(num, base, digits), base) = num
<1> DEFINE tmp == CHOOSE f : IsDigits(f, num, base, digits)
<1>1. IsDigits(tmp, num, base, digits)
  <2>1. base \in Nat /\ 2 <= base
    OBVIOUS
  <2>2. \E f : IsDigits(f, num, base, digits)
    BY <2>1, DigitsExist
  <2> QED
    BY <2>2
<1>2. Digits(num, base, digits) = tmp[num]
  BY DEF Digits, IsDigits
<1> HIDE DEF tmp
<1> DEFINE Good(n) == /\ tmp[n] \in Seq(DigitChars) /\ Len(tmp[n]) \in Nat \ {0}
                      /\ Value(tmp[n], base) = n
           B == {n \in 0..num : ~Good(n)}
<1>3. ASSUME NEW n \in 0..num, n < base PROVE Good(n)
  <2>1. tmp[n] = << digits[n + 1] >>
    BY <1>1, <1>3 DEF IsDigits
  <2>2. n \in 0..15 /\ digits[n + 1] \in DigitChars /\ DigitValue(digits[n + 1]) = n
    BY <1>3, DigitNames
  <2> DEFINE c == digits[n + 1]
  <2> HIDE DEF c
  <2>3. << c >> = Append(<< >>, c) /\ << >> \in Seq(DigitChars) /\ c \in DigitChars
    BY <2>2 DEF c
  <2>4. Value(<< c >>, base) = base * Value(<< >>, base) + DigitValue(c)
    BY <2>3, ValueAppend
  <2>5. Value(<< >>, base) = 0
    <3>1. Len(<< >>) = 0 /\ 0 \in Nat
      OBVIOUS
    <3>2. PICK f : IsTable(f, base, DigitValues(<< >>), 0) /\ Value(<< >>, base) = f[0]
      BY <3>1, ValueTable
    <3> QED
      BY <3>2 DEF IsTable
  <2>6. Value(<< c >>, base) = n
    BY <2>2, <2>4, <2>5 DEF c
  <2>7. << c >> \in Seq(DigitChars) /\ Len(<< c >>) = 1
    BY <2>3
  <2> QED
    BY <2>1, <2>6, <2>7 DEF c
<1>4. ASSUME NEW n \in 0..num, base <= n, Good(n \div base) PROVE Good(n)
  <2> DEFINE q == n \div base
             r == n % base
             c == digits[r + 1]
  <2>1. q \in Nat /\ r \in 0..base - 1 /\ n = base * q + r
    <3>1. n \in Nat /\ base \in Nat /\ 2 <= base /\ base <= n
      BY <1>4
    <3> QED
      BY <3>1, Quotient
  <2>2. tmp[n] = Append(tmp[q], c)
    <3>1. ~(n < base)
      BY <1>4
    <3> QED
      BY <1>1, <3>1 DEF IsDigits
  <2>3. c \in DigitChars /\ DigitValue(c) = r
    <3>1. r \in 0..15
      BY <2>1
    <3> HIDE DEF r
    <3> QED
      BY <3>1, DigitNames
  <2>4. tmp[q] \in Seq(DigitChars) /\ Len(tmp[q]) \in Nat /\ Value(tmp[q], base) = q
    BY <1>4
  <2> HIDE DEF q, r, c
  <2>5. Value(Append(tmp[q], c), base) = base * q + r
    BY <2>3, <2>4, ValueAppend
  <2>6. Append(tmp[q], c) \in Seq(DigitChars) /\ Len(Append(tmp[q], c)) = Len(tmp[q]) + 1
    BY <2>3, <2>4, AppendProperties
  <2> QED
    BY <2>1, <2>2, <2>4, <2>5, <2>6
<1>5. B = {}
  <2> SUFFICES ASSUME B # {} PROVE FALSE
    OBVIOUS
  <2>1. B \subseteq Nat
    OBVIOUS
  <2>2. PICK n \in B : \A k \in B : n <= k
    <3> HIDE DEF B
    <3> QED
      BY <2>1, Least
  <2>3. n \in 0..num /\ ~Good(n)
    OBVIOUS
  <2>4. base <= n
    <3> HIDE DEF Good
    <3>1. ~(n < base)
      BY <1>3, <2>3
    <3> QED
      BY <2>3, <3>1
  <2>5. n \div base \in 0..num /\ n \div base < n
    <3>1. n \div base \in Nat /\ n \div base < n
      BY <2>3, <2>4, Quotient
    <3> QED
      BY <2>3, <3>1
  <2>6. Good(n \div base)
    <3>1. n \div base \notin B
      <4>1. ~(n <= n \div base)
        BY <2>3, <2>5
      <4> HIDE DEF B
      <4> QED
        BY <2>2, <4>1
    <3> QED
      BY <2>5, <3>1
  <2> HIDE DEF Good
  <2> QED
    BY <1>4, <2>3, <2>4, <2>6
<1>6. Good(num)
  <2>1. num \in 0..num
    OBVIOUS
  <2> HIDE DEF Good
  <2> QED
    BY <1>5, <2>1
<1> QED
  BY <1>2, <1>6
-----------------------------------------------------------------------------
(* What number() writes. *)

\* The characters number() writes.
Marks == DigitChars \cup {"+", "-", " ", "x", "X"}

\* Fill writes n characters, or none when n is negative.
LEMMA FillFacts ==
    ASSUME NEW S, NEW c \in S, NEW n \in Int
    PROVE  /\ Fill(c, n) \in Seq(S) /\ Len(Fill(c, n)) = AtLeast(n, 0)
           /\ AtLeast(n, 0) \in Nat
           /\ \A i \in 1..AtLeast(n, 0) : Fill(c, n)[i] = c
           /\ Fill(c, n) = Fill(c, AtLeast(n, 0))
<1> DEFINE k == AtLeast(n, 0)
<1>1. k \in Nat /\ 1..n = 1..k
  BY DEF AtLeast
<1> HIDE DEF k
<1>2. Fill(c, n) = [i \in 1..k |-> c] /\ Fill(c, k) = [i \in 1..k |-> c]
  BY <1>1 DEF Fill
<1>3. [i \in 1..k |-> c] \in Seq(S) /\ Len([i \in 1..k |-> c]) = k
  BY <1>1
<1> QED
  BY <1>1, <1>2, <1>3 DEF k

\* The same for a number of characters that is not negative.
LEMMA FillExactly ==
    ASSUME NEW S, NEW c \in S, NEW n \in Nat
    PROVE  /\ Fill(c, n) \in Seq(S) /\ Len(Fill(c, n)) = n
           /\ \A i \in 1..n : Fill(c, n)[i] = c
<1>1. AtLeast(n, 0) = n /\ n \in Int
  BY DEF AtLeast
<1> QED
  BY <1>1, FillFacts

\* Two fills with one character are one.
LEMMA FillTwice ==
    ASSUME NEW S, NEW c \in S, NEW m \in Nat, NEW n \in Nat
    PROVE  Fill(c, m) \o Fill(c, n) = Fill(c, m + n)
<1>1. /\ Fill(c, m) \in Seq(S) /\ Len(Fill(c, m)) = m /\ \A i \in 1..m : Fill(c, m)[i] = c
      /\ Fill(c, n) \in Seq(S) /\ Len(Fill(c, n)) = n /\ \A i \in 1..n : Fill(c, n)[i] = c
      /\ Fill(c, m + n) \in Seq(S) /\ Len(Fill(c, m + n)) = m + n
      /\ \A i \in 1..m + n : Fill(c, m + n)[i] = c
  <2>1. m + n \in Nat
    OBVIOUS
  <2> QED
    BY <2>1, FillExactly
<1> DEFINE u == Fill(c, m)
           v == Fill(c, n)
           w == u \o v
<1>2. /\ w \in Seq(S) /\ Len(w) = m + n
      /\ \A i \in 1..m + n : w[i] = IF i <= m THEN u[i] ELSE v[i - m]
  <2>1. u \in Seq(S) /\ Len(u) = m /\ v \in Seq(S) /\ Len(v) = n
    BY <1>1
  <2> HIDE DEF u, v
  <2>2. /\ w \in Seq(S) /\ Len(w) = Len(u) + Len(v)
        /\ \A i \in 1..Len(u) + Len(v) : w[i] = IF i <= Len(u) THEN u[i] ELSE v[i - Len(u)]
    BY <2>1, ConcatProperties
  <2> HIDE DEF w
  <2> QED
    BY <2>1, <2>2
<1> HIDE DEF w
<1>3. ASSUME NEW i \in 1..m + n PROVE w[i] = Fill(c, m + n)[i]
  <2>1. i <= m => i \in 1..m
    OBVIOUS
  <2>2. ~(i <= m) => i - m \in 1..n
    OBVIOUS
  <2> QED
    BY <1>1, <1>2, <2>1, <2>2
<1>4. w = Fill(c, m + n)
  BY <1>1, <1>2, <1>3, SeqEqual
<1> QED
  BY <1>4 DEF w

\* w is t set behind s: the m characters of s, and those of t up to n.
Behind(S, w, s, t, m, n) ==
    /\ w \in Seq(S) /\ Len(w) = n /\ m \in Nat /\ n \in Nat /\ m <= n
    /\ \A i \in 1..m : w[i] = s[i]
    /\ \A i \in m + 1..n : w[i] = t[i - m]

\* A text set behind another.
LEMMA SetBehind ==
    ASSUME NEW S, NEW s \in Seq(S), NEW t \in Seq(S)
    PROVE  Behind(S, s \o t, s, t, Len(s), Len(s) + Len(t))
<1> DEFINE u == s \o t
           m == Len(s)
           n == Len(s) + Len(t)
<1>1. m \in Nat /\ n \in Nat /\ m <= n
  <2>1. Len(s) \in Nat /\ Len(t) \in Nat
    BY LenProperties
  <2> QED
    BY <2>1
<1>2. /\ u \in Seq(S) /\ Len(u) = n
      /\ \A i \in 1..n : u[i] = IF i <= m THEN s[i] ELSE t[i - m]
  BY ConcatProperties
<1> HIDE DEF u, m, n
<1>3. ASSUME NEW i \in 1..m PROVE u[i] = s[i]
  <2>1. i \in 1..n /\ i <= m
    BY <1>1
  <2> QED
    BY <1>2, <2>1
<1>4. ASSUME NEW i \in m + 1..n PROVE u[i] = t[i - m]
  <2>1. i \in 1..n /\ ~(i <= m)
    BY <1>1
  <2> QED
    BY <1>2, <2>1
<1>5. Behind(S, u, s, t, m, n)
  BY <1>1, <1>2, <1>3, <1>4 DEF Behind
<1> QED
  BY <1>5 DEF u, m, n

\* What number() may write as a sign and as a prefix.
SignTexts == {<< >>, <<"-">>, <<"+">>, <<" ">>}
PrefixTexts == {<< >>, <<"0">>, <<"0", "x">>, <<"0", "X">>}

\* A number as it is written: blanks, sign, prefix, zeros, digits, blanks.
Written(i, sign, prefix, z, tmp, j) ==
    Fill(" ", i) \o sign \o prefix \o Fill("0", z) \o tmp \o Fill(" ", j)

\* w is made of six pieces that end at n1 to n6.
AreJoined(S, w, a, b, c, d, e, f, n1, n2, n3, n4, n5, n6) ==
    /\ w \in Seq(S) /\ Len(w) = n6
    /\ n1 = Len(a) /\ n2 = n1 + Len(b) /\ n3 = n2 + Len(c)
    /\ n4 = n3 + Len(d) /\ n5 = n4 + Len(e) /\ n6 = n5 + Len(f)
    /\ n1 <= n2 /\ n2 <= n3 /\ n3 <= n4 /\ n4 <= n5 /\ n5 <= n6
    /\ \A k \in 1..n1 : w[k] = a[k]
    /\ \A k \in n1 + 1..n2 : w[k] = b[k - n1]
    /\ \A k \in n2 + 1..n3 : w[k] = c[k - n2]
    /\ \A k \in n3 + 1..n4 : w[k] = d[k - n3]
    /\ \A k \in n4 + 1..n5 : w[k] = e[k - n4]
    /\ \A k \in n5 + 1..n6 : w[k] = f[k - n5]

\* Six texts set one behind the other.
LEMMA Joined ==
    ASSUME NEW S, NEW a \in Seq(S), NEW b \in Seq(S), NEW c \in Seq(S), NEW d \in Seq(S),
           NEW e \in Seq(S), NEW f \in Seq(S)
    PROVE  \E n1, n2, n3, n4, n5, n6 \in Nat :
             AreJoined(S, a \o b \o c \o d \o e \o f, a, b, c, d, e, f, n1, n2, n3, n4, n5, n6)
<1> DEFINE w == a \o b \o c \o d \o e \o f
           n1 == Len(a)
           n2 == n1 + Len(b)
           n3 == n2 + Len(c)
           n4 == n3 + Len(d)
           n5 == n4 + Len(e)
           n6 == n5 + Len(f)
<1>0. /\ w = a \o b \o c \o d \o e \o f
      /\ n1 = Len(a) /\ n2 = n1 + Len(b) /\ n3 = n2 + Len(c)
      /\ n4 = n3 + Len(d) /\ n5 = n4 + Len(e) /\ n6 = n5 + Len(f)
  OBVIOUS
<1> HIDE DEF w, n1, n2, n3, n4, n5, n6
<1> DEFINE w2 == a \o b
           w3 == w2 \o c
           w4 == w3 \o d
           w5 == w4 \o e
           w6 == w5 \o f
<1>1. w = w6
  BY <1>0
<1>2. Behind(S, w2, a, b, n1, n2)
  <2>1. Behind(S, w2, a, b, Len(a), Len(a) + Len(b))
    BY SetBehind
  <2> QED
    BY <1>0, <2>1
<1> HIDE DEF w2
<1>3. Behind(S, w3, w2, c, n2, n3)
  <2>1. Behind(S, w3, w2, c, Len(w2), Len(w2) + Len(c))
    <3>1. w2 \in Seq(S)
      BY <1>2 DEF Behind
    <3> QED
      BY <3>1, SetBehind
  <2>2. Len(w2) = n2
    BY <1>2 DEF Behind
  <2> HIDE DEF w3
  <2> QED
    BY <1>0, <2>1, <2>2
<1> HIDE DEF w3
<1>4. Behind(S, w4, w3, d, n3, n4)
  <2>1. Behind(S, w4, w3, d, Len(w3), Len(w3) + Len(d))
    <3>1. w3 \in Seq(S)
      BY <1>3 DEF Behind
    <3> QED
      BY <3>1, SetBehind
  <2>2. Len(w3) = n3
    BY <1>3 DEF Behind
  <2> HIDE DEF w4
  <2> QED
    BY <1>0, <2>1, <2>2
<1> HIDE DEF w4
<1>5. Behind(S, w5, w4, e, n4, n5)
  <2>1. Behind(S, w5, w4, e, Len(w4), Len(w4) + Len(e))
    <3>1. w4 \in Seq(S)
      BY <1>4 DEF Behind
    <3> QED
      BY <3>1, SetBehind
  <2>2. Len(w4) = n4
    BY <1>4 DEF Behind
  <2> HIDE DEF w5
  <2> QED
    BY <1>0, <2>1, <2>2
<1> HIDE DEF w5
<1>6. Behind(S, w6, w5, f, n5, n6)
  <2>1. Behind(S, w6, w5, f, Len(w5), Len(w5) + Len(f))
    <3>1. w5 \in Seq(S)
      BY <1>5 DEF Behind
    <3> QED
      BY <3>1, SetBehind
  <2>2. Len(w5) = n5
    BY <1>5 DEF Behind
  <2> HIDE DEF w6
  <2> QED
    BY <1>0, <2>1, <2>2
<1> HIDE DEF w6
<1>7. ASSUME NEW k \in 1..n5 PROVE w6[k] = w5[k]
  BY <1>6 DEF Behind
<1>8. ASSUME NEW k \in 1..n4 PROVE w6[k] = w4[k]
  BY <1>4, <1>5, <1>7 DEF Behind
<1>9. ASSUME NEW k \in 1..n3 PROVE w6[k] = w3[k]
  BY <1>3, <1>4, <1>8 DEF Behind
<1>10. ASSUME NEW k \in 1..n2 PROVE w6[k] = w2[k]
  BY <1>2, <1>3, <1>9 DEF Behind
<1>11. ASSUME NEW k \in 1..n1 PROVE w6[k] = a[k]
  BY <1>2, <1>10 DEF Behind
<1>12. ASSUME NEW k \in n1 + 1..n2 PROVE w6[k] = b[k - n1]
  BY <1>2, <1>10 DEF Behind
<1>13. ASSUME NEW k \in n2 + 1..n3 PROVE w6[k] = c[k - n2]
  BY <1>2, <1>3, <1>9 DEF Behind
<1>14. ASSUME NEW k \in n3 + 1..n4 PROVE w6[k] = d[k - n3]
  BY <1>3, <1>4, <1>8 DEF Behind
<1>15. ASSUME NEW k \in n4 + 1..n5 PROVE w6[k] = e[k - n4]
  BY <1>4, <1>5, <1>7 DEF Behind
<1>16. AreJoined(S, w, a, b, c, d, e, f, n1, n2, n3, n4, n5, n6)
  BY <1>0, <1>1, <1>2, <1>3, <1>4, <1>5, <1>6, <1>11, <1>12, <1>13, <1>14, <1>15 DEF Behind, AreJoined
<1>17. /\ n1 \in Nat /\ n2 \in Nat /\ n3 \in Nat /\ n4 \in Nat /\ n5 \in Nat /\ n6 \in Nat
  BY <1>2, <1>3, <1>4, <1>5, <1>6 DEF Behind
<1> QED
  BY <1>16, <1>17, Zenon DEF w


\* Texts of one and of two characters.
LEMMA OneLetter ==
    ASSUME NEW S, NEW c \in S
    PROVE  << c >> \in Seq(S) /\ Len(<< c >>) = 1 /\ << c >>[1] = c
OBVIOUS

LEMMA TwoLetters ==
    ASSUME NEW S, NEW c \in S, NEW d \in S
    PROVE  /\ << c, d >> \in Seq(S) /\ Len(<< c, d >>) = 2
           /\ << c, d >>[1] = c /\ << c, d >>[2] = d
OBVIOUS

\* A digit is neither a blank nor a sign.
LEMMA DigitsShow ==
    /\ \A c \in DigitChars : c \notin {" ", "+", "-"}
    /\ "0" \in DigitChars /\ DigitValue("0") = 0
<1>1. ASSUME NEW i \in 1..16 PROVE Small[i] # " " /\ Small[i] # "+" /\ Small[i] # "-"
  <2>1. Small[i] \in {"0", "1", "2", "3", "4", "5", "6", "7", "8", "9", "a", "b", "c", "d", "e", "f"}
    BY DEF Small
  <2> QED
    BY <2>1, Zenon
<1>2. ASSUME NEW i \in 1..16 PROVE Large[i] # " " /\ Large[i] # "+" /\ Large[i] # "-"
  <2>1. Large[i] \in {"0", "1", "2", "3", "4", "5", "6", "7", "8", "9", "A", "B", "C", "D", "E", "F"}
    BY DEF Large
  <2> QED
    BY <2>1, Zenon
<1>3. Small[0 + 1] = "0" /\ 0 \in 0..15 /\ Small \in {Small, Large}
  BY DEF Small
<1>4. "0" \in DigitChars /\ DigitValue("0") = 0
  BY <1>3, DigitNames
<1> QED
  BY <1>1, <1>2, <1>4 DEF DigitChars

\* A sign is one character or none.
LEMMA SignShows ==
    ASSUME NEW sign \in SignTexts
    PROVE  /\ sign \in Seq(Marks) /\ Len(sign) \in {0, 1}
           /\ Len(sign) = 1 => sign[1] \in {"-", "+", " "} /\ sign = << sign[1] >>
           /\ sign = <<"-">> <=> Len(sign) = 1 /\ sign[1] = "-"
           /\ sign = <<" ">> <=> Len(sign) = 1 /\ sign[1] = " "
<1>1. CASE sign = << >>
  <2>1. sign \in Seq(Marks) /\ Len(sign) = 0
    BY <1>1
  <2>2. Len(<<"-">>) = 1 /\ Len(<<" ">>) = 1 /\ 0 # 1
    BY OneLetter
  <2> QED
    BY <2>1, <2>2, Zenon
<1>2. ASSUME NEW c \in {"-", "+", " "}, sign = << c >>
      PROVE  /\ sign \in Seq(Marks) /\ Len(sign) = 1 /\ sign[1] = c
             /\ sign = << sign[1] >>
  <2>1. c \in Marks
    BY DEF Marks
  <2> QED
    BY <1>2, <2>1, OneLetter
<1>3. sign = << >> \/ \E c \in {"-", "+", " "} : sign = << c >>
  BY Zenon DEF SignTexts
<1>4. <<"-">>[1] = "-" /\ <<" ">>[1] = " " /\ Len(<<"-">>) = 1 /\ Len(<<" ">>) = 1
  BY OneLetter
<1> QED
  BY <1>1, <1>2, <1>3, <1>4, Zenon

\* A prefix is at most two characters, neither blanks nor signs.
LEMMA PrefixShows ==
    ASSUME NEW prefix \in PrefixTexts
    PROVE  /\ prefix \in Seq(Marks) /\ Len(prefix) \in {0, 1, 2}
           /\ \A k \in 1..Len(prefix) : prefix[k] \notin {" ", "+", "-"}
           /\ Len(prefix) = 1 => prefix[1] = "0"
<1>1. "0" \in Marks /\ "x" \in Marks /\ "X" \in Marks
  BY DigitsShow DEF Marks
<1>2. ASSUME prefix = << >>
      PROVE  prefix \in Seq(Marks) /\ Len(prefix) = 0
  BY <1>2
<1>3. CASE prefix = <<"0">>
  <2>1. prefix \in Seq(Marks) /\ Len(prefix) = 1 /\ prefix[1] = "0"
    BY <1>1, <1>3, OneLetter
  <2>2. \A k \in 1..1 : k = 1
    OBVIOUS
  <2> QED
    BY <2>1, <2>2
<1>4. ASSUME NEW c \in {"x", "X"}, prefix = <<"0", c>>
      PROVE  /\ prefix \in Seq(Marks) /\ Len(prefix) = 2
             /\ \A k \in 1..Len(prefix) : prefix[k] \notin {" ", "+", "-"}
  <2>1. c \in Marks
    BY <1>1, Zenon
  <2>2. prefix \in Seq(Marks) /\ Len(prefix) = 2 /\ prefix[1] = "0" /\ prefix[2] = c
    BY <1>1, <1>4, <2>1, TwoLetters
  <2>3. \A k \in 1..2 : k = 1 \/ k = 2
    OBVIOUS
  <2> QED
    BY <2>2, <2>3
<1>5. \/ prefix = << >> \/ prefix = <<"0">>
      \/ \E c \in {"x", "X"} : prefix = <<"0", c>>
  BY Zenon DEF PrefixTexts
<1>6. 0 # 1 /\ 2 # 1 /\ \A k \in 1..0 : FALSE
  OBVIOUS
<1> QED
  BY <1>2, <1>3, <1>4, <1>5, <1>6, Zenon

\* Digits are characters of a number.
LEMMA MarksSeq ==
    ASSUME NEW tmp \in Seq(DigitChars)
    PROVE  tmp \in Seq(Marks)
<1>1. DigitChars \subseteq Marks
  BY DEF Marks
<1> QED
  BY <1>1

\* How many characters that are.
Total(i, sign, prefix, z, tmp, j) == i + Len(sign) + Len(prefix) + z + Len(tmp) + j

\* The characters of a number without its field.
Shown(num, base, prec, type) ==
    LET negative == Negative(num, type)
        tmp == Digits(IF negative THEN WORD - num ELSE num, base,
                      IF "SMALL" \in type THEN Small ELSE Large)
    IN  (IF negative \/ type \cap {"PLUS", "SPACE"} # {} THEN 1 ELSE 0)
        + (IF "SPECIAL" \notin type THEN 0 ELSE IF base = 16 THEN 2 ELSE IF base = 8 THEN 1 ELSE 0)
        + AtLeast(Len(tmp), prec)

\* What is asked for would fit in the buffer, so that nothing wraps.
Fitting(size, n) == size >= -1 /\ AtLeast(size, n) <= BUFFER

\* w is num, laid out with these parts, and fills its field.
IsWritten(w, num, base, size, prec, type, i, sign, prefix, z, tmp, j) ==
    /\ w = Written(i, sign, prefix, z, tmp, j)
    /\ Len(tmp) \in Nat \ {0}
    /\ Value(tmp, base) = IF Negative(num, type) THEN WORD - num ELSE num
    /\ sign = <<"-">> <=> Negative(num, type)
    /\ Len(prefix) = 2 <=> "SPECIAL" \in type /\ base = 16
    /\ Fitting(size, Shown(num, base, prec, type)) =>
         Total(i, sign, prefix, z, tmp, j) = AtLeast(size, Shown(num, base, prec, type))

\* w is longer than the buffer, and more was asked for than would fit.
IsTooLong(w, num, base, size, prec, type) ==
    /\ Len(w) \in Nat /\ Len(w) > BUFFER
    /\ ~Fitting(size, Shown(num, base, prec, type))

\* Joining strings of marks in either order, and a part of a string.
LEMMA MarksJoin == \A s, t, u \in Seq(Marks) : (s \o t) \o u = s \o (t \o u)
  BY ConcatAssociative

LEMMA MarksPart ==
    \A s : \A m, n \in Int :
        (\A i \in m..n : s[i] \in Marks) =>
            /\ SubSeq(s, m, n) \in Seq(Marks)
            /\ Len(SubSeq(s, m, n)) = IF m <= n THEN n - m + 1 ELSE 0
            /\ \A i \in 1..n - m + 1 : SubSeq(s, m, n)[i] = s[m + i - 1]
  BY SubSeqProperties

\* The same with the zeros of ZEROPAD and those of the precision apart.
Laid(i, sign, prefix, y, z, tmp, j) ==
    Fill(" ", i) \o sign \o prefix \o Fill("0", y) \o Fill("0", z) \o tmp \o Fill(" ", j)

\* The three paddings and the zeros of the precision are three fills.
LEMMA Padding ==
    ASSUME NEW sign \in Seq(Marks), NEW prefix \in Seq(Marks), NEW tmp \in Seq(Marks),
           NEW i \in Nat, NEW y \in Nat, NEW z \in Nat, NEW j \in Nat
    PROVE  Laid(i, sign, prefix, y, z, tmp, j) = Written(i, sign, prefix, y + z, tmp, j)
<1>1. "0" \in Marks /\ " " \in Marks
  BY DigitsShow DEF Marks
<1> DEFINE head == Fill(" ", i) \o sign \o prefix
<1>2. head \in Seq(Marks)
  <2>1. Fill(" ", i) \in Seq(Marks)
    BY <1>1, FillExactly
  <2>2. Fill(" ", i) \o sign \in Seq(Marks)
    BY <2>1, ConcatProperties
  <2> QED
    BY <2>2, ConcatProperties
<1>3. Fill("0", y) \in Seq(Marks) /\ Fill("0", z) \in Seq(Marks)
  BY <1>1, FillExactly
<1>4. Fill("0", y) \o Fill("0", z) = Fill("0", y + z)
  BY <1>1, FillTwice
<1> HIDE DEF head
<1>5. (head \o Fill("0", y)) \o Fill("0", z) = head \o Fill("0", y + z)
  <2>1. (head \o Fill("0", y)) \o Fill("0", z) = head \o (Fill("0", y) \o Fill("0", z))
    BY <1>2, <1>3, MarksJoin, Zenon
  <2> QED
    BY <1>4, <2>1, Zenon
<1>6. Written(i, sign, prefix, y + z, tmp, j)
        = head \o Fill("0", y + z) \o tmp \o Fill(" ", j)
  BY DEF Written, head
<1> QED
  BY <1>5, <1>6 DEF head, Laid

\* A loop "while (size-- > 0)" does nothing when there is no room.
LEMMA NoFill ==
    ASSUME NEW c, NEW n \in Int, n <= 0
    PROVE  Fill(c, n) = << >> /\ Fill(c, 0) = << >>
<1>1. 1..n = {} /\ 1..0 = {}
  OBVIOUS
<1> QED
  BY <1>1 DEF Fill

\* The int that wraps: it is an int, and what is an int stays what it is.
LEMMA WrapFacts ==
    /\ WORD \div 2 \in Nat /\ WORD = 2 * (WORD \div 2) /\ BUFFER + 3 <= WORD \div 2 /\ BUFFER \in Nat
    /\ \A n \in Int : Wrap(n) \in Ints /\ (n \in Ints => Wrap(n) = n)
    /\ Wrap(-(WORD \div 2) - 1) = (WORD \div 2) - 1
<1> DEFINE h == WORD \div 2
<1>1. h \in Nat /\ WORD = 2 * h /\ BUFFER + 3 <= h /\ BUFFER \in Nat /\ WORD \in Nat
  BY PrintkAssumption
<1> HIDE DEF h
<1>2. \A n \in Int : n % WORD \in 0..WORD - 1
  BY <1>1
<1>3. \A n \in 0..WORD - 1 : n % WORD = n
  BY <1>1
<1>4. \A n \in Int : -WORD <= n /\ n < 0 => n % WORD = n + WORD
  BY <1>1
<1>5. \A r \in 0..WORD - 1 : Signed(r) = IF r >= h THEN r - WORD ELSE r
  BY DEF Signed, h
<1>6. ASSUME NEW n \in Int PROVE Wrap(n) \in -h..h - 1 /\ (n \in -h..h - 1 => Wrap(n) = n)
  <2> DEFINE r == n % WORD
  <2>1. r \in 0..WORD - 1 /\ Wrap(n) = IF r >= h THEN r - WORD ELSE r
    BY <1>2, <1>5 DEF Wrap
  <2>2. n \in -h..h - 1 => r = IF n < 0 THEN n + WORD ELSE n
    BY <1>1, <1>3, <1>4
  <2> HIDE DEF r
  <2> QED
    BY <1>1, <2>1, <2>2
<1>7. Wrap(-h - 1) = h - 1
  <2>1. (-h - 1) % WORD = h - 1
    BY <1>1, <1>4
  <2>2. h - 1 \in 0..WORD - 1
    BY <1>1
  <2> QED
    BY <1>1, <1>5, <2>1, <2>2 DEF Wrap
<1> QED
  BY <1>1, <1>6, <1>7 DEF Ints, h

LEMMA IntsAreInts == Ints \subseteq Int
BY WrapFacts DEF Ints

\* What a loop "while (size-- > 0)" leaves in size.
LEMMA CountedFacts ==
    ASSUME NEW n \in Ints
    PROVE  /\ n \in Int /\ Counted(n) \in Ints /\ Counted(n) \in Int
           /\ n # -(WORD \div 2) => Counted(n) = IF n > 0 THEN -1 ELSE n - 1
           /\ n = -(WORD \div 2) => Counted(n) = (WORD \div 2) - 1
<1> DEFINE h == WORD \div 2
<1>1. /\ h \in Nat /\ BUFFER + 3 <= h /\ BUFFER \in Nat /\ n \in -h..h - 1
      /\ \A x \in Int : Wrap(x) \in -h..h - 1 /\ (x \in -h..h - 1 => Wrap(x) = x)
      /\ Wrap(-h - 1) = h - 1
  BY WrapFacts DEF Ints
<1> HIDE DEF h
<1>2. CASE n > 0
  <2>1. Counted(n) = -1
    BY <1>2 DEF Counted
  <2> QED
    BY <1>1, <1>2, <2>1 DEF Ints, h
<1>3. CASE ~(n > 0)
  <2>1. Counted(n) = Wrap(n - 1)
    BY <1>3 DEF Counted
  <2> DEFINE c == Counted(n)
  <2>2. CASE n = -h
    <3>1. c = h - 1
      BY <1>1, <2>1, <2>2
    <3> HIDE DEF c
    <3> QED
      BY <1>1, <2>2, <3>1 DEF Ints, h, c
  <2>3. CASE n # -h
    <3>1. n - 1 \in -h..h - 1
      BY <1>1, <1>3, <2>3
    <3>2. c = n - 1
      BY <1>1, <2>1, <3>1
    <3> HIDE DEF c
    <3> QED
      BY <1>1, <1>3, <2>3, <3>1, <3>2 DEF Ints, h, c
  <2> QED
    BY <2>2, <2>3
<1> QED
  BY <1>2, <1>3

\* The padding before the sign, before the digits and behind them, for what is
\* left of the field.
Size2(type, size1) == IF type \cap {"ZEROPAD", "LEFT"} = {} THEN Counted(size1) ELSE size1
Before(type, size1) == IF type \cap {"ZEROPAD", "LEFT"} = {} THEN Fill(" ", size1) ELSE << >>
Inside(type, size1) ==
    IF "LEFT" \notin type
    THEN Fill(IF "ZEROPAD" \in type THEN "0" ELSE " ", Size2(type, size1)) ELSE << >>
After(type, size1) ==
    Fill(" ", IF "LEFT" \notin type THEN Counted(Size2(type, size1)) ELSE Size2(type, size1))

\* These fills are i blanks, y zeros and j blanks, which use up the room.
IsPadded(type, size1, i, y, j) ==
    /\ Before(type, size1) = Fill(" ", i)
    /\ Inside(type, size1) = Fill("0", y)
    /\ After(type, size1) = Fill(" ", j)
    /\ size1 > 1 - (WORD \div 2) => i + y + j = AtLeast(size1, 0)

\* The first loop counts the smallest int down to the largest one, and the
\* second loop takes that for the room.
CountsOver(type, size1) == type \cap {"ZEROPAD", "LEFT"} = {} /\ size1 = -(WORD \div 2)

\* Otherwise there are blanks, zeros and blanks, as many as there is room for
\* when no loop counts over the smallest int.
LEMMA Padded ==
    ASSUME NEW type, NEW size1 \in Ints, "LEFT" \in type => "ZEROPAD" \notin type,
           ~CountsOver(type, size1)
    PROVE  \E i \in Nat, y \in Nat, j \in Nat : IsPadded(type, size1, i, y, j)
<1> DEFINE h == WORD \div 2
           size2 == Size2(type, size1)
           size3 == IF "LEFT" \notin type THEN Counted(size2) ELSE size2
           none == type \cap {"ZEROPAD", "LEFT"} = {}
           i == IF none THEN AtLeast(size1, 0) ELSE 0
           y == IF "ZEROPAD" \in type THEN AtLeast(size1, 0) ELSE 0
           j == AtLeast(size3, 0)
<1>1. h \in Nat /\ BUFFER + 3 <= h /\ BUFFER \in Nat
  BY WrapFacts
<1>2. size2 = IF none THEN Counted(size1) ELSE size1
  BY DEF Size2
<1>3. size2 \in Ints /\ size2 \in Int /\ size3 \in Int /\ size1 \in Int
  BY <1>2, CountedFacts
<1>4. none => size1 # -h /\ size2 < 0
  BY <1>2, CountedFacts DEF CountsOver
<1>5. size1 > 1 - h => /\ none => size3 <= 0
                       /\ "ZEROPAD" \in type => size3 <= 0
                       /\ "LEFT" \in type => size3 = size1
  <2>1. ASSUME size1 > 1 - h, none PROVE size3 <= 0
    <3>1. size2 = IF size1 > 0 THEN -1 ELSE size1 - 1
      BY <1>2, <1>4, <2>1, CountedFacts
    <3>2. size2 # -h /\ ~(size2 > 0) /\ "LEFT" \notin type
      BY <1>1, <1>3, <2>1, <3>1
    <3>3. size3 = size2 - 1
      BY <1>3, <3>2, CountedFacts
    <3> HIDE DEF size2, size3
    <3> QED
      BY <1>3, <3>2, <3>3
  <2>2. ASSUME size1 > 1 - h, "ZEROPAD" \in type PROVE size3 <= 0
    <3>1. size2 = size1 /\ "LEFT" \notin type /\ size1 # -h
      BY <1>1, <1>2, <1>3, <2>2
    <3>2. size3 = IF size1 > 0 THEN -1 ELSE size1 - 1
      BY <3>1, CountedFacts
    <3> HIDE DEF size3
    <3> QED
      BY <1>3, <3>2
  <2>3. "LEFT" \in type => size3 = size1
    BY <1>2
  <2> QED
    BY <2>1, <2>2, <2>3
<1> HIDE DEF size2, size3, h
<1>6. i \in Nat /\ y \in Nat /\ j \in Nat
  BY <1>3 DEF AtLeast
<1>7. \A n \in Int : Fill(" ", n) = Fill(" ", AtLeast(n, 0)) /\ Fill("0", n) = Fill("0", AtLeast(n, 0))
  <2>1. \A S : \A c \in S : \A n \in Int : Fill(c, n) = Fill(c, AtLeast(n, 0))
    BY FillFacts
  <2>2. " " \in {" ", "0"} /\ "0" \in {" ", "0"}
    OBVIOUS
  <2> QED
    BY <2>1, <2>2, Zenon
<1>8. \A c : \A n \in Int : n <= 0 => Fill(c, n) = << >> /\ Fill(c, 0) = << >>
  BY NoFill, Zenon
<1>9. 0 \in Int /\ 0 <= 0 /\ (size2 < 0 => size2 <= 0)
  BY <1>3
<1>10. Before(type, size1) = Fill(" ", i)
  BY <1>3, <1>7, <1>8, <1>9, Zenon DEF Before
<1>11. Inside(type, size1) = Fill("0", y)
  <2>1. CASE none
    <3>1. "LEFT" \notin type /\ "ZEROPAD" \notin type
      BY <2>1
    <3>2. Fill(" ", size2) = << >>
      BY <1>3, <1>4, <1>8, <1>9, <2>1, Zenon
    <3> QED
      BY <1>8, <1>9, <3>1, <3>2, Zenon DEF Inside, size2
  <2>2. CASE "ZEROPAD" \in type
    <3>1. "LEFT" \notin type /\ size2 = size1
      BY <1>2, <2>2
    <3> QED
      BY <1>3, <1>7, <2>2, <3>1, Zenon DEF Inside, size2
  <2>3. CASE "LEFT" \in type
    <3>1. "ZEROPAD" \notin type
      BY <2>3
    <3> QED
      BY <1>8, <1>9, <2>3, <3>1, Zenon DEF Inside
  <2> QED
    BY <2>1, <2>2, <2>3
<1>12. After(type, size1) = Fill(" ", j)
  BY <1>3, <1>7, Zenon DEF After, size2, size3
<1>13. size1 > 1 - h => i + y + j = AtLeast(size1, 0)
  <2> SUFFICES ASSUME size1 > 1 - h PROVE i + y + j = AtLeast(size1, 0)
    OBVIOUS
  <2> DEFINE a == AtLeast(size1, 0)
  <2>1. a \in Nat
    BY <1>3 DEF AtLeast
  <2>2. CASE none \/ "ZEROPAD" \in type
    <3>1. j = 0
      BY <1>3, <1>5, <2>2 DEF AtLeast
    <3>2. (i = a /\ y = 0) \/ (i = 0 /\ y = a)
      BY <2>2
    <3> HIDE DEF i, j, y, a
    <3> QED
      BY <2>1, <3>1, <3>2 DEF a
  <2>3. CASE ~none /\ "ZEROPAD" \notin type
    <3>1. "LEFT" \in type
      BY <2>3
    <3>2. i = 0 /\ y = 0 /\ j = a
      BY <1>5, <2>3, <3>1
    <3> HIDE DEF i, j, y, a
    <3> QED
      BY <2>1, <3>2 DEF a
  <2> QED
    BY <2>2, <2>3
<1> HIDE DEF i, y, j
<1>14. IsPadded(type, size1, i, y, j)
  BY <1>10, <1>11, <1>12, <1>13 DEF IsPadded, h
<1> QED
  BY <1>6, <1>14

\* Five texts one behind the other are no shorter than the second of them.
LEMMA FiveTexts ==
    ASSUME NEW S, NEW s \in Seq(S), NEW t \in Seq(S), NEW u \in Seq(S), NEW v \in Seq(S),
           NEW x \in Seq(S)
    PROVE  Len(s \o t \o u \o v \o x) \in Nat /\ Len(s \o t \o u \o v \o x) >= Len(t) /\ Len(t) \in Nat
<1>1. /\ s \o t \in Seq(S) /\ Len(s \o t) = Len(s) + Len(t)
      /\ Len(s) \in Nat /\ Len(t) \in Nat /\ Len(u) \in Nat /\ Len(v) \in Nat /\ Len(x) \in Nat
  BY ConcatProperties, LenProperties
<1>2. s \o t \o u \in Seq(S) /\ Len(s \o t \o u) = Len(s \o t) + Len(u)
  BY <1>1, ConcatProperties
<1>3. s \o t \o u \o v \in Seq(S) /\ Len(s \o t \o u \o v) = Len(s \o t \o u) + Len(v)
  BY <1>2, ConcatProperties
<1>4. Len(s \o t \o u \o v \o x) = Len(s \o t \o u \o v) + Len(x)
  BY <1>3, ConcatProperties
<1> QED
  BY <1>1, <1>2, <1>3, <1>4

\* number() writes blanks, sign, prefix, zeros, digits, blanks, for every word, base,
\* width, precision and set of flags, unless a loop counts over the smallest int.
LEMMA NumberIsWritten ==
    ASSUME NEW num \in 0..WORD - 1, NEW base \in {2, 8, 10, 16}, NEW size \in Int,
           NEW prec \in Int, NEW type_
    PROVE  \/ IsTooLong(number(num, base, size, prec, type_), num, base, size, prec, type_)
           \/ \E i \in Nat, z \in Nat, j \in Nat, sign \in SignTexts, prefix \in PrefixTexts,
                tmp \in Seq(DigitChars) :
                IsWritten(number(num, base, size, prec, type_), num, base, size, prec, type_,
                          i, sign, prefix, z, tmp, j)
<1> DEFINE type == IF "LEFT" \in type_ THEN type_ \ {"ZEROPAD"} ELSE type_
           digits == IF "SMALL" \in type THEN Small ELSE Large
           sign == IF Negative(num, type) THEN <<"-">>
                   ELSE IF "PLUS" \in type THEN <<"+">>
                   ELSE IF "SPACE" \in type THEN <<" ">> ELSE << >>
           prefix == IF "SPECIAL" \notin type THEN << >>
                     ELSE IF base = 8 THEN <<"0">>
                     ELSE IF base = 16 THEN <<"0", IF "SMALL" \in type THEN "x" ELSE "X">> ELSE << >>
           abs == IF Negative(num, type) THEN WORD - num ELSE num
           tmp == Digits(abs, base, digits)
           width == AtLeast(Len(tmp), prec)
           z == width - Len(tmp)
           room == Room(size, sign, prefix) - width
           size1 == Wrap(room)
           size2 == IF type \cap {"ZEROPAD", "LEFT"} = {} THEN Counted(size1) ELSE size1
           size3 == IF "LEFT" \notin type THEN Counted(size2) ELSE size2
           before == IF type \cap {"ZEROPAD", "LEFT"} = {} THEN Fill(" ", size1) ELSE << >>
           inside == IF "LEFT" \notin type
                     THEN Fill(IF "ZEROPAD" \in type THEN "0" ELSE " ", size2) ELSE << >>
           w == number(num, base, size, prec, type_)
           n == Shown(num, base, prec, type_)
<1>1. w = before \o sign \o prefix \o inside \o Fill("0", z) \o tmp \o Fill(" ", size3)
  BY DEF number
<1>2. Negative(num, type) <=> Negative(num, type_)
  BY DEF Negative
<1>3. /\ "SPACE" \in type <=> "SPACE" \in type_
      /\ "PLUS" \in type <=> "PLUS" \in type_
      /\ "SMALL" \in type <=> "SMALL" \in type_
  OBVIOUS
<1>4. "SPECIAL" \in type <=> "SPECIAL" \in type_
  OBVIOUS
<1>5. "LEFT" \in type => "ZEROPAD" \notin type
  OBVIOUS
<1>6. /\ abs \in Nat
      /\ abs = IF Negative(num, type_) THEN WORD - num ELSE num
  BY <1>2, PrintkAssumption
<1>7. digits \in {Small, Large} /\ digits = IF "SMALL" \in type_ THEN Small ELSE Large
  BY <1>3
<1> HIDE DEF digits, abs, w
<1>8. /\ tmp \in Seq(DigitChars) /\ Len(tmp) \in Nat \ {0}
      /\ Value(tmp, base) = abs
      /\ tmp = Digits(IF Negative(num, type_) THEN WORD - num ELSE num, base,
                      IF "SMALL" \in type_ THEN Small ELSE Large)
  <2>1. base \in 2..16
    OBVIOUS
  <2>2. tmp \in Seq(DigitChars) /\ Len(tmp) \in Nat \ {0} /\ Value(tmp, base) = abs
    BY <1>6, <1>7, <2>1, DigitsFacts
  <2> QED
    BY <1>6, <1>7, <2>2, Zenon
<1> HIDE DEF tmp
<1>9. /\ sign \in SignTexts /\ (sign = <<"-">> <=> Negative(num, type_))
      /\ Len(sign) = IF Negative(num, type_) \/ type_ \cap {"PLUS", "SPACE"} # {} THEN 1 ELSE 0
  <2>1. sign \in SignTexts
    BY Zenon DEF SignTexts
  <2>2. \A c \in {"-", "+", " "} : Len(<< c >>) = 1 /\ << c >>[1] = c
    BY OneLetter
  <2>3. /\ <<"+">> # <<"-">> /\ <<" ">> # <<"-">> /\ << >> # <<"-">>
        /\ <<"+">> # <<" ">> /\ <<"-">> # <<" ">> /\ << >> # <<" ">>
    <3>1. Len(<< >>) = 0 /\ 0 # 1 /\ "-" # "+" /\ "-" # " " /\ "+" # " "
      OBVIOUS
    <3> QED
      BY <2>2, <3>1, Zenon
  <2>4. sign = <<"-">> <=> Negative(num, type_)
    BY <1>2, <2>3, Zenon
  <2>5. Len(sign) = IF Negative(num, type_) \/ type_ \cap {"PLUS", "SPACE"} # {} THEN 1 ELSE 0
    <3>1. Len(<<"-">>) = 1 /\ Len(<<"+">>) = 1 /\ Len(<<" ">>) = 1 /\ Len(<< >>) = 0
      OBVIOUS
    <3>2. CASE Negative(num, type_)
      BY <2>4, <3>1, <3>2, Zenon
    <3>3. CASE ~Negative(num, type_) /\ "PLUS" \in type_
      <4>1. sign = <<"+">>
        BY <1>2, <1>3, <3>3, Zenon
      <4>2. type_ \cap {"PLUS", "SPACE"} # {}
        BY <3>3
      <4> HIDE DEF sign
      <4> QED
        BY <3>1, <4>1, <4>2
    <3>4. CASE ~Negative(num, type_) /\ "PLUS" \notin type_ /\ "SPACE" \in type_
      <4>1. sign = <<" ">>
        BY <1>2, <1>3, <3>4, Zenon
      <4>2. type_ \cap {"PLUS", "SPACE"} # {}
        BY <3>4
      <4> HIDE DEF sign
      <4> QED
        BY <3>1, <4>1, <4>2
    <3>5. CASE ~Negative(num, type_) /\ "PLUS" \notin type_ /\ "SPACE" \notin type_
      <4>1. sign = << >>
        BY <1>2, <1>3, <3>5, Zenon
      <4>2. ~(type_ \cap {"PLUS", "SPACE"} # {})
        BY <3>5
      <4> HIDE DEF sign
      <4> QED
        BY <3>1, <3>5, <4>1, <4>2
    <3> QED
      BY <3>2, <3>3, <3>4, <3>5, Zenon
  <2> QED
    BY <2>1, <2>4, <2>5, Zenon
<1>10. /\ prefix \in PrefixTexts /\ (Len(prefix) = 2 <=> "SPECIAL" \in type_ /\ base = 16)
       /\ Len(prefix) = IF "SPECIAL" \notin type_ THEN 0
                        ELSE IF base = 16 THEN 2 ELSE IF base = 8 THEN 1 ELSE 0
  <2>1. prefix \in PrefixTexts
    BY Zenon DEF PrefixTexts
  <2>2. /\ Len(<< >>) = 0 /\ Len(<<"0">>) = 1
        /\ \A c \in {"x", "X"} : Len(<<"0", c>>) = 2
    OBVIOUS
  <2>3. 8 # 16 /\ 0 # 2 /\ 1 # 2
    OBVIOUS
  <2>4. CASE "SPECIAL" \notin type_
    <3>1. prefix = << >>
      BY <1>4, <2>4, Zenon
    <3> HIDE DEF prefix
    <3> QED
      BY <2>1, <2>2, <2>4, <3>1
  <2>5. CASE "SPECIAL" \in type_ /\ base = 8
    <3>1. prefix = <<"0">>
      BY <1>4, <2>5, Zenon
    <3> HIDE DEF prefix
    <3> QED
      BY <2>1, <2>2, <2>3, <2>5, <3>1
  <2>6. CASE "SPECIAL" \in type_ /\ base = 16
    <3>1. prefix = <<"0", "x">> \/ prefix = <<"0", "X">>
      BY <1>4, <2>3, <2>6, Zenon
    <3>2. Len(prefix) = 2
      BY <2>2, <3>1
    <3> HIDE DEF prefix
    <3> QED
      BY <2>1, <2>6, <3>2
  <2>7. CASE "SPECIAL" \in type_ /\ base # 8 /\ base # 16
    <3>1. prefix = << >>
      BY <1>4, <2>7, Zenon
    <3> HIDE DEF prefix
    <3> QED
      BY <2>1, <2>2, <2>3, <2>7, <3>1
  <2> QED
    BY <2>4, <2>5, <2>6, <2>7, Zenon
<1> HIDE DEF sign, prefix
<1>11. Len(sign) \in Nat /\ Len(prefix) \in Nat /\ Len(tmp) \in Nat
  <2>1. Len(sign) \in {0, 1} /\ Len(prefix) \in {0, 1, 2}
    BY <1>9, <1>10, SignShows, PrefixShows, Zenon
  <2> QED
    BY <1>8, <2>1
<1>12. width \in Int /\ z \in Nat /\ width = z + Len(tmp)
  BY <1>11 DEF AtLeast
<1>a. width >= 0
  <2> HIDE DEF width, z
  <2> QED
    BY <1>11, <1>12
<1>13. room \in Int /\ size = room + Len(sign) + Len(prefix) + width
  BY <1>11, <1>12 DEF Room
<1>14. n = Len(sign) + Len(prefix) + width
  BY <1>8, <1>9, <1>10, Zenon DEF Shown
<1>15. size1 \in Ints /\ (room \in Ints => size1 = room)
  BY <1>13, WrapFacts
<1> HIDE DEF n, width, room, size1, z
\* A field that fits leaves room for an int.
<1>16. Fitting(size, n) => size1 = room /\ room > 1 - (WORD \div 2)
  <2> DEFINE ls == Len(sign)
             lp == Len(prefix)
             h == WORD \div 2
  <2>1. /\ ls \in Nat /\ lp \in Nat /\ width \in Int /\ n = ls + lp + width
        /\ h \in Nat /\ BUFFER \in Nat /\ BUFFER + 3 <= h
        /\ room \in Int /\ size = room + ls + lp + width
    BY <1>11, <1>12, <1>13, <1>14, WrapFacts, Zenon
  <2> HIDE DEF ls, lp, h
  <2>2. ASSUME Fitting(size, n) PROVE size >= -1 /\ size <= BUFFER /\ n <= BUFFER
    <3>1. n \in Int
      BY <2>1
    <3> QED
      BY <2>1, <2>2, <3>1 DEF Fitting, AtLeast
  <2>3. ASSUME Fitting(size, n) PROVE room \in -h..h - 1 /\ room > 1 - h
    <3>1. n \in Int /\ size = room + n
      BY <2>1
    <3>2. size >= -1 /\ size <= BUFFER /\ n <= BUFFER
      BY <2>2, <2>3
    <3>3. n >= 0
      BY <1>a, <2>1
    <3> QED
      BY <2>1, <3>1, <3>2, <3>3
  <2> QED
    BY <1>15, <2>3 DEF Ints, h
<1> HIDE DEF type
<1>17. sign \in Seq(Marks) /\ prefix \in Seq(Marks) /\ tmp \in Seq(Marks)
  BY <1>8, <1>9, <1>10, SignShows, PrefixShows, MarksSeq
<1>18. CASE CountsOver(type, size1)
  <2>1. ~Fitting(size, n)
    <3>1. size1 = -(WORD \div 2) /\ WORD \div 2 \in Nat
      BY <1>18, WrapFacts DEF CountsOver
    <3> HIDE DEF size1
    <3> QED
      BY <1>13, <1>16, <3>1
  <2>2. Len(w) \in Nat /\ Len(w) > BUFFER
    <3> DEFINE blanks == Fill(" ", size2)
               head == before \o sign \o prefix
    <3>1. " " \in Marks /\ "0" \in Marks
      BY DigitsShow DEF Marks
    <3>2. size1 \in Int /\ size2 = (WORD \div 2) - 1 /\ size2 \in Ints /\ size2 \in Int
          /\ "LEFT" \notin type /\ "ZEROPAD" \notin type
      BY <1>15, <1>18, CountedFacts DEF CountsOver
    <3>3. size3 \in Int
      BY <3>2, CountedFacts
    <3>4. inside = blanks
      BY <3>2, Zenon
    <3> HIDE DEF inside
    <3>5. /\ before \in Seq(Marks) /\ blanks \in Seq(Marks) /\ Len(blanks) = AtLeast(size2, 0)
          /\ Fill("0", z) \in Seq(Marks) /\ Fill(" ", size3) \in Seq(Marks)
      <4>1. \A c \in Marks : \A m \in Int : Fill(c, m) \in Seq(Marks) /\ Len(Fill(c, m)) = AtLeast(m, 0)
        BY FillFacts
      <4>2. << >> \in Seq(Marks) /\ z \in Int
        BY <1>12
      <4> HIDE DEF size2, size3
      <4> QED
        BY <3>1, <3>2, <3>3, <4>1, <4>2, Zenon
    <3> HIDE DEF before, blanks, size2, size3
    <3>6. \A s, u \in Seq(Marks) : /\ s \o u \in Seq(Marks) /\ Len(s \o u) = Len(s) + Len(u)
                                   /\ Len(s) \in Nat /\ Len(u) \in Nat
      BY ConcatProperties, LenProperties
    <3>7. head \in Seq(Marks)
      <4>1. before \o sign \in Seq(Marks)
        BY <1>17, <3>5, <3>6
      <4> QED
        BY <1>17, <3>6, <4>1
    <3>8. w = head \o blanks \o Fill("0", z) \o tmp \o Fill(" ", size3)
      BY <1>1, <3>4, Zenon
    <3> HIDE DEF head
    <3> DEFINE b == Len(blanks)
    <3>9. Len(w) \in Nat /\ Len(w) >= b /\ b \in Nat
      <4> DEFINE t == Fill("0", z)
                 v == Fill(" ", size3)
      <4>1. t \in Seq(Marks) /\ v \in Seq(Marks) /\ blanks \in Seq(Marks) /\ tmp \in Seq(Marks)
        BY <1>17, <3>5
      <4>2. w = head \o blanks \o t \o tmp \o v
        BY <3>8
      <4> HIDE DEF t, v
      <4> QED
        BY <3>7, <4>1, <4>2, FiveTexts
    <3>10. b > BUFFER
      <4>1. b = AtLeast(size2, 0) /\ size2 = (WORD \div 2) - 1 /\ size2 \in Int
        BY <3>2, <3>5
      <4> HIDE DEF b
      <4> QED
        BY <4>1, WrapFacts DEF AtLeast
    <3> DEFINE l == Len(w)
    <3>11. BUFFER \in Nat /\ l \in Nat /\ l >= b /\ b \in Nat
      BY <3>9, WrapFacts
    <3> HIDE DEF b, l
    <3>12. l > BUFFER
      BY <3>10, <3>11
    <3> QED
      BY <3>11, <3>12 DEF l
  <2> QED
    BY <2>1, <2>2 DEF IsTooLong, w, n
<1>19. CASE ~CountsOver(type, size1)
  <2>1. PICK i \in Nat, y \in Nat, j \in Nat :
           /\ before = Fill(" ", i) /\ inside = Fill("0", y) /\ Fill(" ", size3) = Fill(" ", j)
           /\ size1 > 1 - (WORD \div 2) => i + y + j = AtLeast(size1, 0)
    <3>1. /\ before = Before(type, size1) /\ inside = Inside(type, size1)
          /\ Fill(" ", size3) = After(type, size1)
      BY DEF Before, Inside, After, Size2
    <3> HIDE DEF before, inside, size3
    <3>2. \E i \in Nat, y \in Nat, j \in Nat : IsPadded(type, size1, i, y, j)
      BY <1>5, <1>15, <1>19, Padded
    <3> QED
      BY <3>1, <3>2, Zenon DEF IsPadded
  <2> HIDE DEF before, inside, size3
  <2>2. w = Written(i, sign, prefix, y + z, tmp, j)
    <3>1. w = Laid(i, sign, prefix, y, z, tmp, j)
      BY <1>1, <2>1 DEF Laid
    <3>2. Laid(i, sign, prefix, y, z, tmp, j) = Written(i, sign, prefix, y + z, tmp, j)
      <4>1. z \in Nat
        BY <1>12, Zenon
      <4> QED
        BY <1>17, <4>1, Padding, SMTT(20)
    <3> QED
      BY <3>1, <3>2
  <2>3. Fitting(size, n) => Total(i, sign, prefix, y + z, tmp, j) = AtLeast(size, n)
    <3> DEFINE ls == Len(sign)
               lp == Len(prefix)
               lt == Len(tmp)
               total == Total(i, sign, prefix, y + z, tmp, j)
    <3> SUFFICES ASSUME Fitting(size, n) PROVE total = AtLeast(size, n)
      OBVIOUS
    <3>1. total = i + ls + lp + (y + z) + lt + j
      BY DEF Total
    <3>2. size = room + ls + lp + width /\ width = z + lt /\ n = ls + lp + width /\ room \in Int
      BY <1>12, <1>13, <1>14
    <3>3. ls \in Nat /\ lp \in Nat /\ lt \in Nat
      BY <1>11
    <3>4. i + y + j = AtLeast(room, 0)
      BY <1>16, <2>1
    <3> HIDE DEF ls, lp, lt, total
    <3>5. total = n + AtLeast(room, 0)
      <4>1. AtLeast(room, 0) \in Nat
        BY <3>2 DEF AtLeast
      <4> QED
        BY <1>12, <3>1, <3>2, <3>3, <3>4, <4>1
    <3>6. size = room + n
      BY <1>12, <3>2, <3>3
    <3>7. n \in Int
      BY <1>12, <3>2, <3>3
    <3> QED
      BY <3>2, <3>5, <3>6, <3>7 DEF AtLeast
  <2>4. y + z \in Nat
    BY <1>12
  <2>5. IsWritten(w, num, base, size, prec, type_, i, sign, prefix, y + z, tmp, j)
    BY <1>6, <1>8, <1>9, <1>10, <2>2, <2>3 DEF IsWritten, n
  <2> QED
    BY <1>8, <1>9, <1>10, <2>4, <2>5 DEF w
<1> QED
  BY <1>18, <1>19

\* Where the parts of a number are.
Parts(w, sign, prefix, tmp, i, m, n, o, p, t) ==
    /\ w \in Seq(Marks) /\ Len(w) = t
    /\ m = i + Len(sign) /\ n = m + Len(prefix) /\ p = o + Len(tmp)
    /\ i <= m /\ m <= n /\ n <= o /\ o < p /\ p <= t
    /\ \A k \in 1..i : w[k] = " "
    /\ \A k \in i + 1..m : w[k] = sign[k - i]
    /\ \A k \in m + 1..n : w[k] = prefix[k - m]
    /\ \A k \in n + 1..o : w[k] = "0"
    /\ \A k \in o + 1..p : w[k] = tmp[k - o]
    /\ \A k \in p + 1..t : w[k] = " "

\* The parts and their lengths.
PutInParts(w, i, sign, prefix, z, tmp, j, m, n, o, p, t) ==
    /\ Parts(w, sign, prefix, tmp, i, m, n, o, p, t)
    /\ t = Total(i, sign, prefix, z, tmp, j) /\ t = p + j

\* Where each part of a written number begins and ends.
LEMMA WrittenInParts ==
    ASSUME NEW i \in Nat, NEW z \in Nat, NEW j \in Nat, NEW sign \in SignTexts,
           NEW prefix \in PrefixTexts, NEW tmp \in Seq(DigitChars), Len(tmp) \in Nat \ {0}
    PROVE  \E m, n, o, p, t \in Nat :
             PutInParts(Written(i, sign, prefix, z, tmp, j), i, sign, prefix, z, tmp, j, m, n, o, p, t)
<1> DEFINE w == Written(i, sign, prefix, z, tmp, j)
           a == Fill(" ", i)
           d == Fill("0", z)
           f == Fill(" ", j)
<1>1. "0" \in Marks /\ " " \in Marks
  BY DigitsShow DEF Marks
<1>2. /\ a \in Seq(Marks) /\ Len(a) = i /\ \A k \in 1..i : a[k] = " "
      /\ d \in Seq(Marks) /\ Len(d) = z /\ \A k \in 1..z : d[k] = "0"
      /\ f \in Seq(Marks) /\ Len(f) = j /\ \A k \in 1..j : f[k] = " "
  BY <1>1, FillExactly
<1>3. sign \in Seq(Marks) /\ prefix \in Seq(Marks) /\ tmp \in Seq(Marks)
  BY SignShows, PrefixShows, MarksSeq
<1>4. w = a \o sign \o prefix \o d \o tmp \o f
  BY DEF Written
<1> HIDE DEF a, d, f, w
<1>5. PICK n1, m, n, o, p, t \in Nat :
        AreJoined(Marks, w, a, sign, prefix, d, tmp, f, n1, m, n, o, p, t)
  BY <1>2, <1>3, <1>4, Joined
<1>6. /\ w \in Seq(Marks) /\ Len(w) = t
      /\ m = i + Len(sign) /\ n = m + Len(prefix) /\ o = n + z /\ p = o + Len(tmp) /\ t = p + j
      /\ i <= m /\ m <= n /\ n <= o /\ o <= p /\ p <= t /\ n1 = i
  BY <1>2, <1>5, Zenon DEF AreJoined
<1>7. /\ \A k \in 1..i : w[k] = " "
      /\ \A k \in i + 1..m : w[k] = sign[k - i]
      /\ \A k \in m + 1..n : w[k] = prefix[k - m]
      /\ \A k \in o + 1..p : w[k] = tmp[k - o]
  BY <1>2, <1>5, <1>6, Zenon DEF AreJoined
<1>8. ASSUME NEW k \in n + 1..o PROVE w[k] = "0"
  <2>1. k - n \in 1..z
    BY <1>6
  <2>2. w[k] = d[k - n]
    BY <1>5 DEF AreJoined
  <2> QED
    BY <1>2, <2>1, <2>2, Zenon
<1>9. ASSUME NEW k \in p + 1..t PROVE w[k] = " "
  <2>1. k - p \in 1..j
    BY <1>6
  <2>2. w[k] = f[k - p]
    BY <1>5 DEF AreJoined
  <2> QED
    BY <1>2, <2>1, <2>2, Zenon
<1>10. o < p
  <2> DEFINE l == Len(tmp)
  <2>1. l \in Nat \ {0} /\ p = o + l
    BY <1>6
  <2> HIDE DEF l
  <2> QED
    BY <2>1
<1>11. t = Total(i, sign, prefix, z, tmp, j)
  BY <1>6, Zenon DEF Total
<1>12. Parts(w, sign, prefix, tmp, i, m, n, o, p, t)
  BY <1>6, <1>7, <1>8, <1>9, <1>10, Zenon DEF Parts
<1>13. PutInParts(w, i, sign, prefix, z, tmp, j, m, n, o, p, t)
  BY <1>6, <1>11, <1>12, Zenon DEF PutInParts
<1> QED
  BY <1>13, Zenon DEF w

\* What is behind the sign is no sign and no blank.
LEMMA BodyShows ==
    ASSUME NEW sign \in SignTexts, NEW prefix \in PrefixTexts, NEW tmp \in Seq(DigitChars), NEW w,
           NEW i \in Nat, NEW m \in Nat, NEW n \in Nat, NEW o \in Nat, NEW p \in Nat,
           NEW t \in Nat, Parts(w, sign, prefix, tmp, i, m, n, o, p, t)
    PROVE  \A k \in m + 1..p : w[k] \notin {" ", "+", "-"}
<1>1. ASSUME NEW k \in m + 1..n PROVE w[k] \notin {" ", "+", "-"}
  <2> DEFINE lp == Len(prefix)
  <2>1. lp \in {0, 1, 2} /\ n = m + lp /\ \A q \in 1..lp : prefix[q] \notin {" ", "+", "-"}
    BY PrefixShows, Zenon DEF Parts
  <2>2. w[k] = prefix[k - m]
    BY DEF Parts
  <2> HIDE DEF lp
  <2>3. k - m \in 1..lp
    <3>1. lp \in {0, 1, 2} /\ n = m + lp
      BY <2>1
    <3> QED
      BY <3>1
  <2> QED
    BY <2>1, <2>2, <2>3, Zenon
<1>2. ASSUME NEW k \in n + 1..o PROVE w[k] \notin {" ", "+", "-"}
  <2>1. w[k] = "0"
    BY DEF Parts
  <2> QED
    BY <2>1, DigitsShow, Zenon
<1>3. ASSUME NEW k \in o + 1..p PROVE w[k] \notin {" ", "+", "-"}
  <2> DEFINE lt == Len(tmp)
  <2>1. w[k] = tmp[k - o] /\ p = o + lt
    BY DEF Parts
  <2>2. k - o \in 1..lt
    <3>1. lt \in Nat
      BY LenProperties
    <3> HIDE DEF lt
    <3> QED
      BY <2>1, <3>1
  <2>3. tmp[k - o] \in DigitChars
    BY <2>2, ElementOfSeq
  <2> QED
    BY <2>1, <2>3, DigitsShow, Zenon
<1>4. m <= n /\ n <= o /\ o < p
  BY DEF Parts
<1>5. \A k \in m + 1..p : k \in m + 1..n \/ k \in n + 1..o \/ k \in o + 1..p
  BY <1>4
<1> QED
  BY <1>1, <1>2, <1>3, <1>5, Zenon

\* A blank for a sign is not seen.
Lead(sign, i, m) == IF sign = <<" ">> THEN m ELSE i

\* What is not blank reaches from behind lead to p.
InkedFrom(w, lead, i, m, p) ==
    /\ lead \in Nat /\ i <= lead /\ lead <= m /\ lead < p
    /\ Inked(w) = lead + 1..p

\* In a written number that is everything from the sign to the last digit.
LEMMA PartsInked ==
    ASSUME NEW sign \in SignTexts, NEW prefix \in PrefixTexts, NEW tmp \in Seq(DigitChars), NEW w,
           NEW i \in Nat, NEW m \in Nat, NEW n \in Nat, NEW o \in Nat, NEW p \in Nat,
           NEW t \in Nat, Parts(w, sign, prefix, tmp, i, m, n, o, p, t)
    PROVE  InkedFrom(w, Lead(sign, i, m), i, m, p)
<1> DEFINE lead == Lead(sign, i, m)
           ls == Len(sign)
<1>9. Len(w) = t /\ i <= m /\ m <= n /\ n <= o /\ o < p /\ p <= t
  BY DEF Parts
<1>1. /\ lead \in Nat /\ i <= lead /\ lead <= m /\ lead < p
  <2>1. lead = m \/ lead = i
    BY Zenon DEF Lead
  <2> HIDE DEF lead
  <2> QED
    BY <1>9, <2>1
<1>2. ASSUME NEW k \in 1..i PROVE w[k] = " "
  BY DEF Parts
<1>3. ls \in {0, 1} /\ m = i + ls /\ (ls = 1 => sign[1] \in {"-", "+", " "})
      /\ (sign = <<" ">> <=> ls = 1 /\ sign[1] = " ")
  BY SignShows, Zenon DEF Parts
<1>4. ASSUME NEW k \in i + 1..m PROVE w[k] # " " <=> lead < k
  <2> HIDE DEF ls
  <2>0. ls \in {0, 1} /\ m = i + ls
    BY <1>3
  <2>1. ls = 1 /\ k = i + 1 /\ k - i = 1 /\ k = m /\ ~(m < k) /\ i < k
    BY <2>0
  <2>2. w[k] = sign[1]
    <3>1. w[k] = sign[k - i]
      BY DEF Parts
    <3> QED
      BY <2>1, <3>1
  <2>3. CASE sign = <<" ">>
    BY <1>3, <2>1, <2>2, <2>3, Zenon DEF Lead
  <2>4. CASE sign # <<" ">>
    BY <1>3, <2>1, <2>2, <2>4, Zenon DEF Lead
  <2> QED
    BY <2>3, <2>4
<1>5. ASSUME NEW k \in m + 1..p PROVE w[k] # " "
  BY BodyShows, Zenon
<1>8. ASSUME NEW k \in p + 1..t PROVE w[k] = " "
  BY DEF Parts
<1> HIDE DEF lead, ls
<1>10. ASSUME NEW k \in 1..t PROVE w[k] # " " <=> k \in lead + 1..p
  <2>1. CASE k <= i
    <3>1. k \in 1..i /\ k \notin lead + 1..p
      BY <1>1, <2>1
    <3> QED
      BY <1>2, <3>1
  <2>2. CASE i < k /\ k <= m
    <3>1. k \in i + 1..m /\ (k \in lead + 1..p <=> lead < k)
      BY <1>1, <1>9, <2>2
    <3> QED
      BY <1>4, <3>1
  <2>3. CASE m < k /\ k <= p
    <3>1. k \in m + 1..p /\ k \in lead + 1..p
      BY <1>1, <1>9, <2>3
    <3> QED
      BY <1>5, <3>1
  <2>6. CASE p < k
    <3>1. k \in p + 1..t /\ k \notin lead + 1..p
      BY <1>1, <1>9, <2>6
    <3> QED
      BY <1>8, <3>1
  <2>7. k <= i \/ (i < k /\ k <= m) \/ (m < k /\ k <= p) \/ p < k
    OBVIOUS
  <2> QED
    BY <2>1, <2>2, <2>3, <2>6, <2>7, Zenon
<1>11. Inked(w) = lead + 1..p
  <2>1. lead + 1..p \subseteq 1..t
    BY <1>1, <1>9
  <2>2. Inked(w) = {k \in 1..t : w[k] # " "}
    BY <1>9 DEF Inked
  <2> QED
    BY <1>10, <2>1, <2>2
<1> QED
  BY <1>1, <1>11 DEF lead, InkedFrom

\* The ends of an interval.
LEMMA Ends ==
    ASSUME NEW a \in Int, NEW b \in Int, a <= b
    PROVE  Min(a..b) = a /\ Max(a..b) = b /\ a..b # {}
<1>1. a \in a..b /\ \A y \in a..b : a <= y
  OBVIOUS
<1>2. b \in a..b /\ \A y \in a..b : b >= y
  OBVIOUS
<1>3. \A x \in a..b : (\A y \in a..b : x <= y) => x = a
  OBVIOUS
<1>4. \A x \in a..b : (\A y \in a..b : x >= y) => x = b
  OBVIOUS
<1>5. Min(a..b) = a
  BY <1>1, <1>3 DEF Min
<1>6. Max(a..b) = b
  BY <1>2, <1>4 DEF Max
<1> QED
  BY <1>1, <1>5, <1>6

\* The prefix a reader expects, and what he reads.
IsPrefixOf(prefix, base) == Len(prefix) = 2 <=> "SPECIAL" \in flags /\ base = 16
ReadsAs(w, base, sign, tmp) ==
    /\ InOnePiece(w)
    /\ ReadBack(w, base) = IF sign = <<"-">> THEN -Value(tmp, base) ELSE Value(tmp, base)

\* A reader finds the sign and the digits of a written number.
LEMMA PartsReadBack ==
    ASSUME NEW sign \in SignTexts, NEW prefix \in PrefixTexts, NEW tmp \in Seq(DigitChars), NEW w,
           NEW i \in Nat, NEW m \in Nat, NEW n \in Nat, NEW o \in Nat, NEW p \in Nat,
           NEW t \in Nat, Parts(w, sign, prefix, tmp, i, m, n, o, p, t),
           NEW base \in Nat, IsPrefixOf(prefix, base)
    PROVE  ReadsAs(w, base, sign, tmp)
<1> DEFINE lead == Lead(sign, i, m)
           seen == SubSeq(w, lead + 1, p)
           signed == seen[1] \in {"+", "-"}
           pre == IF "SPECIAL" \in flags /\ base = 16 THEN 2 ELSE 0
           start == IF signed THEN 2 ELSE 1
           v == SubSeq(seen, start + pre, Len(seen))
           q == m + pre
<1>1. /\ lead \in Nat /\ i <= lead /\ lead <= m /\ lead < p
      /\ Inked(w) = lead + 1..p
  <2>1. InkedFrom(w, lead, i, m, p)
    BY PartsInked
  <2> HIDE DEF lead
  <2> QED
    BY <2>1 DEF InkedFrom
<1>2. w \in Seq(Marks) /\ Len(w) = t /\ i <= m /\ m <= n /\ n <= o /\ o < p /\ p <= t
  BY DEF Parts
<1>3. lead = m \/ lead = i
  BY Zenon DEF Lead
<1> HIDE DEF lead
<1>4. Min(Inked(w)) = lead + 1 /\ Max(Inked(w)) = p /\ Inked(w) # {}
  <2>1. lead + 1 \in Int /\ p \in Int /\ lead + 1 <= p
    BY <1>1
  <2> QED
    BY <1>1, <2>1, Ends
<1>5. InOnePiece(w)
  BY <1>1, <1>4, Zenon DEF InOnePiece
<1>6. ReadBack(w, base) = IF seen[1] = "-" THEN -Value(v, base) ELSE Value(v, base)
  BY <1>4 DEF ReadBack
<1>7. /\ seen \in Seq(Marks) /\ Len(seen) = p - lead
      /\ \A k \in 1..p - lead : seen[k] = w[lead + k]
  <2>1. \A k \in lead + 1..p : w[k] \in Marks
    BY <1>1, <1>2, ElementOfSeq
  <2>2. lead + 1 \in Int /\ p \in Int
    BY <1>1
  <2>3. /\ seen \in Seq(Marks)
        /\ Len(seen) = IF lead + 1 <= p THEN p - (lead + 1) + 1 ELSE 0
        /\ \A k \in 1..p - (lead + 1) + 1 : seen[k] = w[lead + 1 + k - 1]
    BY <2>1, <2>2, MarksPart, Zenon
  <2> HIDE DEF seen
  <2>4. p - (lead + 1) + 1 = p - lead /\ lead + 1 <= p
    BY <1>1
  <2>5. \A k \in 1..p - lead : lead + 1 + k - 1 = lead + k
    BY <1>1
  <2> QED
    BY <2>3, <2>4, <2>5, Zenon
<1>8. /\ lead + start = m + 1 /\ start \in {1, 2}
      /\ seen[1] = "-" <=> sign = <<"-">>
  <2>1. seen[1] = w[lead + 1]
    BY <1>1, <1>7
  <2> HIDE DEF seen
  <2> DEFINE ls == Len(sign)
  <2>2. ls \in {0, 1} /\ m = i + ls /\ (ls = 1 => sign[1] \in {"-", "+", " "})
        /\ (sign = <<" ">> <=> ls = 1 /\ sign[1] = " ")
        /\ (sign = <<"-">> <=> ls = 1 /\ sign[1] = "-")
    BY SignShows, Zenon DEF Parts
  <2>3. \A k \in i + 1..m : w[k] = sign[k - i]
    BY DEF Parts
  <2> HIDE DEF ls
  <2>4. ls \in {0, 1} /\ m = i + ls
    BY <2>2
  <2>5. CASE ls = 1 /\ sign[1] # " "
    <3>1. lead = i
      BY <2>2, <2>5, Zenon DEF lead, Lead
    <3>2. i + 1 \in i + 1..m /\ (i + 1) - i = 1 /\ m = i + 1
      <4>1. ls = 1
        BY <2>5
      <4> QED
        BY <2>4, <4>1
    <3>3. seen[1] = sign[1]
      BY <2>1, <2>3, <3>1, <3>2
    <3>4. signed
      BY <2>2, <2>5, <3>3, Zenon
    <3>5. start = 2
      BY <3>4
    <3> HIDE DEF start
    <3>6. lead + start = m + 1 /\ start \in {1, 2}
      BY <3>1, <3>2, <3>5
    <3> QED
      BY <2>2, <2>5, <3>3, <3>6, Zenon
  <2>6. CASE ~(ls = 1 /\ sign[1] # " ")
    <3>1. lead = m
      <4>1. CASE ls = 1
        BY <2>2, <2>6, <4>1, Zenon DEF lead, Lead
      <4>2. CASE ls = 0
        BY <1>3, <2>4, <4>2
      <4> QED
        BY <2>4, <4>1, <4>2
    <3>2. m + 1 \in m + 1..p
      BY <1>2
    <3>3. seen[1] \notin {" ", "+", "-"}
      <4>1. \A k \in m + 1..p : w[k] \notin {" ", "+", "-"}
        BY BodyShows, Zenon
      <4> QED
        BY <2>1, <3>1, <3>2, <4>1, Zenon
    <3>4. start = 1
      BY <3>3
    <3> HIDE DEF start
    <3>5. lead + start = m + 1 /\ start \in {1, 2}
      BY <3>1, <3>4
    <3>6. seen[1] # "-" /\ " " # "-"
      BY <3>3
    <3> QED
      BY <2>2, <2>6, <3>5, <3>6, Zenon
  <2> QED
    BY <2>5, <2>6, Zenon
<1> HIDE DEF seen, start
<1>9. /\ q \in Nat /\ m <= q /\ q <= n /\ pre \in {0, 2}
      /\ \A k \in q + 1..n : w[k] = "0"
  <2> DEFINE lp == Len(prefix)
  <2>1. lp \in {0, 1, 2} /\ (lp = 1 => prefix[1] = "0") /\ n = m + lp
    BY PrefixShows, Zenon DEF Parts
  <2>2. (lp = 2 => pre = 2) /\ (lp # 2 => pre = 0)
    BY Zenon DEF IsPrefixOf
  <2> HIDE DEF lp, pre
  <2>3. lp \in {0, 1, 2} /\ n = m + lp
    BY <2>1
  <2>4. q \in Nat /\ m <= q /\ q <= n /\ pre \in {0, 2}
    BY <2>2, <2>3
  <2>5. ASSUME NEW k \in q + 1..n PROVE w[k] = "0"
    <3>1. lp = 1 /\ k - m = 1 /\ k \in m + 1..n
      BY <2>2, <2>3
    <3>2. w[k] = prefix[k - m]
      BY <3>1 DEF Parts
    <3> QED
      BY <2>1, <3>1, <3>2
  <2> QED
    BY <2>4, <2>5
<1> HIDE DEF pre
<1>10. /\ v \in Seq(Marks) /\ Len(v) = p - q
       /\ \A k \in 1..p - q : v[k] = w[q + k]
  <2> DEFINE x == start + pre
             l == p - lead
  <2>1. l \in Nat /\ x \in Nat \ {0} /\ x = q - lead + 1 /\ x - 1 + lead = q /\ l - x + 1 = p - q /\ x <= l
    BY <1>1, <1>2, <1>8, <1>9
  <2>2. \A k \in x..l : seen[k] \in Marks
    <3> HIDE DEF x, l
    <3>1. \A k \in x..l : k \in 1..l
      BY <2>1
    <3> QED
      BY <1>7, <3>1, ElementOfSeq DEF l
  <2>3. v = SubSeq(seen, x, l)
    BY <1>7
  <2> HIDE DEF x, l, v
  <2>4. /\ SubSeq(seen, x, l) \in Seq(Marks)
        /\ Len(SubSeq(seen, x, l)) = IF x <= l THEN l - x + 1 ELSE 0
        /\ \A k \in 1..l - x + 1 : SubSeq(seen, x, l)[k] = seen[x + k - 1]
    <3>1. x \in Int /\ l \in Int
      BY <2>1
    <3> QED
      BY <2>2, <3>1, MarksPart, Zenon
  <2>5. v \in Seq(Marks) /\ Len(v) = p - q /\ \A k \in 1..p - q : v[k] = seen[x + k - 1]
    BY <2>1, <2>3, <2>4, Zenon
  <2>6. ASSUME NEW k \in 1..p - q PROVE v[k] = w[q + k]
    <3>1. x + k - 1 \in 1..p - lead /\ lead + (x + k - 1) = q + k
      BY <1>1, <1>9, <2>1 DEF l
    <3>2. seen[x + k - 1] = w[lead + (x + k - 1)]
      BY <1>7, <3>1
    <3> QED
      BY <2>5, <3>1, <3>2
  <2> QED
    BY <2>5, <2>6
<1> HIDE DEF v, q
<1>11. Value(v, base) = Value(tmp, base)
  <2> DEFINE z == o - q
             lt == Len(tmp)
             lv == Len(v)
  <2>1. z \in Nat /\ p = o + lt /\ lt \in Nat /\ lv = p - q
    <3>1. p = o + lt /\ lt \in Nat
      BY LenProperties DEF Parts
    <3> HIDE DEF lt
    <3> QED
      BY <1>2, <1>9, <1>10, <3>1
  <2>2. lv = z + lt
    <3> HIDE DEF lt, lv
    <3> QED
      BY <1>9, <2>1
  <2>3. ASSUME NEW k \in 1..z PROVE DigitValue(v[k]) = 0
    <3>1. k \in 1..p - q /\ q + k \in q + 1..o
      BY <1>2, <1>9
    <3>2. v[k] = w[q + k]
      BY <1>10, <3>1
    <3>3. w[q + k] = "0"
      <4>1. q + k \in q + 1..n \/ q + k \in n + 1..o
        BY <3>1, <1>9
      <4>2. \A y \in n + 1..o : w[y] = "0"
        BY DEF Parts
      <4> QED
        BY <1>9, <4>1, <4>2, Zenon
    <3> QED
      BY <3>2, <3>3, DigitsShow, Zenon
  <2>4. ASSUME NEW k \in 1..lt PROVE v[z + k] = tmp[k]
    <3>0. lt \in Nat /\ p = o + lt /\ z = o - q
      BY <2>1
    <3> HIDE DEF lt, z
    <3> DEFINE x == z + k
               y == q + x
    <3>1. x \in 1..p - q /\ y \in o + 1..p /\ y - o = k
      BY <1>2, <1>9, <3>0
    <3> HIDE DEF x, y
    <3>2. v[x] = w[y]
      BY <1>10, <3>1 DEF y
    <3>3. w[y] = tmp[y - o]
      BY <3>1 DEF Parts
    <3>4. v[x] = tmp[k]
      BY <3>1, <3>2, <3>3
    <3> QED
      BY <3>4 DEF x
  <2>5. tmp \in Seq(Marks)
    BY MarksSeq
  <2>6. WithZeros(v, z, tmp)
    BY <2>2, <2>3, <2>4, Zenon DEF WithZeros
  <2>7. z \in Nat /\ v \in Seq(Marks)
    BY <1>10, <2>1
  <2> HIDE DEF z
  <2> QED
    BY <2>5, <2>6, <2>7, ValueLeadingZeros
<1> QED
  BY <1>5, <1>6, <1>8, <1>11, Zenon DEF ReadsAs
-----------------------------------------------------------------------------
(* What is written for a number, and the lengths of what is written. *)

\* w fills a field of size characters: it is as long as the field, or as the n
\* characters in it.
FillsField(w, size, n) == Fitting(size, n) => Len(w) = AtLeast(size, n)

\* number() is called with the directive's flag for prefixes.
Prefixed(type) == "SPECIAL" \in type <=> "SPECIAL" \in flags

\* What number() writes fills its field and can be read back.
LEMMA NumberFacts ==
    ASSUME NEW num \in 0..WORD - 1, NEW base \in {2, 8, 10, 16}, NEW size \in Int,
           NEW prec \in Int, NEW type, Prefixed(type), NEW w, w = number(num, base, size, prec, type)
    PROVE  /\ Len(w) \in Nat
           /\ FillsField(w, size, Shown(num, base, prec, type))
           /\ Len(w) <= BUFFER =>
                /\ InOnePiece(w)
                /\ ReadBack(w, base) = IF Negative(num, type) THEN num - WORD ELSE num
<1>0. \/ IsTooLong(w, num, base, size, prec, type)
      \/ \E i \in Nat, z \in Nat, j \in Nat, sign \in SignTexts, prefix \in PrefixTexts,
           tmp \in Seq(DigitChars) : IsWritten(w, num, base, size, prec, type, i, sign, prefix, z, tmp, j)
  BY NumberIsWritten
<1>a. CASE IsTooLong(w, num, base, size, prec, type)
  <2>1. BUFFER \in Nat
    BY WrapFacts
  <2>2. Len(w) \in Nat /\ Len(w) > BUFFER /\ ~Fitting(size, Shown(num, base, prec, type))
    BY <1>a DEF IsTooLong
  <2>3. ~(Len(w) <= BUFFER)
    BY <2>1, <2>2
  <2> QED
    BY <2>2, <2>3, Zenon DEF FillsField
<1>b. CASE \E i \in Nat, z \in Nat, j \in Nat, sign \in SignTexts, prefix \in PrefixTexts,
             tmp \in Seq(DigitChars) : IsWritten(w, num, base, size, prec, type, i, sign, prefix, z, tmp, j)
  <2>1. PICK i \in Nat, z \in Nat, j \in Nat, sign \in SignTexts, prefix \in PrefixTexts,
             tmp \in Seq(DigitChars) : IsWritten(w, num, base, size, prec, type, i, sign, prefix, z, tmp, j)
    BY <1>b
  <2>2. /\ w = Written(i, sign, prefix, z, tmp, j)
        /\ Len(tmp) \in Nat \ {0}
        /\ Value(tmp, base) = IF Negative(num, type) THEN WORD - num ELSE num
        /\ sign = <<"-">> <=> Negative(num, type)
        /\ Len(prefix) = 2 <=> "SPECIAL" \in flags /\ base = 16
        /\ Fitting(size, Shown(num, base, prec, type)) =>
             Total(i, sign, prefix, z, tmp, j) = AtLeast(size, Shown(num, base, prec, type))
    BY <2>1, Zenon DEF IsWritten, Prefixed
  <2>3. PICK m, n, o, p, t \in Nat :
          Parts(w, sign, prefix, tmp, i, m, n, o, p, t) /\ t = Total(i, sign, prefix, z, tmp, j)
    <3>1. Len(tmp) \in Nat \ {0}
      BY <2>2
    <3>2. PICK m, n, o, p, t \in Nat :
            PutInParts(Written(i, sign, prefix, z, tmp, j), i, sign, prefix, z, tmp, j, m, n, o, p, t)
      BY <3>1, WrittenInParts
    <3>3. w = Written(i, sign, prefix, z, tmp, j)
      BY <2>2, Zenon
    <3>4. PutInParts(w, i, sign, prefix, z, tmp, j, m, n, o, p, t)
      BY <3>2, <3>3, Zenon
    <3> QED
      BY <3>4, Zenon DEF PutInParts
  <2>4. InOnePiece(w) /\ ReadBack(w, base) = IF sign = <<"-">> THEN -Value(tmp, base) ELSE Value(tmp, base)
    <3>1. base \in Nat
      OBVIOUS
    <3>2. Parts(w, sign, prefix, tmp, i, m, n, o, p, t)
      BY <2>3
    <3>3. IsPrefixOf(prefix, base)
      BY <2>2, Zenon DEF IsPrefixOf
    <3>4. ReadsAs(w, base, sign, tmp)
      BY <3>1, <3>2, <3>3, PartsReadBack
    <3> QED
      BY <3>4, Zenon DEF ReadsAs
  <2>5. ReadBack(w, base) = IF Negative(num, type) THEN num - WORD ELSE num
    <3>1. CASE Negative(num, type)
      <4>1. ReadBack(w, base) = -(WORD - num)
        BY <2>2, <2>4, <3>1, Zenon
      <4>2. -(WORD - num) = num - WORD
        BY PrintkAssumption
      <4> QED
        BY <3>1, <4>1, <4>2, Zenon
    <3>2. CASE ~Negative(num, type)
      BY <2>2, <2>4, <3>2, Zenon
    <3> QED
      BY <3>1, <3>2
  <2>6. Len(w) = t /\ t \in Nat
    BY <2>3, Zenon DEF Parts
  <2> QED
    BY <2>2, <2>3, <2>4, <2>5, <2>6, Zenon DEF FillsField
<1> QED
  BY <1>0, <1>a, <1>b

Blanks == {" "}

\* Three texts one behind the other.
LEMMA ThreeTexts ==
    ASSUME NEW S, NEW s \in Seq(S), NEW t \in Seq(S), NEW u \in Seq(S)
    PROVE  /\ Len(s \o t \o u) = Len(s) + Len(t) + Len(u)
           /\ Len(s) \in Nat /\ Len(t) \in Nat /\ Len(u) \in Nat
<1>1. s \o t \in Seq(S) /\ Len(s \o t) = Len(s) + Len(t)
  BY ConcatProperties
<1>2. Len((s \o t) \o u) = Len(s \o t) + Len(u)
  BY <1>1, ConcatProperties
<1> QED
  BY <1>1, <1>2, LenProperties

\* What is asked for is what the int says, or more than it can say.
Told(n, asked) == n \in Ints /\ asked \in Nat \cup {-1} /\ (asked < WORD \div 2 => n = asked)

\* Blanks before or behind a text, or around it when a loop counts over.
Around(text, m, n) == Fill(" ", m) \o text \o Fill(" ", n)

LEMMA AroundFacts ==
    ASSUME NEW S, NEW text \in Seq(S), Blanks \subseteq S, NEW m \in Int, NEW n \in Int
    PROVE  /\ Len(Around(text, m, n)) \in Nat
           /\ Len(Around(text, m, n)) = AtLeast(m, 0) + Len(text) + AtLeast(n, 0)
<1>1. \A k \in Int : /\ Fill(" ", k) \in Seq(S) /\ Len(Fill(" ", k)) = AtLeast(k, 0)
                     /\ AtLeast(k, 0) \in Nat
  <2>1. " " \in S
    BY DEF Blanks
  <2> QED
    BY <2>1, FillFacts
<1>2. /\ Len(Around(text, m, n)) = Len(Fill(" ", m)) + Len(text) + Len(Fill(" ", n))
      /\ Len(text) \in Nat
  <2> DEFINE s == Fill(" ", m)
             u == Fill(" ", n)
  <2>1. s \in Seq(S) /\ u \in Seq(S)
    BY <1>1
  <2>2. Around(text, m, n) = s \o text \o u
    BY DEF Around
  <2> HIDE DEF s, u
  <2>3. Len(s \o text \o u) = Len(s) + Len(text) + Len(u) /\ Len(text) \in Nat
    BY <2>1, ThreeTexts
  <2> QED
    BY <2>2, <2>3, Zenon DEF s, u
<1> DEFINE a == AtLeast(m, 0)
           b == Len(text)
           d == AtLeast(n, 0)
<1>3. a \in Nat /\ b \in Nat /\ d \in Nat
  BY <1>1, <1>2
<1>4. Len(Around(text, m, n)) = a + b + d
  BY <1>1, <1>2, Zenon
<1>5. a + b + d \in Nat
  <2> HIDE DEF a, b, d
  <2> QED
    BY <1>3
<1> QED
  BY <1>4, <1>5, Zenon

\* %c
LEMMA CharFacts ==
    ASSUME NEW c, NEW asked, Told(field_width, asked)
    PROVE  /\ Len(CharText(c)) \in Nat
           /\ AtLeast(asked, 1) <= BUFFER => Len(CharText(c)) = AtLeast(asked, 1)
<1> DEFINE S == {c, " "}
           h == WORD \div 2
           before == Wrap(field_width - 1)
           rest == IF "LEFT" \in flags THEN field_width ELSE IF before > 0 THEN 0 ELSE before
           m == IF "LEFT" \in flags THEN 0 ELSE before
           n == Wrap(rest - 1)
<1>0. 0 \in Int /\ 0 <= 0
  OBVIOUS
<1>1. << c >> \in Seq(S) /\ Len(<< c >>) = 1 /\ Blanks \subseteq S
  <2>1. c \in S /\ Blanks \subseteq S
    BY DEF Blanks
  <2> HIDE DEF S
  <2> QED
    BY <2>1, OneLetter
<1>2. /\ h \in Nat /\ BUFFER + 3 <= h /\ BUFFER \in Nat /\ field_width \in -h..h - 1
      /\ \A x \in Int : Wrap(x) \in -h..h - 1 /\ (x \in -h..h - 1 => Wrap(x) = x)
      /\ asked \in Nat \cup {-1} /\ (asked < h => field_width = asked)
  BY WrapFacts DEF Ints, Told
<1> HIDE DEF h
<1>3. before \in Int /\ rest \in Int /\ m \in Int /\ n \in Int
  <2>1. before \in Int /\ field_width \in Int
    BY <1>2
  <2>2. rest \in Int /\ m \in Int
    BY <2>1
  <2>3. n \in Int
    BY <1>2, <2>2
  <2> QED
    BY <2>1, <2>2, <2>3
<1>4. CharText(c) = Around(<< c >>, m, n)
  <2>1. Fill(" ", 0) = << >>
    BY <1>0, NoFill, Zenon
  <2> QED
    BY <2>1, Zenon DEF CharText, Around
<1> HIDE DEF S
<1>5. /\ Len(CharText(c)) \in Nat
      /\ Len(CharText(c)) = AtLeast(m, 0) + 1 + AtLeast(n, 0)
  <2>1. /\ Len(Around(<< c >>, m, n)) \in Nat
        /\ Len(Around(<< c >>, m, n)) = AtLeast(m, 0) + Len(<< c >>) + AtLeast(n, 0)
    <3> HIDE DEF m, n
    <3> QED
      BY <1>1, <1>3, AroundFacts
  <2> QED
    BY <1>1, <1>4, <2>1, Zenon
<1>6. ASSUME AtLeast(asked, 1) <= BUFFER PROVE AtLeast(m, 0) + 1 + AtLeast(n, 0) = AtLeast(asked, 1)
  <2>1. field_width = asked /\ asked <= BUFFER
    BY <1>2, <1>6 DEF AtLeast
  <2>2. before = asked - 1
    <3>1. field_width - 1 \in -h..h - 1
      BY <1>2, <2>1
    <3> QED
      BY <1>2, <2>1, <3>1
  <2>3. rest - 1 \in -h..h - 1 /\ n = rest - 1
    <3>1. rest - 1 \in -h..h - 1
      BY <1>2, <2>1, <2>2
    <3> QED
      BY <1>2, <3>1
  <2> HIDE DEF before, n
  <2>4. CASE "LEFT" \in flags
    <3>1. m = 0 /\ n = asked - 1
      BY <2>1, <2>3, <2>4
    <3> HIDE DEF m
    <3> QED
      BY <1>2, <3>1 DEF AtLeast
  <2>5. CASE "LEFT" \notin flags
    <3>1. m = asked - 1 /\ n < 0
      BY <1>2, <2>2, <2>3, <2>5
    <3> HIDE DEF m
    <3> QED
      BY <1>2, <1>3, <3>1 DEF AtLeast
  <2> QED
    BY <2>4, <2>5
<1> HIDE DEF m, n
<1> QED
  BY <1>5, <1>6, Zenon

\* %s
LEMMA StringFacts ==
    ASSUME NEW s \in Strings, NEW asked, Told(field_width, asked), precision \in Int,
           NEW k, k = Kept(s)
    PROVE  /\ Len(StringText(s)) \in Nat
           /\ AtLeast(asked, k) <= BUFFER => Len(StringText(s)) = AtLeast(asked, k)
<1> DEFINE l == Len(s)
           h == WORD \div 2
           u == SubSeq(s, 1, k)
           rest == IF "LEFT" \in flags THEN field_width
                   ELSE IF field_width > k THEN k - 1 ELSE Wrap(field_width - 1)
           m == IF "LEFT" \in flags THEN 0 ELSE field_width - k
           n == rest - k
<1>0. 0 \in Int /\ 0 <= 0
  OBVIOUS
<1>1. s \in Seq(STRING) /\ l \in Nat
  BY PrintkAssumption, LenProperties
<1>2. k = (IF precision < 0 \/ l < precision THEN l ELSE precision)
  BY DEF Kept
<1> HIDE DEF l
<1>3. k \in 0..l /\ k \in Nat
  BY <1>1, <1>2
<1>4. \A x \in 1..k : s[x] \in STRING
  <2>1. \A x \in 1..k : x \in 1..l
    BY <1>1, <1>3
  <2> QED
    BY <1>1, <2>1, ElementOfSeq DEF l
<1>5. u \in Seq(STRING) /\ Len(u) = k
  <2>1. 1 \in Int /\ k \in Int /\ (1 <= k => k - 1 + 1 = k) /\ (~(1 <= k) => k = 0)
    BY <1>1, <1>3
  <2>2. u \in Seq(STRING) /\ Len(u) = IF 1 <= k THEN k - 1 + 1 ELSE 0
    BY <1>4, <2>1, SubSeqProperties
  <2> QED
    BY <2>1, <2>2
<1>6. /\ h \in Nat /\ BUFFER + 3 <= h /\ BUFFER \in Nat /\ field_width \in -h..h - 1
      /\ \A x \in Int : Wrap(x) \in -h..h - 1 /\ (x \in -h..h - 1 => Wrap(x) = x)
      /\ asked \in Nat \cup {-1} /\ (asked < h => field_width = asked)
  BY WrapFacts DEF Ints, Told
<1> HIDE DEF h
<1>7. m \in Int /\ n \in Int
  <2>1. Wrap(field_width - 1) \in Int /\ field_width \in Int
    BY <1>6
  <2> QED
    BY <1>3, <2>1
<1>8. StringText(s) = Around(u, m, n)
  <2>1. Fill(" ", 0) = << >>
    BY <1>0, NoFill, Zenon
  <2> QED
    BY <2>1, Zenon DEF StringText, Around
<1> HIDE DEF u
<1>9. /\ Len(StringText(s)) \in Nat
      /\ Len(StringText(s)) = AtLeast(m, 0) + k + AtLeast(n, 0)
  <2> DEFINE S == STRING \cup Blanks
  <2>1. u \in Seq(S) /\ Blanks \subseteq S
    BY <1>5
  <2> HIDE DEF S
  <2> QED
    BY <1>5, <1>7, <1>8, <2>1, AroundFacts
<1>10. ASSUME AtLeast(asked, k) <= BUFFER PROVE AtLeast(m, 0) + k + AtLeast(n, 0) = AtLeast(asked, k)
  <2>1. field_width = asked /\ asked <= BUFFER
    BY <1>3, <1>6, <1>10 DEF AtLeast
  <2>2. Wrap(field_width - 1) = asked - 1
    <3>1. field_width - 1 \in -h..h - 1
      BY <1>6, <2>1
    <3> QED
      BY <1>6, <2>1, <3>1
  <2>3. CASE "LEFT" \in flags
    <3>1. m = 0 /\ n = asked - k
      BY <2>1, <2>3
    <3> HIDE DEF m, n
    <3> QED
      BY <1>3, <1>6, <3>1 DEF AtLeast
  <2>4. CASE "LEFT" \notin flags
    <3>1. m = asked - k /\ n < 0
      BY <1>3, <1>6, <2>1, <2>2, <2>4
    <3> HIDE DEF m, n
    <3> QED
      BY <1>3, <1>6, <1>7, <3>1 DEF AtLeast
  <2> QED
    BY <2>3, <2>4
<1> QED
  BY <1>9, <1>10, Zenon
-----------------------------------------------------------------------------
(* The state machine. *)

\* A decimal digit has a value.
LEMMA DecimalValue ==
    ASSUME NEW c \in Decimal
    PROVE  DigitValue(c) \in Nat
<1>1. PICK i \in 1..10 : c = Small[i]
  BY DEF Decimal
<1> DEFINE k == i - 1
<1>2. k \in 0..15 /\ k + 1 = i /\ k \in Nat
  OBVIOUS
<1> HIDE DEF k
<1>3. DigitValue(Small[k + 1]) = k
  BY <1>2, DigitNames
<1> QED
  BY <1>1, <1>2, <1>3

\* One round of skip_atoi() yields what the format says, or wraps.
LEMMA SkipAtoi ==
    ASSUME format \in Decimal, NEW i, NEW asked \in Nat, Told(i, asked)
    PROVE  /\ Told(skip_atoi(i), SoFar(asked)) /\ SoFar(asked) # -1
           /\ Told(skip_atoi(0), SoFar(0)) /\ SoFar(0) # -1
<1> DEFINE d == DigitValue(format)
           h == WORD \div 2
<1>1. d \in Nat
  BY DecimalValue
<1>2. /\ h \in Nat /\ i \in -h..h - 1 /\ (asked < h => i = asked)
      /\ \A x \in Int : Wrap(x) \in -h..h - 1 /\ (x \in -h..h - 1 => Wrap(x) = x)
  BY WrapFacts DEF Told, Ints
<1> HIDE DEF d, h
<1>3. ASSUME NEW j \in Int, NEW a \in Nat, a < h => j = a
      PROVE  /\ Wrap(j * 10 + d) \in -h..h - 1 /\ a * 10 + d \in Nat
             /\ a * 10 + d < h => Wrap(j * 10 + d) = a * 10 + d
  <2>1. j * 10 + d \in Int /\ a * 10 + d \in Nat /\ a <= a * 10 + d
    BY <1>1
  <2>2. ASSUME a * 10 + d < h PROVE Wrap(j * 10 + d) = a * 10 + d
    <3>1. j = a
      BY <1>2, <1>3, <2>1, <2>2
    <3>2. a * 10 + d \in -h..h - 1
      BY <1>2, <2>1, <2>2
    <3> QED
      BY <1>2, <2>1, <3>1, <3>2
  <2> QED
    BY <1>2, <2>1, <2>2
<1>4. /\ Wrap(i * 10 + d) \in -h..h - 1 /\ asked * 10 + d \in Nat
      /\ asked * 10 + d < h => Wrap(i * 10 + d) = asked * 10 + d
  BY <1>2, <1>3
<1>5. /\ Wrap(0 * 10 + d) \in -h..h - 1 /\ 0 * 10 + d \in Nat
      /\ 0 * 10 + d < h => Wrap(0 * 10 + d) = 0 * 10 + d
  BY <1>3
<1>6. \A x \in Nat : x # -1
  OBVIOUS
<1>7. /\ skip_atoi(i) = Wrap(i * 10 + d) /\ SoFar(asked) = asked * 10 + d
      /\ skip_atoi(0) = Wrap(0 * 10 + d) /\ SoFar(0) = 0 * 10 + d
  BY DEF skip_atoi, SoFar, d
<1>8. SoFar(asked) \in Nat /\ SoFar(0) \in Nat
  BY <1>4, <1>5, <1>7, Zenon
<1> QED
  BY <1>4, <1>5, <1>6, <1>7, <1>8, Zenon DEF Told, Ints, h

\* The widths and precisions taken from the arguments.
LEMMA SignedWords ==
    ASSUME NEW w \in Words
    PROVE  /\ w \in 0..WORD - 1 /\ Signed(w) \in Ints
           /\ Told(StarWidth(w), AtLeast(Signed(w), -Signed(w)))
           /\ Told(AtLeast(Signed(w), 0), AtLeast(Signed(w), 0))
<1> DEFINE h == WORD \div 2
           s == Signed(w)
<1>1. /\ w \in 0..WORD - 1 /\ WORD \in Nat /\ h \in Nat /\ WORD = 2 * h
      /\ \A x \in Int : Wrap(x) \in -h..h - 1 /\ (x \in -h..h - 1 => Wrap(x) = x)
  BY PrintkAssumption, WrapFacts DEF Ints
<1>2. s \in -h..h - 1
  BY <1>1 DEF Signed
<1>3. StarWidth(w) = IF s < 0 THEN Wrap(-s) ELSE s
  BY DEF StarWidth
<1> HIDE DEF s, h
<1>4. /\ StarWidth(w) \in -h..h - 1 /\ AtLeast(s, -s) \in Nat
      /\ AtLeast(s, -s) < h => StarWidth(w) = AtLeast(s, -s)
  <2>1. CASE s < 0
    <3>1. -s \in Int /\ AtLeast(s, -s) = -s /\ -s \in Nat
      BY <1>1, <1>2, <2>1 DEF AtLeast
    <3>2. -s < h => -s \in -h..h - 1
      BY <1>1, <1>2, <2>1
    <3> QED
      BY <1>1, <1>3, <2>1, <3>1, <3>2
  <2>2. CASE ~(s < 0)
    BY <1>1, <1>2, <1>3, <2>2 DEF AtLeast
  <2> QED
    BY <2>1, <2>2
<1>5. AtLeast(s, 0) \in Nat /\ AtLeast(s, 0) \in -h..h - 1
  BY <1>1, <1>2 DEF AtLeast
<1> QED
  BY <1>1, <1>2, <1>4, <1>5, Zenon DEF Told, Ints, h, s

\* The bases number() is called with.
LEMMA BaseOfFormat ==
    ASSUME format \in DOMAIN BaseOf
    PROVE  BaseOf[format] \in {2, 8, 10, 16}
BY DEF BaseOf

\* What number() is called with.
LEMMA NumberCall ==
    ASSUME PrintkTypeOK, format \in DOMAIN BaseOf
    PROVE  /\ NumberWidth \in Int /\ precision \in Int
           /\ Prefixed(NumberFlags)
           /\ "SIGN" \in NumberFlags <=> format \in {"d", "i"}
<1>1. flags \subseteq Flags /\ field_width \in Int /\ precision \in Int
  BY IntsAreInts DEF PrintkTypeOK
<1>2. NumberWidth \in Int /\ precision \in Int
  BY <1>1 DEF NumberWidth
<1> DEFINE more == CASE format = "x" -> {"SMALL"}
                     [] format \in {"d", "i"} -> {"SIGN"}
                     [] format = "p" /\ field_width = -1 -> {"ZEROPAD"}
                     [] OTHER -> {}
<1>3. NumberFlags = flags \cup more
  BY DEF NumberFlags
<1>4. /\ more \in {{"SMALL"}, {"SIGN"}, {"ZEROPAD"}, {}}
      /\ more = {"SIGN"} <=> format \in {"d", "i"}
  <2>1. CASE format = "x"
    BY <2>1
  <2>2. CASE format \in {"d", "i"}
    BY <2>2
  <2>3. CASE format = "p" /\ field_width = -1
    BY <2>3
  <2>4. CASE format \notin {"x", "d", "i"} /\ ~(format = "p" /\ field_width = -1)
    BY <2>4
  <2> QED
    BY <2>1, <2>2, <2>3, <2>4
<1> HIDE DEF more
<1>5. "SIGN" \notin flags
  BY <1>1 DEF Flags
<1>6. "SPECIAL" \notin more /\ ("SIGN" \in more <=> more = {"SIGN"})
  BY <1>4
<1> QED
  BY <1>2, <1>3, <1>4, <1>5, <1>6, Zenon DEF Prefixed

\* What is written has a length; it is in the buffer or has left it.
LEMMA WritesText ==
    ASSUME NEW text, Len(text) \in Nat, PrintkTypeOK, Write(text)
    PROVE  /\ str' \in Nat /\ pc' \in {"loop", "overrun"}
           /\ pc' # "overrun" => str' <= BUFFER /\ Len(text) <= BUFFER
<1> DEFINE l == Len(text)
<1>1. /\ l \in Nat /\ str \in Nat /\ str' = str + l
      /\ pc' = IF str' <= BUFFER THEN "loop" ELSE "overrun"
  BY DEF Write, PrintkTypeOK
<1> HIDE DEF l
<1>2. str' \in Nat /\ BUFFER \in Nat /\ l <= str'
  BY <1>1, WrapFacts
<1>3. str' <= BUFFER => l <= BUFFER
  BY <1>1, <1>2
<1> QED
  BY <1>1, <1>2, <1>3 DEF l

\* ++format stays within the format.
LEMMA AdvanceTypes ==
    ASSUME PrintkTypeOK, Advance \/ Stay
    PROVE  format' \in Alphabet \cup {NUL} /\ left' \in 0..MaxFormat
<1>1. MaxFormat \in Nat
  BY PrintkAssumption
<1>2. CASE Advance
  <2>1. left \in 0..MaxFormat
    BY DEF PrintkTypeOK
  <2>2. left' = AtLeast(left - 1, 0) /\ format' \in Alphabet \cup {NUL}
    BY <1>2 DEF Advance
  <2> QED
    BY <1>1, <2>1, <2>2 DEF AtLeast
<1>3. CASE Stay
  BY <1>3 DEF Stay, PrintkTypeOK
<1> QED
  BY <1>2, <1>3

\* What ConvertNumber writes.
LEMMA NumberText ==
    ASSUME PrintkTypeOK, format \in DOMAIN BaseOf, NEW w \in Words,
           NEW text, text = number(w, BaseOf[format], NumberWidth, precision, NumberFlags)
    PROVE  /\ Len(text) \in Nat
           /\ FillsField(text, NumberWidth, Shown(w, BaseOf[format], precision, NumberFlags))
           /\ Len(text) <= BUFFER =>
                /\ InOnePiece(text)
                /\ ReadBack(text, BaseOf[format]) = IF format \in {"d", "i"} THEN Signed(w) ELSE w
<1> DEFINE base == BaseOf[format]
<1>1. base \in {2, 8, 10, 16}
  BY BaseOfFormat
<1>2. w \in 0..WORD - 1
  BY SignedWords
<1>3. NumberWidth \in Int /\ precision \in Int /\ Prefixed(NumberFlags)
  BY NumberCall
<1>4. "SIGN" \in NumberFlags <=> format \in {"d", "i"}
  BY NumberCall
<1>5. text = number(w, base, NumberWidth, precision, NumberFlags)
  OBVIOUS
<1> HIDE DEF base
<1>6. /\ Len(text) \in Nat
      /\ FillsField(text, NumberWidth, Shown(w, base, precision, NumberFlags))
      /\ Len(text) <= BUFFER =>
           /\ InOnePiece(text)
           /\ ReadBack(text, base) = IF Negative(w, NumberFlags) THEN w - WORD ELSE w
  BY <1>1, <1>2, <1>3, <1>5, NumberFacts
<1>7. (IF Negative(w, NumberFlags) THEN w - WORD ELSE w)
        = IF format \in {"d", "i"} THEN Signed(w) ELSE w
  BY <1>4, Zenon DEF Negative, Signed
<1> QED
  BY <1>6, <1>7, Zenon DEF base

\* Widths and precisions are what the format says or have wrapped; digits have
\* been read where digits are being read.
PrintkInv ==
    /\ PrintkTypeOK
    /\ Told(field_width, asked_width) /\ Told(precision, asked_precision)
    /\ pc = "width digits" => asked_width # -1
    /\ pc = "point digits" => asked_precision # -1

\* A conversion writes a text that has a length.
LEMMA ConvertWrites ==
    ASSUME PrintkInv, ConvertChar \/ ConvertString \/ ConvertNumber \/ ConvertUnknown \/ ConvertPercent
    PROVE  \E text : Len(text) \in Nat /\ Write(text)
<1>1. PrintkTypeOK /\ Told(field_width, asked_width) /\ precision \in Int
  BY IntsAreInts DEF PrintkInv, PrintkTypeOK
<1>2. CASE ConvertChar
  <2>1. PICK c \in Chars : Write(CharText(c))
    BY <1>2 DEF ConvertChar
  <2>2. Len(CharText(c)) \in Nat
    BY <1>1, CharFacts
  <2> QED
    BY <2>1, <2>2
<1>3. CASE ConvertString
  <2>1. PICK s \in Strings : Write(StringText(s))
    BY <1>3 DEF ConvertString
  <2>2. Len(StringText(s)) \in Nat
    BY <1>1, StringFacts
  <2> QED
    BY <2>1, <2>2
<1>4. CASE ConvertNumber
  <2>1. format \in DOMAIN BaseOf
    BY <1>4 DEF ConvertNumber
  <2>2. PICK w \in Words : Write(number(w, BaseOf[format], NumberWidth, precision, NumberFlags))
    BY <1>4 DEF ConvertNumber
  <2> DEFINE text == number(w, BaseOf[format], NumberWidth, precision, NumberFlags)
  <2>3. Len(text) \in Nat
    <3>1. text = number(w, BaseOf[format], NumberWidth, precision, NumberFlags)
      OBVIOUS
    <3> HIDE DEF text
    <3> QED
      BY <1>1, <2>1, <3>1, NumberText
  <2> HIDE DEF text
  <2> QED
    BY <2>2, <2>3 DEF text
<1>5. CASE ConvertUnknown
  <2>1. Len(<<"%">>) \in Nat /\ Len(<<"%", format>>) \in Nat
    BY OneLetter, TwoLetters
  <2>2. Write(<<"%">>) \/ Write(<<"%", format>>)
    BY <1>5 DEF ConvertUnknown
  <2> QED
    BY <2>1, <2>2
<1>6. CASE ConvertPercent
  <2>1. Len(<<"%">>) \in Nat
    BY OneLetter
  <2>2. Write(<<"%">>)
    BY <1>6 DEF ConvertPercent
  <2> QED
    BY <2>1, <2>2
<1> QED
  BY <1>2, <1>3, <1>4, <1>5, <1>6

\* Characters of flags stand for flags.
LEMMA FlagOfFlags ==
    ASSUME format \in DOMAIN FlagOf
    PROVE  FlagOf[format] \in Flags
BY DEF FlagOf, Flags

\* No width and no precision yet.
LEMMA NoneTold == Told(-1, -1) /\ -1 \in Ints
BY WrapFacts DEF Told, Ints

\* The invariant holds when vsprintf() starts.
LEMMA PrintkInitInv == PrintkInit => PrintkInv
<1>1. MaxFormat - 1 \in 0..MaxFormat
  BY PrintkAssumption
<1>2. 0 <= BUFFER
  BY WrapFacts
<1> QED
  BY <1>1, <1>2, NoneTold DEF PrintkInit, PrintkTypeOK, PrintkInv

\* Every step of vsprintf() keeps it.
LEMMA PrintkNextInv ==
    ASSUME PrintkInv, [PrintkNext]_printkVars
    PROVE  PrintkInv'
<1> DEFINE Places == {"loop", "flags", "width", "width digits", "precision", "point", "point digits",
                      "qualifier", "convert", "done", "overrun"}
           Where == pc' \in Places \ {"width digits", "point digits"}
           InBuffer == str' \in Nat /\ (pc' # "overrun" => str' <= BUFFER)
           Width == field_width' = field_width /\ asked_width' = asked_width
           Precision == precision' = precision /\ asked_precision' = asked_precision
           ToldWidth == Told(field_width', asked_width')
           ToldPrecision == Told(precision', asked_precision')
           Digits_ == /\ pc' = "width digits" => asked_width' # -1
                      /\ pc' = "point digits" => asked_precision' # -1
<1>0. /\ PrintkTypeOK /\ pc \in Places /\ flags \subseteq Flags
      /\ Told(field_width, asked_width) /\ Told(precision, asked_precision)
      /\ str \in Nat /\ (pc # "overrun" => str <= BUFFER)
      /\ precision \in Int /\ (pc # "point digits" => precision >= -1)
  BY IntsAreInts DEF PrintkInv, PrintkTypeOK
<1>1. ASSUME pc' \in Places, InBuffer, flags' \subseteq Flags, ToldWidth, ToldPrecision, Digits_,
             pc' # "point digits" => precision' >= -1, Advance \/ Stay
      PROVE  PrintkInv'
  <2>1. format' \in Alphabet \cup {NUL} /\ left' \in 0..MaxFormat
    BY <1>0, <1>1, AdvanceTypes
  <2> QED
    BY <1>1, <2>1 DEF PrintkInv, PrintkTypeOK, Told
<1>2. ASSUME UNCHANGED buffer, pc # "overrun" PROVE InBuffer
  BY <1>0, <1>2 DEF buffer
<1>3. UNCHANGED widths => Width
  BY DEF widths
<1>4. UNCHANGED precisions => Precision
  BY DEF precisions
<1>5. UNCHANGED directive => Width /\ Precision /\ flags' = flags
  BY DEF directive, widths, precisions
<1>6. Where => Digits_
  OBVIOUS
<1>7. ASSUME NEW text, Len(text) \in Nat, Write(text)
      PROVE  InBuffer /\ pc' \in Places /\ Where
  BY <1>0, <1>7, WritesText
<1>a. -1 >= -1
  OBVIOUS
<1> HIDE DEF InBuffer, Digits_
<1>8. Width => ToldWidth
  BY <1>0
<1>9. Precision => ToldPrecision
  BY <1>0
<1>10. ASSUME pc # "point digits", Precision PROVE precision' >= -1
  BY <1>0, <1>10
<1>11. ASSUME pc = "convert" \/ pc = "loop", UNCHANGED directive, Advance \/ Stay,
              NEW text, Len(text) \in Nat, Write(text)
       PROVE  PrintkInv'
  <2>1. InBuffer /\ pc' \in Places /\ Digits_
    BY <1>6, <1>7, <1>11
  <2>2. Width /\ Precision /\ flags' = flags /\ pc # "point digits"
    BY <1>5, <1>11
  <2>3. ToldWidth /\ ToldPrecision /\ precision' >= -1
    BY <1>8, <1>9, <1>10, <2>2
  <2> QED
    BY <1>0, <1>1, <1>11, <2>1, <2>2, <2>3
<1>12. ASSUME Where, UNCHANGED buffer, pc # "overrun", Width, ToldPrecision, precision' >= -1,
              flags' \subseteq Flags, Advance \/ Stay
       PROVE  PrintkInv'
  <2>1. pc' \in Places /\ InBuffer /\ ToldWidth /\ Digits_
    BY <1>2, <1>6, <1>8, <1>12
  <2> QED
    BY <1>1, <1>12, <2>1
<1>13. CASE Ordinary
  <2>1. Len(<< format >>) \in Nat /\ Write(<< format >>)
    BY <1>13, OneLetter DEF Ordinary
  <2> QED
    BY <1>11, <1>13, <2>1 DEF Ordinary
<1>14. CASE Percent
  <2>1. Where /\ Width /\ Precision /\ pc = "loop"
    BY <1>3, <1>4, <1>14 DEF Percent
  <2>2. ToldPrecision /\ precision' >= -1
    BY <1>9, <1>10, <2>1
  <2> QED
    BY <1>12, <1>14, <2>1, <2>2 DEF Percent
<1>15. CASE ReadFlag
  <2>1. Where /\ Width /\ Precision /\ pc = "flags"
    BY <1>3, <1>4, <1>15 DEF ReadFlag
  <2>2. ToldPrecision /\ precision' >= -1
    BY <1>9, <1>10, <2>1
  <2>3. flags' \subseteq Flags
    BY <1>0, <1>15, FlagOfFlags DEF ReadFlag
  <2> QED
    BY <1>12, <1>15, <2>1, <2>2, <2>3 DEF ReadFlag
<1>16. CASE FlagsDone
  <2>1. Where /\ Precision /\ pc = "flags" /\ field_width' = -1 /\ asked_width' = -1
    BY <1>4, <1>16 DEF FlagsDone, SetWidth
  <2>2. ToldWidth /\ ToldPrecision /\ precision' >= -1
    BY <1>9, <1>10, <2>1, NoneTold
  <2>3. InBuffer /\ Digits_ /\ pc' \in Places
    BY <1>2, <1>6, <1>16, <2>1 DEF FlagsDone
  <2> QED
    BY <1>0, <1>1, <1>16, <2>2, <2>3 DEF FlagsDone
<1>17. CASE WidthDigit
  <2>1. Precision /\ pc' = "width digits" /\ pc \in {"width", "width digits"}
    BY <1>4, <1>17 DEF WidthDigit
  <2>2. ToldWidth /\ asked_width' # -1
    <3>1. CASE pc = "width"
      <4>1. Told(0, 0)
        BY WrapFacts DEF Told, Ints
      <4>2. field_width' = skip_atoi(0) /\ asked_width' = SoFar(0) /\ format \in Decimal
        BY <1>17, <3>1 DEF WidthDigit, SetWidth
      <4> QED
        BY <4>1, <4>2, SkipAtoi
    <3>2. CASE pc = "width digits"
      <4>1. asked_width \in Nat
        BY <1>0, <3>2 DEF PrintkInv, PrintkTypeOK
      <4>2. field_width' = skip_atoi(field_width) /\ asked_width' = SoFar(asked_width)
            /\ format \in Decimal
        BY <1>17, <3>2 DEF WidthDigit, SetWidth
      <4> QED
        BY <1>0, <4>1, <4>2, SkipAtoi
    <3> QED
      BY <2>1, <3>1, <3>2
  <2>3. ToldPrecision /\ precision' >= -1
    BY <1>9, <1>10, <2>1
  <2>4. InBuffer /\ Digits_ /\ pc' \in Places
    BY <1>2, <1>17, <2>1, <2>2 DEF WidthDigit, Digits_
  <2> QED
    BY <1>0, <1>1, <1>17, <2>2, <2>3, <2>4 DEF WidthDigit
<1>18. CASE WidthStar
  <2>1. PICK w \in Words : /\ field_width' = StarWidth(w)
                           /\ asked_width' = AtLeast(Signed(w), -Signed(w))
                           /\ flags' = IF Signed(w) < 0 THEN flags \cup {"LEFT"} ELSE flags
    BY <1>18 DEF WidthStar, SetWidth
  <2>2. ToldWidth
    BY <2>1, SignedWords
  <2>3. flags' \subseteq Flags
    BY <1>0, <2>1 DEF Flags
  <2>4. Where /\ pc = "width" /\ precision' = -1 /\ asked_precision' = -1
    BY <1>18 DEF WidthStar, SetPrecision
  <2>5. ToldPrecision /\ precision' >= -1
    BY <1>a, <2>4, NoneTold, Zenon
  <2>6. InBuffer /\ Digits_ /\ pc' \in Places
    BY <1>2, <1>6, <1>18, <2>4 DEF WidthStar
  <2> QED
    BY <1>1, <1>18, <2>2, <2>3, <2>5, <2>6 DEF WidthStar
<1>19. CASE WidthDone
  <2>1. /\ Where /\ Width /\ pc \in {"width", "width digits"} /\ flags' = flags
        /\ precision' = -1 /\ asked_precision' = -1
    BY <1>3, <1>19 DEF WidthDone, SetPrecision
  <2>2. ToldPrecision /\ precision' >= -1
    BY <1>a, <2>1, NoneTold, Zenon
  <2> QED
    BY <1>0, <1>12, <1>19, <2>1, <2>2 DEF WidthDone
<1>20. CASE Point
  <2>1. Where /\ Width /\ Precision /\ pc = "precision" /\ flags' = flags
    BY <1>5, <1>20 DEF Point
  <2>2. ToldPrecision /\ precision' >= -1
    BY <1>9, <1>10, <2>1
  <2> QED
    BY <1>0, <1>12, <1>20, <2>1, <2>2 DEF Point
<1>21. CASE PrecisionDigit
  <2>1. Width /\ pc' = "point digits" /\ pc \in {"point", "point digits"}
    BY <1>3, <1>21 DEF PrecisionDigit
  <2>2. ToldPrecision /\ asked_precision' # -1
    <3>1. CASE pc = "point"
      <4>1. Told(0, 0)
        BY WrapFacts DEF Told, Ints
      <4>2. precision' = skip_atoi(0) /\ asked_precision' = SoFar(0) /\ format \in Decimal
        BY <1>21, <3>1 DEF PrecisionDigit, SetPrecision
      <4> QED
        BY <4>1, <4>2, SkipAtoi
    <3>2. CASE pc = "point digits"
      <4>1. asked_precision \in Nat
        BY <1>0, <3>2 DEF PrintkInv, PrintkTypeOK
      <4>2. precision' = skip_atoi(precision) /\ asked_precision' = SoFar(asked_precision)
            /\ format \in Decimal
        BY <1>21, <3>2 DEF PrecisionDigit, SetPrecision
      <4> QED
        BY <1>0, <4>1, <4>2, SkipAtoi
    <3> QED
      BY <2>1, <3>1, <3>2
  <2>3. ToldWidth
    BY <1>8, <2>1
  <2>4. InBuffer /\ Digits_ /\ pc' \in Places
    BY <1>2, <1>21, <2>1, <2>2 DEF PrecisionDigit, Digits_
  <2> QED
    BY <1>0, <1>1, <1>21, <2>1, <2>2, <2>3, <2>4 DEF PrecisionDigit
<1>22. CASE PrecisionStar
  <2>1. PICK w \in Words : /\ precision' = AtLeast(Signed(w), 0)
                           /\ asked_precision' = AtLeast(Signed(w), 0)
    BY <1>22 DEF PrecisionStar, SetPrecision
  <2>2. ToldPrecision /\ precision' \in Nat
    <3>1. Signed(w) \in Int
      BY SignedWords, IntsAreInts
    <3>2. AtLeast(Signed(w), 0) \in Nat
      BY <3>1 DEF AtLeast
    <3> QED
      BY <2>1, <3>2, SignedWords
  <2>3. Where /\ Width /\ pc = "point" /\ flags' = flags /\ precision' >= -1
    BY <1>3, <1>22, <2>2 DEF PrecisionStar
  <2> QED
    BY <1>0, <1>12, <1>22, <2>2, <2>3 DEF PrecisionStar
<1>23. CASE PrecisionDone
  <2>1. Where /\ Width /\ pc \in {"precision", "point", "point digits"} /\ flags' = flags
    BY <1>3, <1>23 DEF PrecisionDone
  <2>2. ToldPrecision /\ precision' >= -1
    <3>1. CASE pc = "precision"
      <4>1. Precision
        BY <1>4, <1>23, <3>1 DEF PrecisionDone
      <4> QED
        BY <1>9, <1>10, <3>1, <4>1
    <3>2. CASE pc # "precision"
      <4>1. precision' = AtLeast(precision, 0) /\ asked_precision' = AtLeast(asked_precision, 0)
        BY <1>23, <3>2 DEF PrecisionDone, SetPrecision
      <4> DEFINE h == WORD \div 2
      <4>2. /\ h \in Nat /\ precision \in -h..h - 1 /\ asked_precision \in Nat \cup {-1}
            /\ asked_precision < h => precision = asked_precision
            /\ BUFFER \in Nat /\ BUFFER + 3 <= h
        BY <1>0, WrapFacts DEF Told, Ints
      <4> HIDE DEF h
      <4>3. /\ AtLeast(precision, 0) \in -h..h - 1 /\ AtLeast(precision, 0) >= -1
            /\ AtLeast(asked_precision, 0) \in Nat
            /\ AtLeast(asked_precision, 0) < h => AtLeast(precision, 0) = AtLeast(asked_precision, 0)
        BY <4>2 DEF AtLeast
      <4> QED
        BY <4>1, <4>3 DEF Told, Ints, h
    <3> QED
      BY <3>1, <3>2
  <2> QED
    BY <1>0, <1>12, <1>23, <2>1, <2>2 DEF PrecisionDone
<1>24. CASE Qualifier
  <2>1. Where /\ Width /\ Precision /\ pc = "qualifier" /\ flags' = flags
    BY <1>5, <1>24 DEF Qualifier
  <2>2. ToldPrecision /\ precision' >= -1
    BY <1>9, <1>10, <2>1
  <2> QED
    BY <1>0, <1>12, <1>24, <2>1, <2>2 DEF Qualifier
<1>25. CASE ConvertChar \/ ConvertString \/ ConvertNumber \/ ConvertUnknown \/ ConvertPercent
  <2>1. PICK text : Len(text) \in Nat /\ Write(text)
    BY <1>25, ConvertWrites
  <2>2. pc = "convert" /\ UNCHANGED directive /\ (Advance \/ Stay)
    BY <1>25 DEF ConvertChar, ConvertString, ConvertNumber, ConvertUnknown, ConvertPercent,
                 AfterUnknown, Back
  <2> QED
    BY <1>11, <2>1, <2>2
<1>26. CASE ConvertCount
  <2>1. Where /\ Width /\ Precision /\ pc = "convert" /\ flags' = flags
    BY <1>5, <1>26 DEF ConvertCount, Back
  <2>2. ToldPrecision /\ precision' >= -1
    BY <1>9, <1>10, <2>1
  <2> QED
    BY <1>0, <1>12, <1>26, <2>1, <2>2 DEF ConvertCount
<1>27. CASE Return
  <2>1. Where /\ Width /\ Precision /\ pc = "loop" /\ flags' = flags
    BY <1>5, <1>27 DEF Return
  <2>2. ToldPrecision /\ precision' >= -1
    BY <1>9, <1>10, <2>1
  <2> QED
    BY <1>0, <1>12, <1>27, <2>1, <2>2 DEF Return
<1>28. CASE UNCHANGED printkVars
  BY <1>28 DEF printkVars, buffer, directive, widths, precisions, PrintkInv, PrintkTypeOK, Told
<1> QED
  BY <1>13, <1>14, <1>15, <1>16, <1>17, <1>18, <1>19, <1>20, <1>21, <1>22, <1>23, <1>24,
     <1>25, <1>26, <1>27, <1>28 DEF PrintkNext

\* The widths and precisions of vsprintf() are what the format says or have wrapped.
LEMMA PrintkInvHolds == PrintkSpec => []PrintkInv
<1>1. PrintkInit => PrintkInv
  BY PrintkInitInv
<1>2. PrintkInv /\ [PrintkNext]_printkVars => PrintkInv'
  BY PrintkNextInv
<1> QED
  BY <1>1, <1>2, PTL DEF PrintkSpec

\* A number that printk() prints into its buffer can be read back by whoever
\* sees it, for every word, format, width, precision and set of flags: number().
THEOREM NumbersAreReadBack == PrintkSpec => NumbersReadBack
<1> DEFINE A == /\ InOnePiece(out')
                /\ ReadBack(out', BaseOf[format])
                     = IF format \in {"d", "i"} THEN Signed(arg') ELSE arg'
<1>1. ASSUME PrintkInv, ConvertNumber, pc' # "overrun" PROVE A
  <2>1. format \in DOMAIN BaseOf /\ PrintkTypeOK
    BY <1>1 DEF ConvertNumber, PrintkInv
  <2>2. PICK w \in Words :
          /\ Write(number(w, BaseOf[format], NumberWidth, precision, NumberFlags))
          /\ arg' = w
    BY <1>1 DEF ConvertNumber
  <2> DEFINE text == out'
  <2>3. text = number(w, BaseOf[format], NumberWidth, precision, NumberFlags) /\ Write(text)
    BY <2>2 DEF Write
  <2> HIDE DEF text
  <2>4. /\ Len(text) \in Nat
        /\ Len(text) <= BUFFER =>
             /\ InOnePiece(text)
             /\ ReadBack(text, BaseOf[format]) = IF format \in {"d", "i"} THEN Signed(w) ELSE w
    BY <2>1, <2>3, NumberText
  <2>5. Len(text) <= BUFFER
    BY <1>1, <2>1, <2>3, <2>4, WritesText
  <2> QED
    BY <2>2, <2>4, <2>5, Zenon DEF text
<1>2. PrintkInv => [ConvertNumber /\ pc' # "overrun" => A]_printkVars
  BY <1>1
<1> HIDE DEF A
<1>3. PrintkSpec => [][ConvertNumber /\ pc' # "overrun" => A]_printkVars
  BY <1>2, PrintkInvHolds, PTL
<1> QED
  BY <1>3 DEF NumbersReadBack, A

\* What is written fills what is asked for when that fits.
LEMMA WriteFills ==
    ASSUME PrintkTypeOK, NEW text, Len(text) \in Nat, Write(text), NEW asked \in Int, NEW n \in Nat,
           AtLeast(asked, n) <= BUFFER => Len(text) = AtLeast(asked, n)
    PROVE  Fills(asked, n)
<1> DEFINE l == Len(text)
           a == AtLeast(asked, n)
<1>1. /\ l \in Nat /\ str \in Nat /\ str' = str + l /\ BUFFER \in Nat /\ out' = text
      /\ pc' = IF str' <= BUFFER THEN "loop" ELSE "overrun"
  BY WrapFacts DEF Write, PrintkTypeOK
<1>2. a \in Nat /\ (a <= BUFFER => l = a)
  BY DEF AtLeast
<1>3. Len(out') = l
  BY <1>1
<1> HIDE DEF l, a
<1>4. str + a <= BUFFER => l = a /\ str' <= BUFFER
  BY <1>1, <1>2
<1> QED
  BY <1>1, <1>3, <1>4, Zenon DEF Fills, a

\* As long as the format asks for no more than there is room for, every
\* conversion writes what it asks for into the buffer of printk(), whatever ints
\* have wrapped on the way.
THEOREM FieldsAreFilled == PrintkSpec => FieldsFill
<1> DEFINE C == Fills(asked_width, 1)
           S == Fills(asked_width,
                      IF asked_precision < 0 \/ asked_precision > Len(arg') THEN Len(arg')
                      ELSE asked_precision)
           N == Fills(IF format = "p" /\ asked_width = -1 THEN 8 ELSE asked_width, NumberLength(arg'))
<1>0. ASSUME PrintkInv
      PROVE  /\ PrintkTypeOK /\ Told(field_width, asked_width) /\ Told(precision, asked_precision)
             /\ asked_width \in Int /\ asked_precision \in Nat \cup {-1} /\ precision \in Int
  <2>1. PrintkTypeOK /\ Told(field_width, asked_width) /\ Told(precision, asked_precision)
    BY <1>0 DEF PrintkInv
  <2>2. asked_width \in Nat \cup {-1} /\ asked_precision \in Nat \cup {-1} /\ precision \in Ints
    BY <2>1, Zenon DEF Told
  <2>3. asked_width \in Int /\ precision \in Int
    BY <2>2, IntsAreInts
  <2> QED
    BY <2>1, <2>2, <2>3, Zenon
<1>1. ASSUME PrintkInv, ConvertChar PROVE C
  <2>1. PICK c \in Chars : Write(CharText(c))
    BY <1>1 DEF ConvertChar
  <2>2. /\ Len(CharText(c)) \in Nat
        /\ AtLeast(asked_width, 1) <= BUFFER => Len(CharText(c)) = AtLeast(asked_width, 1)
    BY <1>0, <1>1, CharFacts
  <2> QED
    BY <1>0, <1>1, <2>1, <2>2, WriteFills
<1>2. ASSUME PrintkInv, ConvertString, asked_precision < WORD \div 2 PROVE S
  <2>1. PICK s \in Strings : arg' = s /\ Write(StringText(s))
    BY <1>2 DEF ConvertString
  <2> DEFINE k == Kept(s)
             l == Len(s)
  <2>2. l \in Nat
    BY PrintkAssumption, LenProperties
  <2>3. precision = asked_precision
    BY <1>0, <1>2 DEF Told
  <2>4. /\ k \in Nat
        /\ k = IF asked_precision < 0 \/ asked_precision > l THEN l ELSE asked_precision
    <3>1. k = (IF precision < 0 \/ l < precision THEN l ELSE precision)
      BY DEF Kept
    <3> HIDE DEF k, l
    <3> QED
      BY <1>0, <1>2, <2>2, <2>3, <3>1
  <2>5. k = Kept(s)
    OBVIOUS
  <2> HIDE DEF k
  <2>6. /\ Len(StringText(s)) \in Nat
        /\ AtLeast(asked_width, k) <= BUFFER => Len(StringText(s)) = AtLeast(asked_width, k)
    BY <1>0, <1>2, <2>5, StringFacts
  <2>7. Fills(asked_width, k)
    BY <1>0, <1>2, <2>1, <2>4, <2>6, WriteFills
  <2> QED
    BY <2>1, <2>4, <2>7, Zenon
<1>3. ASSUME PrintkInv, ConvertNumber PROVE N
  <2>1. format \in DOMAIN BaseOf
    BY <1>3 DEF ConvertNumber
  <2>2. PICK w \in Words :
          /\ Write(number(w, BaseOf[format], NumberWidth, precision, NumberFlags))
          /\ arg' = w
    BY <1>3 DEF ConvertNumber
  <2> DEFINE text == out'
             asked == IF format = "p" /\ asked_width = -1 THEN 8 ELSE asked_width
             shown == Shown(w, BaseOf[format], precision, NumberFlags)
             n == NumberLength(w)
  <2>3. text = number(w, BaseOf[format], NumberWidth, precision, NumberFlags) /\ Write(text)
    BY <2>2 DEF Write
  <2> HIDE DEF text
  <2>4. Len(text) \in Nat /\ FillsField(text, NumberWidth, shown)
    BY <1>0, <1>3, <2>1, <2>3, NumberText
  <2>5. n \in Nat /\ n >= asked_precision /\ (precision = asked_precision => shown = n)
    <3> DEFINE digits == Digits(IF Negative(w, NumberFlags) THEN WORD - w ELSE w, BaseOf[format],
                                IF "SMALL" \in NumberFlags THEN Small ELSE Large)
               sign == IF Negative(w, NumberFlags) \/ NumberFlags \cap {"PLUS", "SPACE"} # {} THEN 1 ELSE 0
               prefix == IF "SPECIAL" \notin NumberFlags THEN 0
                         ELSE IF BaseOf[format] = 16 THEN 2 ELSE IF BaseOf[format] = 8 THEN 1 ELSE 0
    <3>1. n = sign + prefix + AtLeast(Len(digits), asked_precision)
      BY DEF NumberLength
    <3>2. shown = sign + prefix + AtLeast(Len(digits), precision)
      BY DEF Shown
    <3>3. Len(digits) \in Nat
      <4> DEFINE abs == IF Negative(w, NumberFlags) THEN WORD - w ELSE w
                 names == IF "SMALL" \in NumberFlags THEN Small ELSE Large
      <4>1. abs \in Nat
        BY SignedWords, PrintkAssumption
      <4>2. names \in {Small, Large}
        OBVIOUS
      <4>3. BaseOf[format] \in 2..16
        <5>1. BaseOf[format] \in {2, 8, 10, 16}
          BY <2>1, BaseOfFormat
        <5> QED
          BY <5>1
      <4> HIDE DEF abs, names
      <4> QED
        BY <4>1, <4>2, <4>3, DigitsFacts DEF abs, names
    <3>4. sign \in Nat /\ prefix \in Nat
      OBVIOUS
    <3> DEFINE l == Len(digits)
    <3>5. l \in Nat
      BY <3>3
    <3> HIDE DEF sign, prefix, l
    <3>6. n = sign + prefix + AtLeast(l, asked_precision)
      BY <3>1 DEF l
    <3> HIDE DEF n
    <3>7. n \in Nat /\ n >= asked_precision
      <4> DEFINE a == AtLeast(l, asked_precision)
      <4>1. asked_precision \in Int
        BY <1>0, <1>3
      <4>2. a \in Nat /\ a >= asked_precision
        BY <3>5, <4>1 DEF AtLeast
      <4>3. n = sign + prefix + a
        BY <3>6
      <4>4. sign \in Nat /\ prefix \in Nat
        BY <3>4 DEF sign, prefix
      <4> HIDE DEF a
      <4> QED
        BY <4>1, <4>2, <4>3, <4>4
    <3> QED
      BY <3>1, <3>2, <3>7 DEF n
  <2> HIDE DEF shown, n
  <2>6. asked \in Int
    BY <1>0, <1>3
  <2>7. ASSUME AtLeast(asked, n) <= BUFFER PROVE Len(text) = AtLeast(asked, n)
    <3> DEFINE h == WORD \div 2
    <3>1. h \in Nat /\ BUFFER \in Nat /\ BUFFER + 3 <= h
      BY WrapFacts
    <3>2. /\ asked_width \in Nat \cup {-1} /\ (asked_width < h => field_width = asked_width)
          /\ asked_precision \in Nat \cup {-1} /\ (asked_precision < h => precision = asked_precision)
      BY <1>0, <1>3 DEF Told
    <3> HIDE DEF h
    <3>3. asked <= BUFFER /\ n <= BUFFER
      BY <2>5, <2>6, <2>7, <3>1 DEF AtLeast
    <3>4. asked_width < h /\ asked_precision < h
      BY <2>5, <3>1, <3>2, <3>3
    <3>5. precision = asked_precision /\ NumberWidth = asked
      BY <3>2, <3>4 DEF NumberWidth
    <3>6. asked >= -1
      BY <3>2
    <3>7. Fitting(asked, n)
      BY <2>7, <3>6 DEF Fitting
    <3> QED
      BY <2>4, <2>5, <3>5, <3>7, Zenon DEF FillsField
  <2> HIDE DEF asked
  <2>8. Fills(asked, n)
    BY <1>0, <1>3, <2>3, <2>4, <2>5, <2>6, <2>7, WriteFills
  <2> QED
    BY <2>2, <2>8, Zenon DEF asked, n
<1>4. PrintkInv => /\ PrintkTypeOK
                   /\ [ConvertChar => C]_printkVars
                   /\ [ConvertString /\ asked_precision < WORD \div 2 => S]_printkVars
                   /\ [ConvertNumber => N]_printkVars
  BY <1>0, <1>1, <1>2, <1>3
<1> HIDE DEF C, S, N
<1>5. PrintkSpec => /\ []PrintkTypeOK
                    /\ [][ConvertChar => C]_printkVars
                    /\ [][ConvertString /\ asked_precision < WORD \div 2 => S]_printkVars
                    /\ [][ConvertNumber => N]_printkVars
  BY <1>4, PrintkInvHolds, PTL
<1> QED
  BY <1>5 DEF FieldsFill, C, S, N

\* vsprintf() never moves on behind the end of the format, even when the format
\* ends in the middle of a directive.
THEOREM FormatEnds == PrintkSpec => StopsAtNul
<1> DEFINE A == format = NUL => format' = NUL
<1>1. ASSUME [PrintkNext]_printkVars, format = NUL PROVE format' = NUL
  <2>1. Stay => format' = NUL
    BY <1>1 DEF Stay
  <2>2. CASE Ordinary
    BY <1>1, <2>2 DEF Ordinary
  <2>3. CASE Percent
    BY <1>1, <2>3 DEF Percent, NUL
  <2>4. CASE ReadFlag
    BY <1>1, <2>4 DEF ReadFlag, NUL, FlagOf
  <2>5. CASE FlagsDone \/ WidthStar \/ WidthDone \/ PrecisionStar \/ PrecisionDone \/ Return
    BY <2>1, <2>5 DEF FlagsDone, WidthStar, WidthDone, PrecisionStar, PrecisionDone, Return
  <2>6. CASE WidthDigit \/ PrecisionDigit
    <3>1. NUL \notin Decimal
      <4>1. ASSUME NEW i \in 1..10 PROVE Small[i] # NUL
        BY DEF Small, NUL
      <4> QED
        BY <4>1 DEF Decimal
    <3> QED
      BY <1>1, <2>6, <3>1 DEF WidthDigit, PrecisionDigit
  <2>7. CASE Point
    BY <1>1, <2>7 DEF Point, NUL
  <2>8. CASE Qualifier
    BY <1>1, <2>1, <2>8 DEF Qualifier, NUL
  <2>9. CASE ConvertChar \/ ConvertString \/ ConvertCount \/ ConvertPercent
    BY <1>1, <2>9 DEF ConvertChar, ConvertString, ConvertCount, ConvertPercent, NUL
  <2>10. CASE ConvertNumber
    BY <1>1, <2>10 DEF ConvertNumber, BaseOf, NUL
  <2>11. CASE ConvertUnknown
    BY <1>1, <2>1, <2>11 DEF ConvertUnknown, AfterUnknown
  <2>12. CASE UNCHANGED printkVars
    BY <1>1, <2>12 DEF printkVars
  <2> QED
    BY <1>1, <2>2, <2>3, <2>4, <2>5, <2>6, <2>7, <2>8, <2>9, <2>10, <2>11, <2>12 DEF PrintkNext
<1>2. [PrintkNext]_printkVars => [A]_printkVars
  BY <1>1
<1> HIDE DEF A
<1>3. PrintkSpec => [][A]_printkVars
  BY <1>2, PTL DEF PrintkSpec
<1> QED
  BY <1>3 DEF StopsAtNul, A

-----------------------------------------------------------------------------
(* printk() and printk_color() together. *)

\* Formatting leaves the screen alone and the console leaves the formatting
\* alone: printk() is vsprintf() and console_write() one after the other, so
\* that whatever holds of either of them holds of printk().
THEOREM OutputIsBoth == OutputSpec => Spec /\ PrintkSpec
<1>1. OutputInit => Init /\ PrintkInit
  BY DEF OutputInit
<1>2. [OutputNext]_<<vars, printkVars>> => [Next]_vars
  BY DEF OutputNext, Format, ConsoleWrite, Clear, Next
<1>3. [OutputNext]_<<vars, printkVars>> => [PrintkNext]_printkVars
  BY DEF OutputNext, Format, ConsoleWrite, Clear
<1> QED
  BY <1>1, <1>2, <1>3, PTL DEF OutputSpec, Spec, PrintkSpec
=============================================================================
