------------------------------- MODULE Printk -------------------------------
(***************************************************************************)
(* Formatting (kernel/debug/printk.c): vsprintf() as a state machine that  *)
(* reads the format one character at a time, and number() as an operator.  *)
(*                                                                         *)
(* The format is not fixed beforehand: the next character is chosen when   *)
(* the code moves on to it, at most MaxFormat of them before the NUL.      *)
(* Characters are one-letter strings.  An int has 32 bits and wraps, as in *)
(* the code that the Makefile's gcc, which optimises nothing, makes of it. *)
(* The model stops where the text leaves its buffer, at "overrun": what    *)
(* the bytes behind it do is not modelled.                                 *)
(***************************************************************************)
EXTENDS Integers, Sequences, SequencesExt

CONSTANTS
    WORD,       \* 2^32
    BUFFER,     \* bytes of the buffer of printk()
    MaxFormat,  \* bound: characters of a format
    Alphabet,   \* what a format is made of
    Words,      \* arguments that are numbers
    Chars,      \* arguments that are characters
    Strings     \* arguments that are strings

NUL == "\\0"

ASSUME PrintkAssumption ==
    /\ WORD \in Nat /\ WORD % 2 = 0 /\ MaxFormat \in Nat \ {0}
    /\ BUFFER \in Nat \ {0} /\ BUFFER + 3 <= WORD \div 2
    /\ NUL \notin Alphabet
    /\ Words \subseteq 0..WORD - 1
    /\ \A s \in Strings : s \in Seq(STRING)

VARIABLES
    pc,         \* where vsprintf is
    format,     \* the character *format
    left,       \* how many more characters the format may have
    str,        \* how much has been written to the buffer
    out,        \* history: what the last step wrote there
    flags, field_width, precision,
    asked_width, asked_precision,   \* history: the numbers that the format says
    arg         \* the last argument taken with va_arg

buffer == <<str, out>>
widths == <<field_width, asked_width>>
precisions == <<precision, asked_precision>>
directive == <<flags, widths, precisions>>
printkVars == <<pc, format, left, buffer, directive, arg>>

\* A word as an int, and what is left of a number in an int.
Signed(w) == IF w >= WORD \div 2 THEN w - WORD ELSE w
Wrap(n) == Signed(n % WORD)
AtLeast(m, n) == IF m > n THEN m ELSE n

Small == <<"0","1","2","3","4","5","6","7","8","9","a","b","c","d","e","f">>
Large == <<"0","1","2","3","4","5","6","7","8","9","A","B","C","D","E","F">>
Decimal == {Small[i] : i \in 1..10}
DigitValue(c) == (CHOOSE i \in 1..16 : c \in {Small[i], Large[i]}) - 1
-----------------------------------------------------------------------------
(* number() *)

\* n characters c, none if n is negative.
Fill(c, n) == [i \in 1..n |-> c]

\* The digits of num, most significant first: tmp[] and do_div().
Digits(num, base, digits) ==
    LET tmp[n \in 0..num] ==
            IF n < base THEN << digits[n + 1] >>
            ELSE Append(tmp[n \div base], digits[(n % base) + 1])
    IN  tmp[num]

\* What a loop "while (size-- > 0)" leaves in size.
Counted(size) == IF size > 0 THEN -1 ELSE Wrap(size - 1)

\* num is negated.  Fault: whatever the conversion.
Negative_Always(num, type) == num >= WORD \div 2
Negative(num, type) == "SIGN" \in type /\ num >= WORD \div 2

\* What is left of the field.  Fault: the sign takes no room.
Room_NoSign(size, sign, prefix) == size - Len(prefix)
Room(size, sign, prefix) == size - Len(sign) - Len(prefix)

number(num, base, size, precision_, type_) ==
    LET type == IF "LEFT" \in type_ THEN type_ \ {"ZEROPAD"} ELSE type_
        digits == IF "SMALL" \in type THEN Small ELSE Large
        sign == IF Negative(num, type) THEN <<"-">>
                ELSE IF "PLUS" \in type THEN <<"+">>
                ELSE IF "SPACE" \in type THEN <<" ">> ELSE << >>
        prefix == IF "SPECIAL" \notin type THEN << >>
                  ELSE IF base = 8 THEN <<"0">>
                  ELSE IF base = 16 THEN <<"0", IF "SMALL" \in type THEN "x" ELSE "X">> ELSE << >>
        tmp == Digits(IF Negative(num, type) THEN WORD - num ELSE num, base, digits)
        width == AtLeast(Len(tmp), precision_)
        size1 == Wrap(Room(size, sign, prefix) - width)
        size2 == IF type \cap {"ZEROPAD", "LEFT"} = {} THEN Counted(size1) ELSE size1
        size3 == IF "LEFT" \notin type THEN Counted(size2) ELSE size2
    IN  (IF type \cap {"ZEROPAD", "LEFT"} = {} THEN Fill(" ", size1) ELSE << >>)
        \o sign \o prefix
        \o (IF "LEFT" \notin type
            THEN Fill(IF "ZEROPAD" \in type THEN "0" ELSE " ", size2) ELSE << >>)
        \o Fill("0", width - Len(tmp)) \o tmp
        \o Fill(" ", size3)
-----------------------------------------------------------------------------
(* vsprintf() *)

PrintkInit ==
    /\ pc = "loop"
    /\ format \in Alphabet \cup {NUL} /\ left = MaxFormat - 1
    /\ str = 0 /\ out = << >>
    /\ flags = {} /\ field_width = -1 /\ asked_width = -1
    /\ precision = -1 /\ asked_precision = -1
    /\ arg = 0

\* ++format.
Advance ==
    /\ left' = AtLeast(left - 1, 0)
    /\ format' \in IF left = 0 THEN {NUL} ELSE Alphabet \cup {NUL}
Stay == UNCHANGED <<format, left>>

\* A width or a precision, and what the format says it is.
SetWidth(n, asked) == field_width' = n /\ asked_width' = asked
SetPrecision(n, asked) == precision' = n /\ asked_precision' = asked

\* Nothing watches the end of the buffer.
Write(text) ==
    /\ out' = text /\ str' = str + Len(text)
    /\ pc' = IF str' <= BUFFER THEN "loop" ELSE "overrun"

Ordinary ==
    /\ pc = "loop" /\ format \notin {"%", NUL}
    /\ Write(<< format >>)
    /\ Advance /\ UNCHANGED <<directive, arg>>

Percent ==
    /\ pc = "loop" /\ format = "%"
    /\ pc' = "flags" /\ flags' = {}
    /\ Advance /\ UNCHANGED <<buffer, widths, precisions, arg>>

FlagOf == [c \in {"-", "+", " ", "#", "0"} |->
    CASE c = "-" -> "LEFT" [] c = "+" -> "PLUS" [] c = " " -> "SPACE"
      [] c = "#" -> "SPECIAL" [] c = "0" -> "ZEROPAD"]

ReadFlag ==
    /\ pc = "flags" /\ format \in DOMAIN FlagOf
    /\ flags' = flags \cup {FlagOf[format]}
    /\ Advance /\ UNCHANGED <<pc, buffer, widths, precisions, arg>>

FlagsDone ==
    /\ pc = "flags" /\ format \notin DOMAIN FlagOf
    /\ pc' = "width" /\ SetWidth(-1, -1)
    /\ Stay /\ UNCHANGED <<buffer, flags, precisions, arg>>

\* One round of skip_atoi(), from i, and what the format says so far.
SoFar(i) == i * 10 + DigitValue(format)
skip_atoi(i) == Wrap(SoFar(i))

WidthDigit ==
    /\ format \in Decimal
    /\ \/ pc = "width" /\ SetWidth(skip_atoi(0), SoFar(0))
       \/ pc = "width digits" /\ SetWidth(skip_atoi(field_width), SoFar(asked_width))
    /\ pc' = "width digits"
    /\ Advance /\ UNCHANGED <<buffer, flags, precisions, arg>>

\* A negative width is a width and the flag LEFT; the smallest int has no
\* negation and stays what it is.
StarWidth(w) == IF Signed(w) < 0 THEN Wrap(-Signed(w)) ELSE Signed(w)

\* The width is the next argument; the format stays at the star.
WidthStar ==
    /\ pc = "width" /\ format = "*"
    /\ \E w \in Words :
          /\ arg' = w
          /\ SetWidth(StarWidth(w), AtLeast(Signed(w), -Signed(w)))
          /\ flags' = IF Signed(w) < 0 THEN flags \cup {"LEFT"} ELSE flags
    /\ pc' = "precision" /\ SetPrecision(-1, -1)
    /\ Stay /\ UNCHANGED buffer

WidthDone ==
    /\ \/ pc = "width" /\ format \notin Decimal \cup {"*"}
       \/ pc = "width digits" /\ format \notin Decimal
    /\ pc' = "precision" /\ SetPrecision(-1, -1)
    /\ Stay /\ UNCHANGED <<buffer, flags, widths, arg>>

Point ==
    /\ pc = "precision" /\ format = "."
    /\ pc' = "point"
    /\ Advance /\ UNCHANGED <<buffer, directive, arg>>

PrecisionDigit ==
    /\ format \in Decimal
    /\ \/ pc = "point" /\ SetPrecision(skip_atoi(0), SoFar(0))
       \/ pc = "point digits" /\ SetPrecision(skip_atoi(precision), SoFar(asked_precision))
    /\ pc' = "point digits"
    /\ Advance /\ UNCHANGED <<buffer, flags, widths, arg>>

\* As for the width, the format stays at the star.
PrecisionStar ==
    /\ pc = "point" /\ format = "*"
    /\ \E w \in Words : arg' = w /\ SetPrecision(AtLeast(Signed(w), 0), AtLeast(Signed(w), 0))
    /\ pc' = "qualifier"
    /\ Stay /\ UNCHANGED <<buffer, flags, widths>>

PrecisionDone ==
    /\ \/ pc = "precision" /\ format # "." /\ UNCHANGED precisions
       \/ /\ \/ pc = "point" /\ format \notin Decimal \cup {"*"}
             \/ pc = "point digits" /\ format \notin Decimal
          /\ SetPrecision(AtLeast(precision, 0), AtLeast(asked_precision, 0))
    /\ pc' = "qualifier"
    /\ Stay /\ UNCHANGED <<buffer, flags, widths, arg>>

Qualifier ==
    /\ pc = "qualifier"
    /\ IF format \in {"h", "l", "L"} THEN Advance ELSE Stay
    /\ pc' = "convert"
    /\ UNCHANGED <<buffer, directive, arg>>

Back == pc = "convert" /\ UNCHANGED directive

\* The loops of %c before and behind the character, "while (--field_width > 0)".
CharText(c) ==
    LET before == Wrap(field_width - 1)
        rest == IF "LEFT" \in flags THEN field_width ELSE IF before > 0 THEN 0 ELSE before
    IN  (IF "LEFT" \in flags THEN << >> ELSE Fill(" ", before))
        \o << c >> \o Fill(" ", Wrap(rest - 1))

ConvertChar ==
    /\ Back /\ format = "c"
    /\ \E c \in Chars : Write(CharText(c)) /\ arg' = c
    /\ Advance

\* The characters of a string that are printed.
Kept(text) == IF precision < 0 \/ Len(text) < precision THEN Len(text) ELSE precision

\* The loops of %s before and behind the text, "while (len < field_width--)".
StringText(s) ==
    LET len == Kept(s)
        rest == IF "LEFT" \in flags THEN field_width
                ELSE IF field_width > len THEN len - 1 ELSE Wrap(field_width - 1)
    IN  (IF "LEFT" \in flags THEN << >> ELSE Fill(" ", field_width - len))
        \o SubSeq(s, 1, len) \o Fill(" ", rest - len)

ConvertString ==
    /\ Back /\ format = "s"
    /\ \E s \in Strings : Write(StringText(s)) /\ arg' = s
    /\ Advance

BaseOf == [c \in {"o", "p", "x", "X", "d", "i", "u", "b"} |->
    CASE c = "o" -> 8 [] c \in {"p", "x", "X"} -> 16 [] c \in {"d", "i", "u"} -> 10 [] c = "b" -> 2]

\* The flags number() is called with; %p alone means eight digits.
NumberFlags ==
    flags \cup CASE format = "x" -> {"SMALL"}
                 [] format \in {"d", "i"} -> {"SIGN"}
                 [] format = "p" /\ field_width = -1 -> {"ZEROPAD"}
                 [] OTHER -> {}
NumberWidth == IF format = "p" /\ field_width = -1 THEN 8 ELSE field_width

ConvertNumber ==
    /\ Back /\ format \in DOMAIN BaseOf
    /\ \E w \in Words :
          /\ Write(number(w, BaseOf[format], NumberWidth, precision, NumberFlags))
          /\ arg' = w
    /\ Advance

\* %n stores how much has been written; %% writes a percent sign.
ConvertCount ==
    /\ Back /\ format = "n" /\ arg' = str
    /\ pc' = "loop" /\ Advance /\ UNCHANGED buffer
ConvertPercent == Back /\ format = "%" /\ Write(<<"%">>) /\ Advance /\ UNCHANGED arg

\* Fault: at the end of the format the loop moves on past the NUL.
AfterUnknown_Advances == Advance
AfterUnknown == IF format = NUL THEN Stay ELSE Advance

\* Anything else is written as it is; at the end of the format --format undoes
\* the ++format of the loop.
ConvertUnknown ==
    /\ Back /\ format \notin DOMAIN BaseOf \cup {"c", "s", "n", "%"}
    /\ Write(IF format = NUL THEN <<"%">> ELSE <<"%", format>>)
    /\ AfterUnknown /\ UNCHANGED arg

\* printk() and printk_color() hand the buffer to the console, with a NUL
\* behind the text.
Return ==
    /\ pc = "loop" /\ format = NUL
    /\ pc' = IF str < BUFFER THEN "done" ELSE "overrun"
    /\ Stay /\ UNCHANGED <<buffer, directive, arg>>

PrintkNext ==
    \/ Ordinary \/ Percent \/ ReadFlag \/ FlagsDone
    \/ WidthDigit \/ WidthStar \/ WidthDone
    \/ Point \/ PrecisionDigit \/ PrecisionStar \/ PrecisionDone \/ Qualifier
    \/ ConvertChar \/ ConvertString \/ ConvertNumber \/ ConvertCount \/ ConvertPercent
    \/ ConvertUnknown \/ Return

PrintkSpec == PrintkInit /\ [][PrintkNext]_printkVars
-----------------------------------------------------------------------------
(* Properties *)

Flags == {"LEFT", "PLUS", "SPACE", "SPECIAL", "ZEROPAD"}
Ints == -(WORD \div 2)..(WORD \div 2) - 1
\* Every variable has its type; an int may have wrapped, and only the precision
\* that a conversion uses is not negative, or -1 for none.
PrintkTypeOK ==
    /\ pc \in {"loop", "flags", "width", "width digits", "precision", "point", "point digits",
               "qualifier", "convert", "done", "overrun"}
    /\ format \in Alphabet \cup {NUL} /\ left \in 0..MaxFormat
    /\ flags \subseteq Flags
    /\ {field_width, precision} \subseteq Ints
    /\ {asked_width, asked_precision} \subseteq Nat \cup {-1}
    /\ pc # "point digits" => precision >= -1
    /\ str \in Nat /\ (pc # "overrun" => str <= BUFFER)

\* Where something is printed.
Inked(w) == {i \in 1..Len(w) : w[i] # " "}

\* The number that digits stand for.
Value(digits, base) ==
    LET value[n \in 0..Len(digits)] ==
            IF n = 0 THEN 0 ELSE base * value[n - 1] + DigitValue(digits[n])
    IN  value[Len(digits)]

\* What a number that was printed says to its reader: its sign, and the digits
\* behind the prefix.
ReadBack(w, base) ==
    LET seen == SubSeq(w, Min(Inked(w)), Max(Inked(w)))
        signed == seen[1] \in {"+", "-"}
        prefix == IF "SPECIAL" \in flags /\ base = 16 THEN 2 ELSE 0
        value == Value(SubSeq(seen, (IF signed THEN 2 ELSE 1) + prefix, Len(seen)), base)
    IN  IF seen[1] = "-" THEN -value ELSE value

\* Blanks only are in front of a number or behind it.
InOnePiece(w) ==
    /\ Inked(w) # {}
    /\ Inked(w) = Min(Inked(w))..Max(Inked(w))

\* A number can be read back from what number() prints, with any combination of
\* flags, width and precision, for both signs, zero and the smallest number,
\* whatever int the width has wrapped to, as long as it stays in the buffer.
NumbersReadBack ==
    [][ConvertNumber /\ pc' # "overrun" =>
         /\ InOnePiece(out')
         /\ ReadBack(out', BaseOf[format])
              = IF format \in {"d", "i"} THEN Signed(arg') ELSE arg']_printkVars

\* A text of n characters fills a field as wide as the format says, or is
\* longer; if there is room for that in the buffer, nothing else is written.
Fills(asked, n) ==
    str + AtLeast(asked, n) <= BUFFER =>
        pc' = "loop" /\ Len(out') = AtLeast(asked, n)

\* The characters that show a number, with its sign, its prefix and as many
\* digits as the precision asks for.
NumberLength(w) ==
    LET negative == Negative(w, NumberFlags)
        digits == Digits(IF negative THEN WORD - w ELSE w, BaseOf[format],
                         IF "SMALL" \in NumberFlags THEN Small ELSE Large)
    IN  (IF negative \/ NumberFlags \cap {"PLUS", "SPACE"} # {} THEN 1 ELSE 0)
        + (IF "SPECIAL" \notin NumberFlags THEN 0
           ELSE IF BaseOf[format] = 16 THEN 2 ELSE IF BaseOf[format] = 8 THEN 1 ELSE 0)
        + AtLeast(Len(digits), asked_precision)

\* Only the format and its arguments take the text out of the 1024 bytes of the
\* buffer of printk(), which nothing in the code looks at: as long as the
\* numbers that the format says ask for no more than there is room for, every
\* conversion writes exactly what is asked for, whatever the ints of widths,
\* precisions and padding loops have wrapped to on the way.
FieldsFill ==
    /\ []PrintkTypeOK
    /\ [][ConvertChar => Fills(asked_width, 1)]_printkVars
    /\ [][ConvertString /\ asked_precision < WORD \div 2 =>
            Fills(asked_width,
                  IF asked_precision < 0 \/ asked_precision > Len(arg') THEN Len(arg')
                  ELSE asked_precision)]_printkVars
    /\ [][ConvertNumber =>
            Fills(IF format = "p" /\ asked_width = -1 THEN 8 ELSE asked_width,
                  NumberLength(arg'))]_printkVars

\* The end of the format is the end: nothing behind the NUL is ever read, even
\* when the format ends in the middle of a directive.
StopsAtNul == [][format = NUL => format' = NUL]_printkVars
=============================================================================
