------------------------------- MODULE Output -------------------------------
(***************************************************************************)
(* printk() and printk_color(): vsprintf() of Printk formats a text, then  *)
(* console_write() or console_write_color() hands it to the Console, one   *)
(* character after the other.                                              *)
(***************************************************************************)
EXTENDS Console, Printk

OutputInit == Init /\ PrintkInit

\* The screen does not change while vsprintf() fills the buffer.
Format == PrintkNext /\ UNCHANGED vars

\* Any text.  What was formatted makes no difference to the console, so it is
\* explored behind one format only, the empty one (a bound).
ConsoleWrite ==
    /\ pc = "done" /\ left = MaxFormat - 1 /\ str = 0
    /\ console_putc_color
    /\ UNCHANGED printkVars

\* console_clear(), at any time.
Clear == console_clear /\ UNCHANGED printkVars

OutputNext == Format \/ ConsoleWrite \/ Clear
OutputSpec == OutputInit /\ [][OutputNext]_<<vars, printkVars>>
=============================================================================
