------------------------------- MODULE MCBoot -------------------------------
(***************************************************************************)
(* Boot with an address space of 16 MB, of which the last quarter is the   *)
(* kernel's, and 64 places for kern_stack.                                 *)
(***************************************************************************)
EXTENDS Boot, Bitwise

MCXor(a, b) == a ^^ b

MCKernStacks == {PAGE_OFFSET + 1064960 + 16 * i : i \in 0..63}

Function(name, value) == [name |-> name, value |-> value, size |-> 64, type |-> "FUNC"]
\* nasm gives start no type; the code of .init.text is linked low.
MCSymbols == <<
    [name |-> "start", value |-> 1048588, size |-> 0, type |-> "NOTYPE"],
    Function("kern_entry", 1048640),
    Function("kern_init", 1056768 + PAGE_OFFSET),
    Function("panic", 1056832 + PAGE_OFFSET),
    Function("pmm_free_page", 1056896 + PAGE_OFFSET) >>
=============================================================================
