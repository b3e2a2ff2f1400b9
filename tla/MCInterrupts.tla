---------------------------- MODULE MCInterrupts ----------------------------
(***************************************************************************)
(* Interrupts with one exception of each kind (no error code, an error     *)
(* code and a handler, an error code and no handler), the NMI, and a line  *)
(* of each controller, four of them nested at most.                        *)
(***************************************************************************)
EXTENDS Interrupts
=============================================================================
