------------------------------ MODULE MCSched ------------------------------
(***************************************************************************)
(* Sched with the boot task and two threads.                               *)
(***************************************************************************)
EXTENDS Sched
=============================================================================
