----------------------------- MODULE MCTestHeap -----------------------------
(***************************************************************************)
(* TestHeap on the machine of MCHeap.                                      *)
(***************************************************************************)
EXTENDS TestHeap
=============================================================================
