----------------------------- MODULE MCHeapAny -----------------------------
(***************************************************************************)
(* Heap with any client, on the machine of MCHeap.                         *)
(***************************************************************************)
EXTENDS Heap
=============================================================================
