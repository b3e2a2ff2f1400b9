------------------------------- MODULE MCHeap -------------------------------
(***************************************************************************)
(* HeapClient on 4-byte pages, 4-entry tables, 512 addresses: the direct   *)
(* map at [384, 448) and the heap from 448 on, as 3GB and 3.5GB of 4GB.    *)
(* Headers of 2 bytes straddle page boundaries.                            *)
(***************************************************************************)
EXTENDS HeapClient
=============================================================================
