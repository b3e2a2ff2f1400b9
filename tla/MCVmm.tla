------------------------------- MODULE MCVmm -------------------------------
(***************************************************************************)
(* Vmm on 4-byte pages with 4-entry tables: 512 addresses, the direct map  *)
(* at [384, 448) and four frames.  Two of the pages share a table and one  *)
(* has a table of its own.                                                 *)
(***************************************************************************)
EXTENDS Vmm

MCPages == {448, 456, 508}
=============================================================================
