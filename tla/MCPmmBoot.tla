----------------------------- MODULE MCPmmBoot -----------------------------
(***************************************************************************)
(* PmmBoot on a machine with 4-byte pages, 32 bytes of supported physical  *)
(* memory, 256 addresses and small memory maps.                            *)
(***************************************************************************)
EXTENDS PmmBoot

Region(b, l, t) == [base |-> b, length |-> l, type |-> t]

\* A BIOS memory map: conventional memory, a reserved hole, memory from
\* LOAD_BASE on of the given size, and a reserved region at its end.
BiosMap(size) ==
    << Region(0, 5, 1), Region(5, 3, 2),
       Region(LOAD_BASE, size, 1), Region(LOAD_BASE + size, 4, 2) >>

\* More RAM from 4GB on, whose low base is 0.
HighMap(size) == BiosMap(size) \o << Region(WORD, 48, 1) >>

\* Up to the supported maximum: the image only, one frame, several.
SmallMaps == { BiosMap(s) : s \in {8, 12, 20, 24} }
             \cup { << Region(LOAD_BASE, 16, 1) >>, HighMap(20) }

\* More memory than PMM_MAX_SIZE.
BigMaps == { BiosMap(s) : s \in {28, 48} }

AllMaps == SmallMaps \cup BigMaps
=============================================================================
