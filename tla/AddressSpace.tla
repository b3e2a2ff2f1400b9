---------------------------- MODULE AddressSpace ----------------------------
(***************************************************************************)
(* What vmm.c promises its callers: an address space is a partial function *)
(* from pages to frames, map() changes it at one page, unmap() clears one  *)
(* page, and nothing else changes what the CPU sees anywhere.              *)
(***************************************************************************)
CONSTANTS
    Pages,      \* the virtual pages in question
    Frame       \* the frames that may be mapped, 0 is not one of them

VARIABLE space  \* space[va]: the frame the CPU reaches at va, 0 for a fault

Init == space = [va \in Pages |-> 0]

Map(va, pa) == space' = [space EXCEPT ![va] = pa]
Unmap(va) == space' = [space EXCEPT ![va] = 0]

Next == \E va \in Pages : Unmap(va) \/ \E pa \in Frame : Map(va, pa)

Spec == Init /\ [][Next]_space
=============================================================================
