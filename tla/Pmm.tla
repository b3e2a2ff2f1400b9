-------------------------------- MODULE Pmm --------------------------------
(***************************************************************************)
(* Physical page allocator (src/mm/pmm.c): a stack of free page frames.    *)
(*                                                                         *)
(* Addresses are numbers in a scaled machine: PAGE_SIZE is the page size,  *)
(* PAGE_MAX_SIZE the number of frames the stack was dimensioned for and    *)
(* PMM_MAX_SIZE the largest supported physical memory, all related as in   *)
(* pmm.h.  This module holds the state and the operations; PmmBoot fills   *)
(* the stack from the BIOS memory map, and Heap and Vmm start from the     *)
(* filled stack.                                                           *)
(***************************************************************************)
EXTENDS Integers

CONSTANTS
    PAGE_SIZE,      \* PMM_PAGE_SIZE of pmm.h and PAGE_SIZE of vmm.h (0x1000)
    PAGE_MAX_SIZE   \* capacity of pmm_stack in frames (131072)

ASSUME PageAssumption ==
    /\ PAGE_SIZE \in Nat \ {0}
    /\ PAGE_MAX_SIZE \in Nat \ {0}

\* Largest supported physical memory, 512 MB in the code.
PMM_MAX_SIZE == PAGE_MAX_SIZE * PAGE_SIZE

VARIABLES
    pmm_stack,      \* pmm_stack[1..PAGE_MAX_SIZE]; cell 0 is never used
    pmm_stack_top   \* index of the topmost free frame, 0 when none is left

pmmVars == <<pmm_stack, pmm_stack_top>>

\* The frames that are on the free stack.
FreeFrames == {pmm_stack[i] : i \in 1..pmm_stack_top}

\* count frames are on the stack, those from first on, the lowest at the bottom:
\* how init_pmm leaves it (BootedStack of PmmBoot), and what PageTables starts from.
StackFilled(first, count) ==
    /\ pmm_stack = [i \in 1..PAGE_MAX_SIZE |->
                       IF i <= count THEN first + (i - 1) * PAGE_SIZE ELSE 0]
    /\ pmm_stack_top = count

-----------------------------------------------------------------------------
(* The assertions of the two operations: a failing one calls panic(). *)
OutOfMemory == pmm_stack_top = 0
StackFull == pmm_stack_top = PAGE_MAX_SIZE

\* Fault: the index is not decremented.
pmm_alloc_page_Peek(page) == ~OutOfMemory /\ page = pmm_stack[pmm_stack_top] /\ UNCHANGED pmmVars

\* pmm_alloc_page: pop one frame and return it.
pmm_alloc_page(page) ==
    /\ ~OutOfMemory
    /\ page = pmm_stack[pmm_stack_top]
    /\ pmm_stack_top' = pmm_stack_top - 1
    /\ UNCHANGED pmm_stack

\* Fault: pmm_stack[pmm_stack_top++] instead of pmm_stack[++pmm_stack_top].
pmm_free_page_PostIncrement(page) ==
    /\ ~StackFull
    /\ pmm_stack_top' = pmm_stack_top + 1
    /\ pmm_stack' = [pmm_stack EXCEPT ![pmm_stack_top] = page]

\* pmm_free_page: push a frame.
pmm_free_page(page) ==
    /\ ~StackFull
    /\ pmm_stack_top' = pmm_stack_top + 1
    /\ pmm_stack' = [pmm_stack EXCEPT ![pmm_stack_top + 1] = page]
=============================================================================
