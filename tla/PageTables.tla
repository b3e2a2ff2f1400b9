----------------------------- MODULE PageTables -----------------------------
(***************************************************************************)
(* The two-level page tables of src/mm/vmm.c: the kernel page directory    *)
(* pgd_kern, the statically allocated tables pte_kern of the direct map,   *)
(* and the tables map() allocates on demand.                               *)
(*                                                                         *)
(* An entry holds the address of a frame, or 0 when it is not present: the *)
(* PAGE_PRESENT and PAGE_WRITE flags are always set together with a        *)
(* nonzero address.  A table is written through its direct-map address     *)
(* frame + PAGE_OFFSET, which only works when that address is mapped.      *)
(***************************************************************************)
EXTENDS Pmm

CONSTANTS
    PTE_SIZE,       \* entries of a table (1024)
    PGD_SIZE,       \* entries of the directory (1024)
    PTE_COUNT,      \* tables of the direct map (128)
    PAGE_OFFSET,    \* where the direct map starts (0xC0000000)
    PTE_KERN,       \* physical address of pte_kern, inside the kernel image
    FIRST_FRAME,    \* first frame after the image, as init_pmm leaves it
    FRAME_COUNT,    \* phy_page_count, as init_pmm leaves it
    POWER_ON        \* what RAM nobody has written yet reads as

\* 2^32: the tables translate every 32-bit address.
WORD == PGD_SIZE * PTE_SIZE * PAGE_SIZE

KernTable(j) == PTE_KERN + j * PAGE_SIZE
KernTables == {KernTable(j) : j \in 0..PTE_COUNT - 1}
Frames == {FIRST_FRAME + i * PAGE_SIZE : i \in 0..FRAME_COUNT - 1}

\* Fault: a mask that is too narrow.
PGD_INDEX_NarrowMask(va) == ((va \div PAGE_SIZE) \div PTE_SIZE) % PTE_COUNT

\* PGD_INDEX and PTE_INDEX of vmm.h.
PGD_INDEX(va) == (va \div PAGE_SIZE) \div PTE_SIZE
PTE_INDEX(va) == (va \div PAGE_SIZE) % PTE_SIZE

ASSUME TableAssumption ==
    /\ {PTE_SIZE, PGD_SIZE, PTE_COUNT} \subseteq Nat \ {0}
    /\ PAGE_MAX_SIZE = PTE_COUNT * PTE_SIZE     \* the direct map is PMM_MAX_SIZE long
    /\ PAGE_OFFSET \in Nat /\ PAGE_OFFSET % (PTE_SIZE * PAGE_SIZE) = 0
    /\ PAGE_OFFSET + PMM_MAX_SIZE < WORD
    /\ PTE_KERN \in Nat \ {0} /\ PTE_KERN % PAGE_SIZE = 0
    /\ FIRST_FRAME \in Nat /\ FIRST_FRAME % PAGE_SIZE = 0
    /\ KernTable(PTE_COUNT) <= FIRST_FRAME      \* pte_kern lies in the image
    /\ FRAME_COUNT \in 1..PAGE_MAX_SIZE
    /\ POWER_ON \in 0..WORD - 1

VARIABLES
    pgd,    \* pgd_kern[0..PGD_SIZE-1]
    pte     \* physical memory seen as tables: pte[frame][0..PTE_SIZE-1]

tableVars == <<pgd, pte>>

-----------------------------------------------------------------------------
\* The page walk of the CPU: the frame va lies in, or 0 for a page fault.
Walk(va) ==
    LET table == pgd[PGD_INDEX(va)]
    IN  IF table = 0 THEN 0 ELSE pte[table][PTE_INDEX(va)]

\* The frames map() has allocated as page tables.
Tables == {pgd[i] : i \in DOMAIN pgd} \ (KernTables \cup {0})

\* The stack as init_pmm leaves it (BootedStack of PmmBoot).
InitPmm == StackFilled(FIRST_FRAME, FRAME_COUNT)

DirectFrame(i) == i * PAGE_SIZE

\* The tables as init_vmm leaves them: physical [PAGE_SIZE, PMM_MAX_SIZE) at
\* PAGE_OFFSET, page 0 left out so that null pointers fault.
init_vmm ==
    LET first == PGD_INDEX(PAGE_OFFSET)
    IN  /\ pgd = [i \in 0..PGD_SIZE - 1 |->
                    IF i \in first..first + PTE_COUNT - 1 THEN KernTable(i - first) ELSE 0]
        /\ pte = [t \in KernTables \cup Frames |->
                    [k \in 0..PTE_SIZE - 1 |->
                        IF t \in KernTables
                        THEN DirectFrame(((t - PTE_KERN) \div PAGE_SIZE) * PTE_SIZE + k)
                        ELSE POWER_ON]]

\* A table can be written: its direct-map address leads back to it.
Reachable(table) == Walk(table + PAGE_OFFSET) = table

\* map() finds no table for va.  Fault: it never does.
NeedsTable_Always(va) == va \in Nat
NeedsTable(va) == pgd[PGD_INDEX(va)] = 0

\* map() writes the entry of va in a table that exists.
MapInTable(va, pa) ==
    LET table == pgd[PGD_INDEX(va)]
    IN  /\ table # 0 /\ Reachable(table)
        /\ pte' = [pte EXCEPT ![table][PTE_INDEX(va)] = pa]
        /\ UNCHANGED <<pgd, pmmVars>>

\* bzero() and the entry of va.  Fault: without bzero().
NewTable_NotCleared(table, va, pa) == [pte[table] EXCEPT ![PTE_INDEX(va)] = pa]
NewTable(table, va, pa) ==
    [k \in DOMAIN pte[table] |-> IF k = PTE_INDEX(va) THEN pa ELSE 0]

\* map() allocates the table of va, clears it and writes the entry.
MapNewTable(va, pa) ==
    /\ NeedsTable(va)
    /\ \E table \in FreeFrames :
          /\ pmm_alloc_page(table)
          /\ Reachable(table)
          /\ pgd' = [pgd EXCEPT ![PGD_INDEX(va)] = table]
          /\ pte' = [pte EXCEPT ![table] = NewTable(table, va, pa)]

map(va, pa) == MapInTable(va, pa) \/ MapNewTable(va, pa)

\* map() needs a table and pmm_alloc_page asserts that there is none left.
MapOutOfMemory(va) == NeedsTable(va) /\ OutOfMemory

\* map() gets a table it cannot write through the direct map.
MapUnreachable(va) ==
    LET table == IF NeedsTable(va) THEN pmm_stack[pmm_stack_top]
                                   ELSE pgd[PGD_INDEX(va)]
    IN  ~MapOutOfMemory(va) /\ ~Reachable(table)

\* unmap() clears the entry of va, or does nothing when va has no table.
unmap(va) ==
    /\ pte' = IF pgd[PGD_INDEX(va)] = 0 THEN pte
              ELSE [pte EXCEPT ![pgd[PGD_INDEX(va)]][PTE_INDEX(va)] = 0]
    /\ UNCHANGED pgd

\* get_mapping() stores the frame of va in *pa; when va is not mapped it
\* leaves *pa alone, and the caller's uninitialised variable is any word.
get_mapping(va, pa) ==
    IF Walk(va) # 0 THEN pa = Walk(va) ELSE pa \in 0..WORD - 1
=============================================================================
