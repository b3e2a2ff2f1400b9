-------------------------------- MODULE Vmm --------------------------------
(***************************************************************************)
(* vmm.c at work: kernel code takes frames, maps them at pages outside the *)
(* direct map, unmaps them and gives them back, while the CPU reads memory *)
(* through a TLB that only invlpg (and loading cr3, in init_vmm) clears.   *)
(***************************************************************************)
EXTENDS PageTables, FiniteSets

CONSTANT ClientPages    \* the virtual pages that are mapped and unmapped

\* Page-aligned addresses outside the direct map window.
ASSUME ClientAssumption ==
    \A va \in ClientPages :
        /\ va \in 0..WORD - 1 /\ va % PAGE_SIZE = 0
        /\ va \notin PAGE_OFFSET..PAGE_OFFSET + PMM_MAX_SIZE - 1

VARIABLES
    tlb,    \* cached translations: a function from some pages to frames
    held,   \* frames taken with pmm_alloc_page and not given back
    pc      \* "run", or where the kernel stops: "panic" or "fault"

vars == <<pmmVars, tableVars, tlb, held, pc>>

\* What an access by the CPU to page va finds.
CpuSees(va) == IF va \in DOMAIN tlb THEN tlb[va] ELSE Walk(va)

invlpg(va) == tlb' = [p \in DOMAIN tlb \ {va} |-> tlb[p]]
-----------------------------------------------------------------------------
Init ==
    /\ InitPmm
    /\ init_vmm
    /\ tlb = << >>
    /\ held = {}
    /\ pc = "run"

\* The CPU touches va and may keep the translation it found.
Access(va) ==
    /\ pc = "run"
    /\ va \notin DOMAIN tlb /\ Walk(va) # 0
    /\ tlb' = [p \in DOMAIN tlb \cup {va} |-> IF p = va THEN Walk(va) ELSE tlb[p]]
    /\ UNCHANGED <<pmmVars, tableVars, held, pc>>

\* The CPU may drop a translation at any time.
Evict(va) ==
    /\ va \in DOMAIN tlb
    /\ invlpg(va)
    /\ UNCHANGED <<pmmVars, tableVars, held, pc>>

TakeFrame ==
    /\ pc = "run"
    /\ \E page \in FreeFrames : pmm_alloc_page(page) /\ held' = held \cup {page}
    /\ UNCHANGED <<tableVars, tlb, pc>>

\* Faults: no invlpg after the entry was written.
MapPage_NoInvlpg(va, pa) ==
    /\ pc = "run" /\ pa \in held
    /\ map(va, pa)
    /\ UNCHANGED <<tlb, held, pc>>
UnmapPage_NoInvlpg(va) ==
    /\ pc = "run"
    /\ unmap(va)
    /\ UNCHANGED <<pmmVars, tlb, held, pc>>

\* map(pgd_kern, va, pa): a page that is mapped already is remapped.
MapPage(va, pa) ==
    /\ pc = "run" /\ pa \in held
    /\ \/ map(va, pa) /\ invlpg(va) /\ UNCHANGED pc
       \/ MapOutOfMemory(va) /\ pc' = "panic" /\ UNCHANGED <<pmmVars, tableVars, tlb>>
       \/ MapUnreachable(va) /\ pc' = "fault" /\ UNCHANGED <<pmmVars, tableVars, tlb>>
    /\ UNCHANGED held

\* unmap(pgd_kern, va): the early return does not reach invlpg.
UnmapPage(va) ==
    /\ pc = "run"
    /\ unmap(va)
    /\ IF pgd[PGD_INDEX(va)] = 0 THEN UNCHANGED tlb ELSE invlpg(va)
    /\ UNCHANGED <<pmmVars, held, pc>>

\* A frame goes back to the stack once it is mapped nowhere.
GiveFrame(pa) ==
    /\ pc = "run" /\ pa \in held
    /\ \A va \in ClientPages : Walk(va) # pa
    /\ pmm_free_page(pa)
    /\ held' = held \ {pa}
    /\ UNCHANGED <<tableVars, tlb, pc>>

Next ==
    \/ TakeFrame
    \/ \E va \in ClientPages :
          \/ Access(va) \/ Evict(va) \/ UnmapPage(va)
          \/ \E pa \in held : MapPage(va, pa)
    \/ \E pa \in held : GiveFrame(pa)

Spec == Init /\ [][Next]_vars
-----------------------------------------------------------------------------
(* Properties *)

\* Every variable has its type.
TypeOK ==
    /\ pmm_stack \in [1..PAGE_MAX_SIZE -> 0..WORD - 1]
    /\ pmm_stack_top \in 0..PAGE_MAX_SIZE
    /\ pgd \in [0..PGD_SIZE - 1 -> KernTables \cup Frames \cup {0}]
    /\ pte \in [KernTables \cup Frames -> [0..PTE_SIZE - 1 -> 0..WORD - 1]]
    /\ DOMAIN tlb \subseteq ClientPages
    /\ held \subseteq Frames
    /\ pc \in {"run", "panic", "fault"}

\* Every frame is in exactly one of the three places: free, held by a caller,
\* or in use as a page table (map() takes tables from the same stack).
FramesPartitioned ==
    /\ FreeFrames \cup held \cup Tables = Frames
    /\ pmm_stack_top + Cardinality(held) + Cardinality(Tables) = FRAME_COUNT

\* Mapping never disturbs the direct map, through which every table is
\* written: init_vmm's translations of RAM stay as they were.
DirectMapIntact ==
    \A i \in 1..PAGE_MAX_SIZE - 1 :
        Walk(PAGE_OFFSET + DirectFrame(i)) = DirectFrame(i)

\* A page table is never one of the frames handed to callers, and map() can
\* always write the table it picked.
TablesWritable ==
    /\ \A t \in Tables : Reachable(t) /\ t \notin held
    /\ pc # "fault"

\* What map() relies on when it follows the tables and writes into them.
TablesIntact == TypeOK /\ DirectMapIntact /\ TablesWritable

\* The TLB never disagrees with the tables: map and unmap invalidate it.
TlbCoherent == \A va \in DOMAIN tlb : tlb[va] = Walk(va)

\* A page is mapped only to a frame somebody holds: no mapping is left behind
\* in a fresh table (bzero in map) and none survives unmap.
MappedAreHeld == \A va \in ClientPages : CpuSees(va) \in held \cup {0}

\* vmm.c implements the abstract address space, as seen by the CPU.
Abstract == INSTANCE AddressSpace WITH
    Pages <- ClientPages,
    Frame <- Frames,
    space <- [va \in ClientPages |-> CpuSees(va)]
ImplementsAddressSpace == Abstract!Spec
=============================================================================
