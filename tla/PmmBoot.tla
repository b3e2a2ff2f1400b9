------------------------------ MODULE PmmBoot ------------------------------
(***************************************************************************)
(* init_pmm() filling the frame stack from the BIOS memory map, one loop   *)
(* iteration per step, and then the code that takes frames from the stack  *)
(* and gives them back (kmalloc, kfree and map, of which this module only  *)
(* keeps which frames they hold).                                          *)
(***************************************************************************)
EXTENDS Pmm, Sequences, FiniteSets

CONSTANTS
    WORD,           \* 2^32: addresses and lengths are uint32_t
    LOAD_BASE,      \* 0x100000, where GRUB loads the kernel
    IMAGE_SIZE,     \* kern_end - kern_start, page aligned by kernel.ld
    MemoryMaps      \* the memory maps BIOSes report

\* mmap_entry_t keeps the 64-bit base and length in two words each; init_pmm
\* reads the low ones ("only the low 32 bits are needed here").
base_addr_low(e) == e.base % WORD
length_low(e) == e.length % WORD

\* What the code assumes of a memory map: only the region at LOAD_BASE has that
\* low word (none starts 1MB above a multiple of 4GB), it appears once, and it
\* ends on a page boundary.
MapAssumption(m) ==
    /\ m \in Seq([base : Nat, length : Nat, type : Nat])
    /\ \A i, j \in DOMAIN m :
          base_addr_low(m[i]) = LOAD_BASE /\ base_addr_low(m[j]) = LOAD_BASE => i = j
    /\ \A i \in DOMAIN m : base_addr_low(m[i]) = LOAD_BASE =>
          m[i].base = LOAD_BASE /\ length_low(m[i]) % PAGE_SIZE = 0

ASSUME BootAssumption ==
    /\ WORD \in Nat /\ PMM_MAX_SIZE < WORD
    /\ LOAD_BASE \in Nat \ {0} /\ LOAD_BASE % PAGE_SIZE = 0
    /\ IMAGE_SIZE \in Nat /\ IMAGE_SIZE % PAGE_SIZE = 0
    /\ LOAD_BASE + IMAGE_SIZE < PMM_MAX_SIZE
    /\ \A m \in MemoryMaps : MapAssumption(m)

VARIABLES
    mmap,           \* the memory map GRUB left at glb_mboot_ptr->mmap_addr
    map_entry,      \* init_pmm: index of the entry being read
    page_addr,      \* init_pmm: next frame to push
    length,         \* init_pmm: end of the region
    phy_page_count, \* frames pushed by init_pmm
    held,           \* frames the rest of the kernel has been given
    pc              \* "scan", "push", "booted", "run" or "panic"

vars == <<pmmVars, mmap, map_entry, page_addr, length, phy_page_count, held, pc>>

\* The first frame after the kernel image.
FirstFrame == LOAD_BASE + IMAGE_SIZE
-----------------------------------------------------------------------------
\* .bss is zero when the kernel starts.
Init ==
    /\ pmm_stack = [i \in 1..PAGE_MAX_SIZE |-> 0]
    /\ pmm_stack_top = 0
    /\ mmap \in MemoryMaps
    /\ map_entry = 1
    /\ page_addr = 0 /\ length = 0
    /\ phy_page_count = 0
    /\ held = {}
    /\ pc = "scan"

\* A failed assert() calls panic(), which never returns.
Panic == pc' = "panic" /\ UNCHANGED pmmVars

bootVars == <<mmap, map_entry, page_addr, length, phy_page_count>>

\* The region's frames start behind the kernel image.  Fault: they do not.
FirstPage_WithImage(e) == base_addr_low(e)
FirstPage(e) == base_addr_low(e) + IMAGE_SIZE

\* The for loop and its if: only the available region at LOAD_BASE counts.
UsableEntry(e) == e.type = 1 /\ base_addr_low(e) = LOAD_BASE

ScanEntry ==
    /\ pc = "scan" /\ map_entry <= Len(mmap)
    /\ IF UsableEntry(mmap[map_entry])
       THEN /\ page_addr' = FirstPage(mmap[map_entry])
            /\ length' = (base_addr_low(mmap[map_entry]) + length_low(mmap[map_entry])) % WORD
            /\ pc' = "push"
            /\ UNCHANGED map_entry
       ELSE /\ map_entry' = map_entry + 1
            /\ UNCHANGED <<page_addr, length, pc>>
    /\ UNCHANGED <<pmmVars, mmap, phy_page_count, held>>

\* Fault: memory above PMM_MAX_SIZE is not cut off.
InRegion_Unbounded == page_addr < length

\* The while loop's condition.
InRegion == page_addr < length /\ page_addr <= PMM_MAX_SIZE

PushFrame ==
    /\ pc = "push" /\ InRegion
    /\ \/ /\ pmm_free_page(page_addr)
          /\ page_addr' = page_addr + PAGE_SIZE
          /\ phy_page_count' = phy_page_count + 1
          /\ UNCHANGED pc
       \/ StackFull /\ Panic /\ UNCHANGED <<page_addr, phy_page_count>>
    /\ UNCHANGED <<mmap, map_entry, length, held>>

\* Fault: the outer loop does not advance.
RegionDone_SameEntry ==
    /\ pc = "push" /\ ~InRegion
    /\ pc' = "scan"
    /\ UNCHANGED <<pmmVars, bootVars, held>>

RegionDone ==
    /\ pc = "push" /\ ~InRegion
    /\ map_entry' = map_entry + 1
    /\ pc' = "scan"
    /\ UNCHANGED <<pmmVars, mmap, page_addr, length, phy_page_count, held>>

InitDone ==
    /\ pc = "scan" /\ map_entry > Len(mmap)
    /\ pc' = "booted"
    /\ UNCHANGED <<pmmVars, bootVars, held>>

\* alloc_chunk() or map() takes a frame.
TakeFrame ==
    /\ pc \in {"booted", "run"}
    /\ \/ /\ \E page \in FreeFrames :
                pmm_alloc_page(page) /\ held' = held \cup {page}
          /\ pc' = "run"
       \/ OutOfMemory /\ Panic /\ UNCHANGED held
    /\ UNCHANGED bootVars

\* free_chunk() gives a frame back.
ReturnFrame(page) ==
    /\ pc = "run" /\ page \in held
    /\ \/ pmm_free_page(page) /\ held' = held \ {page} /\ UNCHANGED pc
       \/ StackFull /\ Panic /\ UNCHANGED held
    /\ UNCHANGED bootVars

Boot == ScanEntry \/ PushFrame \/ RegionDone \/ InitDone
Next == Boot \/ TakeFrame \/ \E page \in held : ReturnFrame(page)

\* init_pmm() runs to its end: nothing can interrupt it, IF is 0.
Spec == Init /\ [][Next]_vars /\ WF_vars(Boot)
-----------------------------------------------------------------------------
(* Properties *)

\* Every variable has its type; page_addr never leaves the 32-bit range.
TypeOK ==
    /\ pmm_stack \in [1..PAGE_MAX_SIZE -> 0..WORD - 1]
    /\ pmm_stack_top \in 0..PAGE_MAX_SIZE
    /\ mmap \in MemoryMaps /\ map_entry \in 1..Len(mmap) + 1
    /\ page_addr \in 0..PMM_MAX_SIZE + PAGE_SIZE /\ length \in 0..WORD - 1
    /\ phy_page_count \in 0..PAGE_MAX_SIZE
    /\ held \subseteq 0..WORD - 1
    /\ pc \in {"scan", "push", "booted", "run", "panic"}

\* No frame is handed out twice: a frame is on the stack at most once and is
\* never both on the stack and held (pmm_alloc_page, pmm_free_page).
NoDoubleHandOut ==
    /\ \A i, j \in 1..pmm_stack_top : pmm_stack[i] = pmm_stack[j] => i = j
    /\ FreeFrames \cap held = {}

\* No frame is lost either: what init_pmm counted in phy_page_count ("the
\* number of physical pages", pmm.h) is what is free plus what is held.
FramesConserved ==
    pmm_stack_top + Cardinality(held) = phy_page_count

\* The accounts of init_pmm, pmm_alloc_page and pmm_free_page are in order.
FramesAccounted == TypeOK /\ NoDoubleHandOut /\ FramesConserved

\* The assertion "out of pmm_stack stack" of pmm_free_page never fires, even
\* though init_pmm's test page_addr <= PMM_MAX_SIZE lets one frame more than
\* [0, PMM_MAX_SIZE) holds be considered: only running out of memory panics.
OnlyOutOfMemoryPanics == pc = "panic" => OutOfMemory

\* Every frame ever on the stack is available RAM after the kernel image.
FramesAreFreeRam ==
    \A f \in FreeFrames \cup held :
        \E i \in DOMAIN mmap :
            /\ UsableEntry(mmap[i])
            /\ FirstFrame <= f /\ f + PAGE_SIZE <= mmap[i].base + mmap[i].length

\* What init_pmm leaves behind, the state Vmm and Heap start from: the frames
\* after the image, lowest at the bottom of the stack, none beyond the one at
\* PMM_MAX_SIZE.
BootedStack ==
    pc = "booted" =>
        /\ StackFilled(FirstFrame, phy_page_count)
        /\ \A f \in FreeFrames : f <= PMM_MAX_SIZE

\* pmm.h: PMM_MAX_SIZE is "the largest supported physical memory", and
\* init_vmm's direct map covers exactly the frames below it.
FramesSupported == \A f \in FreeFrames \cup held : f < PMM_MAX_SIZE

\* init_pmm terminates: the kernel gets past it.
BootTerminates == <>(pc = "booted")
=============================================================================
