----------------------------- MODULE VmmProofs -----------------------------
(***************************************************************************)
(* Proofs about Vmm, for page tables of any shape and any set of pages:    *)
(* frames are accounted for, the TLB never disagrees with the tables, and  *)
(* what the CPU sees is the abstract address space.                        *)
(***************************************************************************)
EXTENDS Vmm, PageTablesProofs

-----------------------------------------------------------------------------
(* The invariant. *)

\* Nobody shares a frame, and none is lost.
OneOwner ==
    /\ held \subseteq Frames
    /\ FreeFrames \cap held = {} /\ FreeFrames \cap Tables = {} /\ held \cap Tables = {}
    /\ FreeFrames \cup held \cup Tables = Frames

\* The pages are mapped to frames somebody holds, or not at all.
WalksToHeld == \A va \in ClientPages : Walk(va) \in held \cup {0}

Inv ==
    /\ StackOfFrames
    /\ OneOwner
    /\ FramesPartitioned
    /\ Directory
    /\ TablesKept
    /\ WalksToHeld
    /\ DOMAIN tlb \subseteq ClientPages /\ TlbCoherent
    /\ pc \in {"run", "panic", "fault"}

\* The pages of the callers lie outside the direct map.
LEMMA ClientPage == ClientPages \subseteq Mappable
BY ClientAssumption DEF ClientAssumption, Mappable

-----------------------------------------------------------------------------
(* The initial state. *)

LEMMA InitInv == Init => Inv
<1> SUFFICES ASSUME Init PROVE Inv
  OBVIOUS
<1> USE DEF Init
<1>1. /\ StackOfFrames /\ Directory /\ TablesKept
      /\ Tables = {} /\ FreeFrames = Frames /\ pmm_stack_top = FRAME_COUNT
      /\ \A va \in ClientPages : Walk(va) = 0
  BY Booted, ClientPage
<1>2. OneOwner /\ FramesPartitioned
  <2>1. held = {} /\ Cardinality(held) = 0 /\ Cardinality(Tables) = 0
    BY <1>1, FS_EmptySet
  <2> QED
    BY <1>1, <2>1, TableConstants DEF OneOwner, FramesPartitioned
<1>3. WalksToHeld
  BY <1>1 DEF WalksToHeld
<1>4. DOMAIN tlb \subseteq ClientPages /\ TlbCoherent /\ pc \in {"run", "panic", "fault"}
  <2>1. DOMAIN tlb = {}
    OBVIOUS
  <2> QED
    BY <2>1 DEF TlbCoherent
<1> QED
  BY <1>1, <1>2, <1>3, <1>4 DEF Inv

-----------------------------------------------------------------------------
(* The steps. *)

\* held and the tables are finite sets.
LEMMA OwnersFinite ==
    ASSUME OneOwner
    PROVE  /\ IsFiniteSet(held) /\ IsFiniteSet(Tables)
           /\ Cardinality(held) \in Nat /\ Cardinality(Tables) \in Nat
<1>1. IsFiniteSet(held) /\ IsFiniteSet(Tables)
  BY FrameFacts, FS_Subset DEF OneOwner
<1> QED
  BY <1>1, FS_CardinalityType

LEMMA AccessInv ==
    ASSUME Inv, NEW va \in ClientPages, Access(va)
    PROVE  Inv'
<1>1. StackOfFrames' /\ OneOwner' /\ FramesPartitioned' /\ Directory' /\ TablesKept' /\ WalksToHeld'
  BY DEF Inv, Access, pmmVars, tableVars, StackOfFrames, OneOwner, FramesPartitioned, FreeFrames,
         Directory, TablesKept, WalksToHeld, Walk, Tables
<1>2. DOMAIN tlb' = DOMAIN tlb \cup {va}
  BY DEF Access
<1>3. TlbCoherent'
  <2>1. \A p \in DOMAIN tlb' : tlb'[p] = IF p = va THEN Walk(va) ELSE tlb[p]
    BY DEF Access
  <2>2. \A p : Walk(p)' = Walk(p)
    BY DEF Access, tableVars, Walk
  <2> QED
    BY <1>2, <2>1, <2>2 DEF Inv, TlbCoherent
<1> QED
  BY <1>1, <1>2, <1>3 DEF Inv, Access

LEMMA EvictInv ==
    ASSUME Inv, NEW va \in ClientPages, Evict(va)
    PROVE  Inv'
<1>1. StackOfFrames' /\ OneOwner' /\ FramesPartitioned' /\ Directory' /\ TablesKept' /\ WalksToHeld'
  BY DEF Inv, Evict, pmmVars, tableVars, StackOfFrames, OneOwner, FramesPartitioned, FreeFrames,
         Directory, TablesKept, WalksToHeld, Walk, Tables
<1>2. DOMAIN tlb' = DOMAIN tlb \ {va} /\ \A p \in DOMAIN tlb' : tlb'[p] = tlb[p]
  BY DEF Evict, invlpg
<1>3. TlbCoherent'
  <2>1. \A p : Walk(p)' = Walk(p)
    BY DEF Evict, tableVars, Walk
  <2> QED
    BY <1>2, <2>1 DEF Inv, TlbCoherent
<1> QED
  BY <1>1, <1>2, <1>3 DEF Inv, Evict

LEMMA TakeFrameInv ==
    ASSUME Inv, TakeFrame
    PROVE  Inv'
<1>1. PICK page \in FreeFrames : pmm_alloc_page(page) /\ held' = held \cup {page}
  BY DEF TakeFrame
<1>2. UNCHANGED <<tableVars, tlb, pc>>
  BY DEF TakeFrame
<1>3. /\ StackOfFrames' /\ page \in FreeFrames /\ page \in Frames
      /\ FreeFrames' = FreeFrames \ {page} /\ pmm_stack_top' = pmm_stack_top - 1
  BY <1>1, Popped DEF Inv
<1>4. Directory' /\ TablesKept' /\ Tables' = Tables /\ \A va : Walk(va)' = Walk(va)
  BY <1>2, TablesUnchanged DEF Inv
<1>5. OneOwner'
  BY <1>1, <1>3, <1>4 DEF Inv, OneOwner
<1>6. FramesPartitioned'
  <2>1. page \notin held
    BY <1>3 DEF Inv, OneOwner
  <2>2. Cardinality(held') = Cardinality(held) + 1
    BY <1>1, <2>1, OwnersFinite, FS_AddElement DEF Inv
  <2>3. pmm_stack_top \in Nat
    BY TableConstants DEF Inv, StackOfFrames
  <2> QED
    BY <1>3, <1>4, <1>5, <2>2, <2>3, OwnersFinite DEF Inv, FramesPartitioned, OneOwner
<1>7. WalksToHeld' /\ TlbCoherent' /\ DOMAIN tlb' \subseteq ClientPages
  BY <1>1, <1>2, <1>4 DEF Inv, WalksToHeld, TlbCoherent
<1> QED
  BY <1>2, <1>3, <1>4, <1>5, <1>6, <1>7 DEF Inv

LEMMA GiveFrameInv ==
    ASSUME Inv, NEW pa \in held, GiveFrame(pa)
    PROVE  Inv'
<1>1. pmm_free_page(pa) /\ held' = held \ {pa} /\ UNCHANGED <<tableVars, tlb, pc>>
  BY DEF GiveFrame
<1>2. pa \in Frames /\ pa \notin FreeFrames /\ pa \notin Tables
  BY DEF Inv, OneOwner
<1>3. StackOfFrames' /\ FreeFrames' = FreeFrames \cup {pa} /\ pmm_stack_top' = pmm_stack_top + 1
  BY <1>1, <1>2, Pushed DEF Inv
<1>4. Directory' /\ TablesKept' /\ Tables' = Tables /\ \A va : Walk(va)' = Walk(va)
  BY <1>1, TablesUnchanged DEF Inv
<1>5. OneOwner'
  BY <1>1, <1>2, <1>3, <1>4 DEF Inv, OneOwner
<1>6. FramesPartitioned'
  <2>1. Cardinality(held') = Cardinality(held) - 1
    BY <1>1, OwnersFinite, FS_RemoveElement DEF Inv
  <2>2. pmm_stack_top \in Nat
    BY TableConstants DEF Inv, StackOfFrames
  <2> QED
    BY <1>3, <1>4, <1>5, <2>1, <2>2, OwnersFinite DEF Inv, FramesPartitioned, OneOwner
<1>7. WalksToHeld'
  BY <1>1, <1>4 DEF Inv, WalksToHeld, GiveFrame
<1>8. TlbCoherent' /\ DOMAIN tlb' \subseteq ClientPages
  BY <1>1, <1>4 DEF Inv, TlbCoherent
<1> QED
  BY <1>1, <1>3, <1>4, <1>5, <1>6, <1>7, <1>8 DEF Inv

\* What invlpg leaves in the TLB is right if only the page va has changed.
LEMMA Invalidated ==
    ASSUME DOMAIN tlb \subseteq ClientPages, TlbCoherent, NEW va \in ClientPages, invlpg(va),
           \A vb \in ClientPages : vb # va => Walk(vb)' = Walk(vb)
    PROVE  DOMAIN tlb' \subseteq ClientPages /\ TlbCoherent'
<1>1. DOMAIN tlb' = DOMAIN tlb \ {va} /\ \A p \in DOMAIN tlb' : tlb'[p] = tlb[p]
  BY DEF invlpg
<1>2. \A p \in DOMAIN tlb' : tlb'[p] = Walk(p)'
  BY <1>1 DEF TlbCoherent
<1> QED
  BY <1>1, <1>2 DEF TlbCoherent

\* unmap clears one page.
LEMMA UnmapPageInv ==
    ASSUME Inv, NEW va \in ClientPages, UnmapPage(va)
    PROVE  Inv' /\ \A vb \in ClientPages : Walk(vb)' = IF vb = va THEN 0 ELSE Walk(vb)
<1>1. UNCHANGED <<pmmVars, held, pc>> /\ pgd' = pgd
  BY DEF UnmapPage, unmap
<1>2. /\ Directory' /\ TablesKept'
      /\ \A vb \in ClientPages : Walk(vb)' = IF vb = va THEN 0 ELSE Walk(vb)
  <2>1. CASE pgd[PGD_INDEX(va)] = 0
    <3>1. UNCHANGED tableVars /\ Walk(va) = 0
      BY <1>1, <2>1 DEF UnmapPage, unmap, tableVars, Walk
    <3> QED
      BY <3>1, TablesUnchanged DEF Inv
  <2>2. CASE pgd[PGD_INDEX(va)] # 0
    <3>1. pte' = [pte EXCEPT ![pgd[PGD_INDEX(va)]][PTE_INDEX(va)] = 0]
      BY <2>2 DEF UnmapPage, unmap
    <3> QED
      BY <1>1, <2>2, <3>1, EntryWritten, ClientPage DEF Inv
  <2> QED
    BY <2>1, <2>2
<1>3. StackOfFrames' /\ OneOwner' /\ FramesPartitioned'
  BY <1>1 DEF Inv, pmmVars, StackOfFrames, OneOwner, FramesPartitioned, FreeFrames, Tables
<1>4. WalksToHeld'
  BY <1>1, <1>2 DEF Inv, WalksToHeld
<1>5. DOMAIN tlb' \subseteq ClientPages /\ TlbCoherent'
  <2>1. CASE pgd[PGD_INDEX(va)] = 0
    <3>1. tlb' = tlb /\ Walk(va) = 0
      BY <2>1 DEF UnmapPage, Walk
    <3> QED
      BY <1>2, <3>1 DEF Inv, TlbCoherent
  <2>2. CASE pgd[PGD_INDEX(va)] # 0
    <3>1. invlpg(va)
      BY <2>2 DEF UnmapPage
    <3> QED
      BY <1>2, <3>1, Invalidated DEF Inv
  <2> QED
    BY <2>1, <2>2
<1> QED
  BY <1>1, <1>2, <1>3, <1>4, <1>5 DEF Inv

\* map sets one page, or the kernel stops before it has changed anything.
LEMMA MapPageInv ==
    ASSUME Inv, NEW va \in ClientPages, NEW pa \in held, MapPage(va, pa)
    PROVE  /\ Inv'
           /\ \/ \A vb \in ClientPages : Walk(vb)' = IF vb = va THEN pa ELSE Walk(vb)
              \/ \A vb \in ClientPages : Walk(vb)' = Walk(vb)
<1>1. held' = held /\ pa \in Frames
  BY DEF MapPage, Inv, OneOwner
<1>2. CASE map(va, pa) /\ invlpg(va) /\ UNCHANGED pc
  <2>1. /\ Directory' /\ TablesKept' /\ StackOfFrames' /\ OneOwner' /\ FramesPartitioned'
        /\ \A vb \in ClientPages : Walk(vb)' = IF vb = va THEN pa ELSE Walk(vb)
    <3>1. CASE MapInTable(va, pa)
      <4>1. /\ pgd[PGD_INDEX(va)] # 0 /\ pgd' = pgd /\ UNCHANGED pmmVars
            /\ pte' = [pte EXCEPT ![pgd[PGD_INDEX(va)]][PTE_INDEX(va)] = pa]
        BY <3>1 DEF MapInTable
      <4>2. /\ Directory' /\ TablesKept'
            /\ \A vb \in ClientPages : Walk(vb)' = IF vb = va THEN pa ELSE Walk(vb)
        BY <1>1, <4>1, EntryWritten, ClientPage DEF Inv
      <4>3. StackOfFrames' /\ OneOwner' /\ FramesPartitioned'
        BY <1>1, <4>1 DEF Inv, pmmVars, StackOfFrames, OneOwner, FramesPartitioned, FreeFrames, Tables
      <4> QED
        BY <4>2, <4>3
    <3>2. CASE MapNewTable(va, pa)
      <4>1. PICK table \in FreeFrames :
              /\ pmm_alloc_page(table)
              /\ pgd' = [pgd EXCEPT ![PGD_INDEX(va)] = table]
              /\ pte' = [pte EXCEPT ![table] = NewTable(table, va, pa)]
        BY <3>2 DEF MapNewTable
      <4>2. /\ StackOfFrames' /\ table \in Frames /\ FreeFrames' = FreeFrames \ {table}
            /\ pmm_stack_top' = pmm_stack_top - 1
        BY <4>1, Popped DEF Inv
      <4>3. table \notin Tables /\ table \notin held
        BY <4>1 DEF Inv, OneOwner
      <4>4. /\ Directory' /\ TablesKept' /\ Tables' = Tables \cup {table}
            /\ \A vb \in ClientPages : Walk(vb)' = IF vb = va THEN pa ELSE Walk(vb)
        <5>1. NeedsTable(va)
          BY <3>2 DEF MapNewTable
        <5> QED
          BY <1>1, <4>1, <4>2, <4>3, <5>1, TableAdded, ClientPage DEF Inv
      <4>5. OneOwner'
        BY <1>1, <4>1, <4>2, <4>3, <4>4 DEF Inv, OneOwner
      <4>6. FramesPartitioned'
        <5>1. Cardinality(Tables') = Cardinality(Tables) + 1
          BY <4>3, <4>4, OwnersFinite, FS_AddElement DEF Inv
        <5>2. pmm_stack_top \in Nat
          BY TableConstants DEF Inv, StackOfFrames
        <5> QED
          BY <1>1, <4>2, <4>5, <5>1, <5>2, OwnersFinite DEF Inv, FramesPartitioned, OneOwner
      <4> QED
        BY <4>2, <4>4, <4>5, <4>6
    <3> QED
      BY <1>2, <3>1, <3>2 DEF map
  <2>2. WalksToHeld'
    BY <1>1, <2>1 DEF Inv, WalksToHeld
  <2>3. DOMAIN tlb' \subseteq ClientPages /\ TlbCoherent'
    BY <1>2, <2>1, Invalidated DEF Inv
  <2> QED
    BY <1>2, <2>1, <2>2, <2>3 DEF Inv
<1>3. CASE pc' \in {"panic", "fault"} /\ UNCHANGED <<pmmVars, tableVars, tlb>>
  <2>1. Directory' /\ TablesKept' /\ Tables' = Tables /\ \A vb : Walk(vb)' = Walk(vb)
    BY <1>3, TablesUnchanged DEF Inv
  <2>2. StackOfFrames' /\ OneOwner' /\ FramesPartitioned'
    BY <1>1, <1>3, <2>1 DEF Inv, pmmVars, StackOfFrames, OneOwner, FramesPartitioned, FreeFrames
  <2>3. WalksToHeld' /\ TlbCoherent' /\ DOMAIN tlb' \subseteq ClientPages
    BY <1>1, <1>3, <2>1 DEF Inv, WalksToHeld, TlbCoherent
  <2> QED
    BY <1>3, <2>1, <2>2, <2>3 DEF Inv
<1> QED
  BY <1>2, <1>3 DEF MapPage

\* A step in which nothing happens.
LEMMA StutterInv == Inv /\ UNCHANGED vars => Inv' /\ \A va : Walk(va)' = Walk(va)
BY DEF Inv, vars, pmmVars, tableVars, StackOfFrames, OneOwner, FramesPartitioned, FreeFrames,
       Directory, TablesKept, WalksToHeld, Walk, Tables, TlbCoherent

LEMMA StepInv == Inv /\ [Next]_vars => Inv'
<1> SUFFICES ASSUME Inv, [Next]_vars PROVE Inv'
  OBVIOUS
<1>1. CASE TakeFrame
  BY <1>1, TakeFrameInv
<1>2. ASSUME NEW va \in ClientPages, Access(va) PROVE Inv'
  BY <1>2, AccessInv
<1>3. ASSUME NEW va \in ClientPages, Evict(va) PROVE Inv'
  BY <1>3, EvictInv
<1>4. ASSUME NEW va \in ClientPages, UnmapPage(va) PROVE Inv'
  BY <1>4, UnmapPageInv
<1>5. ASSUME NEW va \in ClientPages, NEW pa \in held, MapPage(va, pa) PROVE Inv'
  BY <1>5, MapPageInv
<1>6. ASSUME NEW pa \in held, GiveFrame(pa) PROVE Inv'
  BY <1>6, GiveFrameInv
<1>7. CASE UNCHANGED vars
  BY <1>7, StutterInv
<1> QED
  BY <1>1, <1>2, <1>3, <1>4, <1>5, <1>6, <1>7 DEF Next

LEMMA Invariance == Spec => []Inv
BY InitInv, StepInv, PTL DEF Spec

-----------------------------------------------------------------------------
(* What the direct map is for. *)

LEMMA InvDirectMap == Inv => DirectMapIntact
BY DirectMapKept DEF Inv, DirectMapIntact

\* So map() never faults.
LEMMA NoFault ==
    ASSUME RamSupported, Inv, pc # "fault", [Next]_vars
    PROVE  pc' # "fault"
<1>1. ASSUME NEW va \in ClientPages, NEW pa \in held, MapPage(va, pa)
      PROVE  pc' # "fault"
  <2>1. ~MapUnreachable(va)
    <3> SUFFICES ASSUME MapUnreachable(va) PROVE FALSE
      OBVIOUS
    <3> DEFINE table == IF NeedsTable(va) THEN pmm_stack[pmm_stack_top] ELSE pgd[PGD_INDEX(va)]
    <3>1. ~MapOutOfMemory(va) /\ ~Reachable(table)
      BY DEF MapUnreachable
    <3>2. CASE NeedsTable(va)
      <4>1. pmm_stack_top # 0
        BY <3>1, <3>2 DEF MapOutOfMemory, OutOfMemory
      <4>2. pmm_stack_top \in 1..pmm_stack_top
        BY <4>1, TableConstants DEF Inv, StackOfFrames
      <4>3. pmm_stack[pmm_stack_top] \in Frames
        BY <4>2 DEF Inv, StackOfFrames
      <4> QED
        BY <3>1, <3>2, <4>3, FramesReachable DEF Inv
    <3>3. CASE ~NeedsTable(va)
      <4>1. pgd[PGD_INDEX(va)] \in Frames
        BY <3>3, ClientPage, MappedWalk DEF NeedsTable, Inv
      <4> QED
        BY <3>1, <3>3, <4>1, FramesReachable DEF Inv
    <3> QED
      BY <3>2, <3>3
  <2> QED
    BY <1>1, <2>1 DEF MapPage
<1> QED
  BY <1>1 DEF Next, vars, TakeFrame, Access, Evict, UnmapPage, GiveFrame

\* The types follow from the invariant when every frame is an address.
LEMMA InvTypeOK ==
    ASSUME RamSupported, Inv
    PROVE  TypeOK
<1>1. PMM_MAX_SIZE < WORD
  BY TableConstants, TableAssumption DEF TableAssumption
<1>2. Frames \cup {0} \subseteq 0..WORD - 1 /\ (0..WORD - 1) \cup Frames = 0..WORD - 1
  <2>1. \A f \in Frames : f \in 0..WORD - 1
    <3> TAKE f \in Frames
    <3>1. f \in Nat /\ f < PMM_MAX_SIZE
      BY FrameFacts DEF RamSupported
    <3> QED
      BY <1>1, <3>1, TableConstants
  <2>2. 0 \in 0..WORD - 1
    BY TableConstants
  <2> QED
    BY <2>1, <2>2
<1>3. pmm_stack \in [1..PAGE_MAX_SIZE -> 0..WORD - 1] /\ pmm_stack_top \in 0..PAGE_MAX_SIZE
  BY <1>2 DEF Inv, StackOfFrames
<1>4. pte \in [KernTables \cup Frames -> [Slots -> 0..WORD - 1]]
  BY <1>2 DEF Inv, TablesKept
<1> QED
  BY <1>3, <1>4 DEF Inv, Directory, OneOwner, TypeOK, Dir, Slots

-----------------------------------------------------------------------------
(* The theorems. *)

\* Every frame is free, held by a caller or a page table, and never two of
\* these (pmm_alloc_page inside map, vmm.c).
THEOREM FramesStayPartitioned == Spec => []FramesPartitioned
<1>1. Inv => FramesPartitioned
  BY DEF Inv
<1> QED
  BY <1>1, Invariance, PTL

\* map and unmap invalidate every translation they change (invlpg, vmm.c).
THEOREM TlbAlwaysCoherent == Spec => []TlbCoherent
<1>1. Inv => TlbCoherent
  BY DEF Inv
<1> QED
  BY <1>1, Invariance, PTL

\* The CPU never reaches a frame that nobody holds (bzero in map, unmap).
THEOREM MappedStayHeld == Spec => []MappedAreHeld
<1>1. Inv => MappedAreHeld
  BY DEF Inv, MappedAreHeld, CpuSees, TlbCoherent, WalksToHeld
<1> QED
  BY <1>1, Invariance, PTL

\* As long as pmm.h's limit on memory is kept, map finds pte_kern as init_vmm
\* left it and can write every table it picks.
THEOREM TablesStayIntact ==
    ASSUME RamSupported
    PROVE  Spec => []TablesIntact
<1> DEFINE Safe == Inv /\ pc # "fault"
<1>1. Init => Safe
  BY InitInv DEF Init
<1>2. Safe /\ [Next]_vars => Safe'
  BY StepInv, NoFault
<1>3. Safe => TablesIntact
  <2> SUFFICES ASSUME Safe PROVE TablesIntact
    OBVIOUS
  <2>1. \A t \in Tables : t \in Frames /\ t \notin held
    BY DEF Inv, OneOwner
  <2> QED
    BY <2>1, FramesReachable, InvDirectMap, InvTypeOK DEF TablesIntact, TablesWritable, Inv
<1> HIDE DEF Safe
<1> QED
  BY <1>1, <1>2, <1>3, PTL DEF Spec

\* The space of the refinement is what the tables say.
LEMMA SpaceIsWalk ==
    ASSUME TlbCoherent
    PROVE  \A va \in ClientPages : CpuSees(va) = Walk(va)
BY DEF CpuSees, TlbCoherent

\* vmm.c is an address space: map and unmap change what the CPU sees at one
\* page, and nothing else changes it anywhere.
THEOREM VmmImplementsAddressSpace == Spec => ImplementsAddressSpace
<1> DEFINE space == [va \in ClientPages |-> CpuSees(va)]
<1>1. Init => Abstract!Init
  <2> SUFFICES ASSUME Init PROVE Abstract!Init
    OBVIOUS
  <2>1. Inv
    BY InitInv
  <2>2. \A va \in ClientPages : CpuSees(va) = Walk(va)
    BY <2>1, SpaceIsWalk DEF Inv
  <2>3. \A va \in ClientPages : Walk(va) = 0
    <3>1. \A va \in ClientPages : Walk(va) \in held \cup {0} /\ held = {}
      BY <2>1 DEF Inv, WalksToHeld, Init
    <3> QED
      BY <3>1
  <2> QED
    BY <2>2, <2>3 DEF Abstract!Init
<1>2. Inv /\ Inv' /\ [Next]_vars => [Abstract!Next]_space
  <2> SUFFICES ASSUME Inv, Inv', [Next]_vars PROVE [Abstract!Next]_space
    OBVIOUS
  <2>1. space = [va \in ClientPages |-> Walk(va)]
    BY SpaceIsWalk DEF Inv
  <2>2. space' = [va \in ClientPages |-> Walk(va)']
    <3>1. \A va \in ClientPages : CpuSees(va)' = Walk(va)'
      BY DEF Inv, CpuSees, TlbCoherent
    <3> QED
      BY <3>1
  <2> HIDE DEF space
  <2>3. CASE \A va \in ClientPages : Walk(va)' = Walk(va)
    BY <2>1, <2>2, <2>3
  <2>4. ASSUME NEW va \in ClientPages, NEW pa \in Frames \cup {0},
               \A vb \in ClientPages : Walk(vb)' = IF vb = va THEN pa ELSE Walk(vb)
        PROVE  Abstract!Next
    <3>1. space' = [space EXCEPT ![va] = pa]
      BY <2>1, <2>2, <2>4
    <3> QED
      BY <3>1 DEF Abstract!Next, Abstract!Map, Abstract!Unmap, space
  <2>5. CASE TakeFrame \/ \E pa \in held : GiveFrame(pa)
    <3>1. UNCHANGED tableVars
      BY <2>5 DEF TakeFrame, GiveFrame
    <3> QED
      BY <2>3, <3>1 DEF tableVars, Walk
  <2>6. CASE \E va \in ClientPages : Access(va) \/ Evict(va)
    <3>1. UNCHANGED tableVars
      BY <2>6 DEF Access, Evict
    <3> QED
      BY <2>3, <3>1 DEF tableVars, Walk
  <2>7. ASSUME NEW va \in ClientPages, UnmapPage(va)
        PROVE  [Abstract!Next]_space
    BY <2>4, <2>7, UnmapPageInv
  <2>8. ASSUME NEW va \in ClientPages, NEW pa \in held, MapPage(va, pa)
        PROVE  [Abstract!Next]_space
    <3>1. pa \in Frames
      BY DEF Inv, OneOwner
    <3> QED
      BY <2>3, <2>4, <2>8, <3>1, MapPageInv
  <2>9. CASE UNCHANGED vars
    BY <2>3, <2>9, StutterInv
  <2> QED
    BY <2>5, <2>6, <2>7, <2>8, <2>9 DEF Next
<1> QED
  BY <1>1, <1>2, Invariance, PTL DEF Spec, ImplementsAddressSpace, Abstract!Spec
=============================================================================
