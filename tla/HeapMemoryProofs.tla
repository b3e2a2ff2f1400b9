-------------------------- MODULE HeapMemoryProofs --------------------------
(***************************************************************************)
(* Proofs about the memory under the heap, for every careful client: heap  *)
(* pages are exactly those below heap_max, each a frame of its own, no     *)
(* frame is lost, and the client's blocks stay where they are and mapped.  *)
(*                                                                         *)
(* HeapProofs says where the chunks lie, whatever is mapped, and           *)
(* PageTablesProofs what map and unmap do, whoever calls them.  At the end *)
(* stands the kernel's own client, TestHeap: it is careful, and leaves     *)
(* nothing behind.                                                         *)
(***************************************************************************)
EXTENDS HeapProofs, PageTablesProofs, TestHeap, SequenceTheorems

-----------------------------------------------------------------------------
(* The pages of the heap. *)

\* The page a byte lies in.
PageOf(a) == PAGE_SIZE * (a \div PAGE_SIZE)

\* All bytes of a page are translated alike.
LEMMA WalkPage ==
    ASSUME NEW a \in Nat
    PROVE  /\ PageOf(a) \in Nat /\ PageOf(a) % PAGE_SIZE = 0
           /\ PageOf(a) <= a /\ a < PageOf(a) + PAGE_SIZE
           /\ PGD_INDEX(PageOf(a)) = PGD_INDEX(a) /\ PTE_INDEX(PageOf(a)) = PTE_INDEX(a)
           /\ Walk(a) = Walk(PageOf(a))
<1> DEFINE q == a \div PAGE_SIZE
<1>1. q \in Nat /\ a % PAGE_SIZE \in 0..PAGE_SIZE - 1 /\ a = PAGE_SIZE * q + (a % PAGE_SIZE)
  BY TableConstants, Division
<1> HIDE DEF q
<1>2. PAGE_SIZE * q \in Nat
  BY <1>1, TableConstants
<1>3. PageOf(a) = PAGE_SIZE * q /\ q = a \div PAGE_SIZE
  BY DEF PageOf, q
<1>4. (PAGE_SIZE * q + 0) \div PAGE_SIZE = q /\ (PAGE_SIZE * q + 0) % PAGE_SIZE = 0
  <2>1. 0 \in 0..PAGE_SIZE - 1
    BY TableConstants
  <2> QED
    BY <1>1, <2>1, TableConstants, Quotient
<1> DEFINE m == PAGE_SIZE * q
<1>5. m \in Nat /\ m \div PAGE_SIZE = q /\ m % PAGE_SIZE = 0 /\ PageOf(a) = m
  BY <1>2, <1>3, <1>4
<1>6. m <= a /\ a < m + PAGE_SIZE
  <2>1. a = m + (a % PAGE_SIZE)
    BY <1>1
  <2> HIDE DEF m
  <2> QED
    BY <1>1, <1>5, <2>1, TableConstants
<1> HIDE DEF m
<1>7. PGD_INDEX(m) = PGD_INDEX(a) /\ PTE_INDEX(m) = PTE_INDEX(a)
  BY <1>3, <1>5 DEF PGD_INDEX, PTE_INDEX
<1> QED
  BY <1>5, <1>6, <1>7 DEF Walk

\* A page-aligned address is a multiple of the page size.
LEMMA Multiple ==
    ASSUME NEW a \in Nat, a % PAGE_SIZE = 0
    PROVE  a \div PAGE_SIZE \in Nat /\ a = PAGE_SIZE * (a \div PAGE_SIZE)
<1> DEFINE q == a \div PAGE_SIZE
<1>1. q \in Nat /\ a = PAGE_SIZE * q + (a % PAGE_SIZE)
  BY TableConstants, Division
<1> HIDE DEF q
<1>2. PAGE_SIZE * q \in Nat
  BY <1>1, TableConstants
<1> QED
  BY <1>1, <1>2 DEF q

\* Between two pages lies at least a page.
LEMMA PageGap ==
    ASSUME NEW a \in Nat, NEW b \in Nat, a % PAGE_SIZE = 0, b % PAGE_SIZE = 0, a < b
    PROVE  a + PAGE_SIZE <= b
<1> DEFINE p == a \div PAGE_SIZE
           q == b \div PAGE_SIZE
<1>1. p \in Nat /\ a = PAGE_SIZE * p /\ q \in Nat /\ b = PAGE_SIZE * q
  BY Multiple
<1> HIDE DEF p, q
<1>2. p < q
  <2> SUFFICES ASSUME q <= p PROVE FALSE
    BY <1>1
  <2>1. PAGE_SIZE * q <= PAGE_SIZE * p
    BY <1>1, TableConstants, Monotone
  <2> QED
    BY <1>1, <2>1
<1>3. PAGE_SIZE * (p + 1) <= PAGE_SIZE * q
  BY <1>1, <1>2, TableConstants, Monotone
<1>4. PAGE_SIZE * (p + 1) = PAGE_SIZE * p + PAGE_SIZE
  BY <1>1, TableConstants
<1> QED
  BY <1>1, <1>3, <1>4

\* A page more or less is a page again.
LEMMA NextPage ==
    ASSUME NEW a \in Nat, a % PAGE_SIZE = 0
    PROVE  /\ a + PAGE_SIZE \in Nat /\ (a + PAGE_SIZE) % PAGE_SIZE = 0
           /\ PAGE_SIZE <= a => a - PAGE_SIZE \in Nat /\ (a - PAGE_SIZE) % PAGE_SIZE = 0
<1> DEFINE q == a \div PAGE_SIZE
<1>1. q \in Nat /\ a = PAGE_SIZE * q
  BY Multiple
<1> HIDE DEF q
<1>2. \A n \in Nat : (PAGE_SIZE * n + 0) % PAGE_SIZE = 0 /\ PAGE_SIZE * n \in Nat
  <2>1. 0 \in 0..PAGE_SIZE - 1
    BY TableConstants
  <2> QED
    BY <2>1, TableConstants, Quotient
<1>3. \A n \in Nat : (PAGE_SIZE * n) % PAGE_SIZE = 0
  <2> TAKE n \in Nat
  <2> DEFINE m == PAGE_SIZE * n
  <2>1. m \in Nat /\ (m + 0) % PAGE_SIZE = 0
    BY <1>2
  <2> HIDE DEF m
  <2>2. m + 0 = m
    BY <2>1
  <2>3. m % PAGE_SIZE = 0
    BY <2>1, <2>2
  <2> QED
    BY <2>3 DEF m
<1>4. a + PAGE_SIZE = PAGE_SIZE * (q + 1) /\ q + 1 \in Nat
  BY <1>1, TableConstants
<1>5. ASSUME PAGE_SIZE <= a
      PROVE  a - PAGE_SIZE = PAGE_SIZE * (q - 1) /\ q - 1 \in Nat
  <2>1. q # 0
    BY <1>1, <1>5, TableConstants
  <2> QED
    BY <1>1, <2>1, TableConstants
<1> QED
  BY <1>2, <1>3, <1>4, <1>5, TableConstants

\* HeapPages are the pages from HEAP_START to the end of the address space.
LEMMA HeapPage ==
    /\ \A va : va \in HeapPages <=>
                  va \in Nat /\ va % PAGE_SIZE = 0 /\ HEAP_START <= va /\ va < WORD
    /\ HeapPages \subseteq Mappable
<1> DEFINE h == HEAP_START \div PAGE_SIZE
           w == PTE_SIZE * PGD_SIZE
<1>1. h \in Nat /\ HEAP_START = PAGE_SIZE * h
  BY Constants, Multiple, HeapAssumption DEF HeapAssumption
<1>2. w \in Nat /\ WORD = PAGE_SIZE * w
  BY TableConstants DEF WORD
<1> HIDE DEF h, w
<1>3. h < w
  <2> SUFFICES ASSUME w <= h PROVE FALSE
    BY <1>1, <1>2
  <2>1. PAGE_SIZE * w <= PAGE_SIZE * h
    BY <1>1, <1>2, TableConstants, Monotone
  <2> QED
    BY <1>1, <1>2, <2>1, Constants
<1>4. (WORD - HEAP_START) \div PAGE_SIZE = w - h
  <2> DEFINE n == w - h
  <2>1. n \in Nat /\ PAGE_SIZE * n = PAGE_SIZE * w - PAGE_SIZE * h
    BY <1>1, <1>2, <1>3, TableConstants
  <2> HIDE DEF n
  <2>2. (PAGE_SIZE * n + 0) \div PAGE_SIZE = n
    <3>1. 0 \in 0..PAGE_SIZE - 1
      BY TableConstants
    <3> QED
      BY <2>1, <3>1, TableConstants, Quotient
  <2>3. PAGE_SIZE * n \in Nat /\ WORD - HEAP_START = PAGE_SIZE * n
    BY <1>1, <1>2, <2>1, TableConstants
  <2>4. PAGE_SIZE * n + 0 = WORD - HEAP_START
    BY <2>3
  <2> QED
    BY <2>2, <2>4 DEF n
<1>5. HeapPages = {HEAP_START + i * PAGE_SIZE : i \in 0..w - h - 1}
  BY <1>4 DEF HeapPages
<1>6. ASSUME NEW va \in HeapPages
      PROVE  va \in Nat /\ va % PAGE_SIZE = 0 /\ HEAP_START <= va /\ va < WORD
  <2>1. PICK i \in 0..w - h - 1 : va = HEAP_START + i * PAGE_SIZE
    BY <1>5
  <2>2. i \in Nat /\ h + i \in Nat /\ h + i < w /\ (h + i) + 1 <= w /\ h <= h + i
    BY <1>1, <1>2, <1>3, <2>1
  <2>3. va = PAGE_SIZE * (h + i)
    BY <1>1, <2>1, <2>2, TableConstants
  <2> DEFINE n == h + i
  <2>4. n \in Nat /\ n + 1 <= w /\ h <= n /\ va = PAGE_SIZE * n
    BY <2>2, <2>3
  <2> HIDE DEF n
  <2>5. PAGE_SIZE * h <= PAGE_SIZE * n /\ PAGE_SIZE * (n + 1) <= PAGE_SIZE * w
    BY <1>1, <1>2, <2>4, TableConstants, Monotone
  <2>6. PAGE_SIZE * (n + 1) = PAGE_SIZE * n + PAGE_SIZE /\ PAGE_SIZE * n \in Nat
    BY <2>4, TableConstants
  <2>7. (PAGE_SIZE * n + 0) % PAGE_SIZE = 0
    <3>1. 0 \in 0..PAGE_SIZE - 1
      BY TableConstants
    <3> QED
      BY <2>4, <3>1, TableConstants, Quotient
  <2>8. va + 0 = va /\ va \in Nat
    BY <2>4, <2>6
  <2> QED
    BY <1>1, <1>2, <2>4, <2>5, <2>6, <2>7, <2>8, TableConstants
<1>7. ASSUME NEW va \in Nat, va % PAGE_SIZE = 0, HEAP_START <= va, va < WORD
      PROVE  va \in HeapPages
  <2> DEFINE q == va \div PAGE_SIZE
  <2>1. q \in Nat /\ va = PAGE_SIZE * q
    BY <1>7, Multiple
  <2> HIDE DEF q
  <2>2. q < w
    <3> SUFFICES ASSUME w <= q PROVE FALSE
      BY <1>2, <2>1
    <3>1. PAGE_SIZE * w <= PAGE_SIZE * q
      BY <1>2, <2>1, TableConstants, Monotone
    <3> QED
      BY <1>2, <1>7, <2>1, <3>1, TableConstants
  <2>3. h <= q
    <3> SUFFICES ASSUME q + 1 <= h PROVE FALSE
      BY <1>1, <2>1
    <3>1. PAGE_SIZE * (q + 1) <= PAGE_SIZE * h
      BY <1>1, <2>1, TableConstants, Monotone
    <3>2. PAGE_SIZE * (q + 1) = PAGE_SIZE * q + PAGE_SIZE
      BY <2>1, TableConstants
    <3> QED
      BY <1>1, <1>7, <2>1, <3>1, <3>2, TableConstants
  <2>4. q - h \in 0..w - h - 1
    BY <1>1, <1>2, <2>1, <2>2, <2>3
  <2>5. va = HEAP_START + (q - h) * PAGE_SIZE
    BY <1>1, <2>1, TableConstants
  <2> QED
    BY <1>5, <2>4, <2>5
<1>8. HeapPages \subseteq Mappable
  BY <1>6, TableConstants, HeapAssumption DEF HeapAssumption, Mappable
<1> QED
  BY <1>6, <1>7, <1>8
-----------------------------------------------------------------------------
(* The invariant. *)

\* The pages of the heap are mapped to frames, or not at all.
HeapWalks == \A va \in HeapPages : Walk(va) \in Frames \cup {0}

\* No frame has two uses.
OneUse ==
    /\ InFlight \subseteq Frames
    /\ FreeFrames \cap MappedFrames = {} /\ FreeFrames \cap Tables = {}
    /\ FreeFrames \cap InFlight = {} /\ MappedFrames \cap Tables = {}
    /\ MappedFrames \cap InFlight = {} /\ Tables \cap InFlight = {}

MemInv ==
    /\ StackOfFrames /\ Directory /\ TablesKept
    /\ heap_max % PAGE_SIZE = 0
    /\ HeapWalks /\ HeapMapped
    /\ ~Stopped => OneUse
    /\ FramesPartitioned

\* What the partition counts are finite sets.
LEMMA UsesFinite ==
    ASSUME Directory, HeapWalks
    PROVE  /\ MappedFrames \subseteq Frames /\ Tables \subseteq Frames
           /\ IsFiniteSet(MappedFrames) /\ IsFiniteSet(Tables)
           /\ Cardinality(MappedFrames) \in Nat /\ Cardinality(Tables) \in Nat
<1>1. MappedFrames \subseteq Frames
  BY DEF HeapWalks, MappedFrames
<1>2. Tables \subseteq Frames
  BY DEF Directory, Tables
<1>3. IsFiniteSet(MappedFrames) /\ IsFiniteSet(Tables)
  BY <1>1, <1>2, FrameFacts, FS_Subset
<1> QED
  BY <1>1, <1>2, <1>3, FS_CardinalityType

\* init_pmm and init_vmm map nothing in the heap and use no frame.
LEMMA InitMemory == Init => MemInv
<1> SUFFICES ASSUME Init PROVE MemInv
  OBVIOUS
<1> USE DEF Init
<1>1. /\ StackOfFrames /\ Directory /\ TablesKept
      /\ Tables = {} /\ FreeFrames = Frames /\ pmm_stack_top = FRAME_COUNT
      /\ \A va \in HeapPages : Walk(va) = 0
  BY Booted, HeapPage
<1>2. MappedFrames = {} /\ InFlight = {}
  BY <1>1 DEF MappedFrames, InFlight
<1>3. heap_max % PAGE_SIZE = 0
  BY HeapAssumption DEF HeapAssumption
<1>4. HeapWalks /\ HeapMapped
  <2>1. \A va \in HeapPages : HEAP_START <= va /\ va \in Nat
    BY HeapPage
  <2> QED
    BY <1>1, <2>1, Constants DEF HeapWalks, HeapMapped
<1>5. OneUse
  BY <1>1, <1>2 DEF OneUse
<1>6. FramesPartitioned
  BY <1>1, <1>2, FS_EmptySet, TableConstants DEF FramesPartitioned
<1> QED
  BY <1>1, <1>3, <1>4, <1>5, <1>6 DEF MemInv

\* A step that leaves the memory alone.
LEMMA QuietStep ==
    ASSUME MemInv, UNCHANGED <<pmmVars, tableVars, heap_max>>,
           Stopped' \/ (~Stopped /\ InFlight' = InFlight)
    PROVE  MemInv'
<1>1. Directory' /\ TablesKept' /\ Tables' = Tables /\ \A va : Walk(va)' = Walk(va)
  BY TablesUnchanged DEF MemInv
<1>2. StackOfFrames' /\ FreeFrames' = FreeFrames /\ pmm_stack_top' = pmm_stack_top
  BY DEF MemInv, StackOfFrames, FreeFrames, pmmVars
<1>3. MappedFrames' = MappedFrames /\ HeapWalks' /\ HeapMapped'
  BY <1>1 DEF MemInv, MappedFrames, HeapWalks, HeapMapped
<1>4. ~Stopped' => OneUse' /\ ~Stopped /\ InFlight' = InFlight
  BY <1>1, <1>2, <1>3 DEF MemInv, OneUse
<1>5. FramesPartitioned'
  BY <1>1, <1>2, <1>3, <1>4 DEF MemInv, FramesPartitioned
<1> QED
  BY <1>1, <1>2, <1>3, <1>4, <1>5 DEF MemInv

\* Only alloc_chunk and the loop of free_chunk touch the memory.
LEMMA ListStepMemory ==
    ASSUME MemInv,
           \/ \E n \in Sizes : Kmalloc(n)
           \/ \E p \in DOMAIN live : CarefulKfree(p)
           \/ WalkFit \/ WalkNext \/ WalkEnd \/ GrowDone \/ ShrinkDone
           \/ UNCHANGED vars
    PROVE  /\ MemInv' /\ \A va : Walk(va)' = Walk(va)
           /\ UNCHANGED <<pmmVars, tableVars, heap_max>>
<1>1. CASE \E n \in Sizes : Kmalloc(n)
  BY <1>1, QuietStep DEF Kmalloc, Stopped, InFlight, tableVars, Walk
<1>2. CASE \E p \in DOMAIN live : CarefulKfree(p)
  <2>1. PICK p \in DOMAIN live : Kfree(p)
    BY <1>2 DEF CarefulKfree
  <2>2. /\ pc = "idle" /\ UNCHANGED <<pmmVars, tableVars, heap_max>>
        /\ pc' \in {"idle", "shrink", "fault", "wild"}
    BY <2>1 DEF Kfree, StopOnBadTouch
  <2> QED
    BY <2>2, QuietStep DEF Stopped, InFlight, tableVars, Walk
<1>3. CASE WalkFit
  BY <1>3, QuietStep DEF WalkFit, Return, Stopped, InFlight, tableVars, Walk
<1>4. CASE WalkNext
  <2>1. /\ pc = "walk" /\ UNCHANGED <<pmmVars, tableVars, heap_max>>
        /\ pc' \in {"walk", "fault", "wild"}
    BY <1>4 DEF WalkNext, StopOnBadTouch
  <2> QED
    BY <2>1, QuietStep DEF Stopped, InFlight, tableVars, Walk
<1>5. CASE WalkEnd
  BY <1>5, QuietStep DEF WalkEnd, Stopped, InFlight, tableVars, Walk
<1>6. CASE GrowDone
  <2>1. /\ pc = "grow" /\ UNCHANGED <<pmmVars, tableVars, heap_max>>
        /\ pc' \in {"idle", "fault"}
    BY <1>6 DEF GrowDone, Return
  <2> QED
    BY <2>1, QuietStep DEF Stopped, InFlight, tableVars, Walk
<1>7. CASE ShrinkDone
  BY <1>7, QuietStep DEF ShrinkDone, Return, Stopped, InFlight, tableVars, Walk
<1>8. CASE UNCHANGED vars
  <2>1. UNCHANGED <<pmmVars, tableVars, heap_max>> /\ pc' = pc /\ page' = page
    BY <1>8 DEF vars, regVars
  <2> QED
    BY <2>1, QuietStep DEF Stopped, InFlight, tableVars, Walk
<1> QED
  BY <1>1, <1>2, <1>3, <1>4, <1>5, <1>6, <1>7, <1>8

\* alloc_chunk takes the frame it is going to map.
LEMMA GrowFrameMemory ==
    ASSUME MemInv, GrowFrame
    PROVE  /\ MemInv' /\ \A va : Walk(va)' = Walk(va)
           /\ UNCHANGED <<tableVars, heap_max>>
<1>1. pc = "grow" /\ UNCHANGED <<tableVars, heap_max>>
  BY DEF GrowFrame
<1>2. \A va : Walk(va)' = Walk(va)
  BY <1>1 DEF tableVars, Walk
<1>3. CASE pc' = "panic" /\ UNCHANGED pmmVars
  BY <1>1, <1>2, <1>3, QuietStep DEF Stopped
<1>4. CASE pc' = "map" /\ pmm_alloc_page(page')
  <2>1. /\ StackOfFrames' /\ page' \in FreeFrames /\ page' \in Frames
        /\ FreeFrames' = FreeFrames \ {page'} /\ pmm_stack_top' = pmm_stack_top - 1
    BY <1>4, Popped DEF MemInv
  <2>2. Directory' /\ TablesKept' /\ Tables' = Tables
    BY <1>1, TablesUnchanged DEF MemInv
  <2>3. MappedFrames' = MappedFrames /\ HeapWalks' /\ HeapMapped'
    BY <1>1, <1>2 DEF MemInv, MappedFrames, HeapWalks, HeapMapped
  <2>4. ~Stopped /\ InFlight = {} /\ InFlight' = {page'}
    BY <1>1, <1>4 DEF Stopped, InFlight
  <2>5. OneUse'
    BY <2>1, <2>2, <2>3, <2>4 DEF MemInv, OneUse
  <2>6. FramesPartitioned'
    <3>1. FreeFrames \cup MappedFrames \cup Tables = Frames
      BY <2>4 DEF MemInv, FramesPartitioned
    <3>2. FreeFrames' \cup MappedFrames' \cup Tables' \cup InFlight' = Frames
      BY <2>1, <2>2, <2>3, <2>4, <3>1
    <3>3. Cardinality(InFlight) = 0 /\ Cardinality(InFlight') = 1
      BY <2>4, FS_EmptySet, FS_Singleton
    <3>4. pmm_stack_top \in Nat /\ Cardinality(MappedFrames) \in Nat /\ Cardinality(Tables) \in Nat
      BY UsesFinite, TableConstants DEF MemInv, StackOfFrames
    <3>5. pmm_stack_top + Cardinality(MappedFrames) + Cardinality(Tables) + 0 = FRAME_COUNT
      BY <2>4, <3>3 DEF MemInv, FramesPartitioned
    <3>6. /\ Cardinality(MappedFrames') = Cardinality(MappedFrames)
          /\ Cardinality(Tables') = Cardinality(Tables)
      BY <2>2, <2>3
    <3> QED
      BY <2>1, <3>2, <3>3, <3>4, <3>5, <3>6 DEF FramesPartitioned
  <2> QED
    BY <1>1, <1>2, <2>1, <2>2, <2>3, <2>5, <2>6 DEF MemInv
<1> QED
  BY <1>3, <1>4 DEF GrowFrame

\* heap_max stays in the address space: there is room for another page.
LEMMA GrowRoom ==
    ASSUME HeapInv, MemInv, pc = "map"
    PROVE  /\ heap_max \in HeapPages /\ heap_max \in Nat /\ heap_max + PAGE_SIZE < WORD
           /\ Add(heap_max, PAGE_SIZE) = heap_max + PAGE_SIZE
<1>1. /\ heap_max \in Nat /\ HEAP_START \in Nat /\ PAGE_SIZE \in Nat /\ WORD \in Nat
      /\ HEAP_START <= heap_max /\ pmm_stack_top \in Nat
  BY Constants DEF HeapInv, HeapBounds
<1>2. PICK n \in Sizes : len = n + HDR
  BY DEF HeapInv, GrowAtEnd, Requested
<1> DEFINE t == PAGE_SIZE * pmm_stack_top
           f == PAGE_SIZE * FRAME_COUNT
<1>3. t \in Nat /\ f \in Nat /\ heap_max + t + PAGE_SIZE <= HEAP_START + f
  BY <1>1, Constants DEF HeapInv, HeapBounds, Budget
<1>4. n \in Nat /\ HDR \in Nat /\ HEAP_START + f + n + HDR < WORD
  BY Constants
<1> HIDE DEF t, f
<1>5. heap_max + PAGE_SIZE < WORD
  BY <1>1, <1>3, <1>4
<1>6. heap_max \in HeapPages
  BY <1>1, <1>5, HeapPage DEF MemInv
<1> QED
  BY <1>1, <1>5, <1>6, AddSmall

\* map() hangs the page at heap_max.
LEMMA GrowMapMemory ==
    ASSUME HeapInv, MemInv, GrowMap
    PROVE  /\ MemInv'
           /\ \A va \in HeapPages : va < heap_max => Walk(va)' = Walk(va)
<1>1. pc = "map" /\ ~Stopped
  BY DEF GrowMap, Stopped
<1>2. CASE pc' \in {"panic", "fault"} /\ UNCHANGED <<pmmVars, tableVars, heap_max, page>>
  BY <1>2, QuietStep DEF Stopped, tableVars, Walk
<1>3. CASE map(heap_max, page) /\ heap_max' = Add(heap_max, PAGE_SIZE) /\ pc' = "grow"
  <2> PICK va, pa : va = heap_max /\ pa = page
    OBVIOUS
  <2>1. /\ va \in HeapPages /\ va \in Mappable /\ va \in Nat /\ heap_max' = va + PAGE_SIZE
        /\ va % PAGE_SIZE = 0
    BY <1>1, <1>3, GrowRoom, HeapPage DEF MemInv
  <2>2. OneUse /\ InFlight = {pa} /\ pa \in Frames
    BY <1>1 DEF MemInv, InFlight, OneUse
  <2>3. Walk(va) = 0
    BY <2>1 DEF MemInv, HeapMapped
  <2>4. /\ StackOfFrames' /\ Directory' /\ TablesKept'
        /\ \A vb \in Mappable : Walk(vb)' = IF vb = va THEN pa ELSE Walk(vb)
        /\ \/ /\ FreeFrames' = FreeFrames /\ pmm_stack_top' = pmm_stack_top
              /\ Tables' = Tables
           \/ \E table \in FreeFrames :
                 /\ FreeFrames' = FreeFrames \ {table} /\ pmm_stack_top' = pmm_stack_top - 1
                 /\ Tables' = Tables \cup {table}
    <3>1. CASE MapInTable(va, pa)
      <4>1. /\ pgd[PGD_INDEX(va)] # 0 /\ pgd' = pgd /\ UNCHANGED pmmVars
            /\ pte' = [pte EXCEPT ![pgd[PGD_INDEX(va)]][PTE_INDEX(va)] = pa]
        BY <3>1 DEF MapInTable
      <4>2. /\ Directory' /\ TablesKept'
            /\ \A vb \in Mappable : Walk(vb)' = IF vb = va THEN pa ELSE Walk(vb)
        BY <2>1, <2>2, <4>1, EntryWritten DEF MemInv
      <4>3. /\ StackOfFrames' /\ FreeFrames' = FreeFrames /\ pmm_stack_top' = pmm_stack_top
            /\ Tables' = Tables
        BY <4>1 DEF MemInv, pmmVars, StackOfFrames, FreeFrames, Tables
      <4> QED
        BY <4>2, <4>3
    <3>2. CASE MapNewTable(va, pa)
      <4>1. PICK table \in FreeFrames :
              /\ pmm_alloc_page(table)
              /\ pgd' = [pgd EXCEPT ![PGD_INDEX(va)] = table]
              /\ pte' = [pte EXCEPT ![table] = NewTable(table, va, pa)]
        BY <3>2 DEF MapNewTable
      <4>2. /\ StackOfFrames' /\ table \in Frames /\ FreeFrames' = FreeFrames \ {table}
            /\ pmm_stack_top' = pmm_stack_top - 1
        BY <4>1, Popped DEF MemInv
      <4>3. table \notin Tables /\ NeedsTable(va)
        BY <2>2, <3>2, <4>1 DEF OneUse, MapNewTable
      <4>4. /\ Directory' /\ TablesKept' /\ Tables' = Tables \cup {table}
            /\ \A vb \in Mappable : Walk(vb)' = IF vb = va THEN pa ELSE Walk(vb)
        BY <2>1, <2>2, <4>1, <4>2, <4>3, TableAdded DEF MemInv
      <4> QED
        BY <4>1, <4>2, <4>4
    <3> QED
      BY <1>3, <3>1, <3>2 DEF map
  <2>5. \A vb \in HeapPages : Walk(vb)' = IF vb = va THEN pa ELSE Walk(vb)
    BY <2>4, HeapPage
  <2>6. HeapWalks'
    BY <2>2, <2>5 DEF MemInv, HeapWalks
  <2>7. MappedFrames' = MappedFrames \cup {pa} /\ pa \notin MappedFrames /\ pa # 0
    <3>1. pa # 0 /\ pa \notin MappedFrames
      BY <2>2, FrameFacts DEF OneUse
    <3>2. MappedFrames' = {Walk(vb)' : vb \in HeapPages} \ {0}
      BY DEF MappedFrames
    <3>3. ASSUME NEW f \in MappedFrames' PROVE f \in MappedFrames \cup {pa}
      BY <2>5, <3>2, <3>3 DEF MappedFrames
    <3>4. ASSUME NEW f \in MappedFrames PROVE f \in MappedFrames'
      <4>1. PICK vb \in HeapPages : f = Walk(vb) /\ f # 0
        BY DEF MappedFrames
      <4>2. Walk(vb)' = f
        BY <2>3, <2>5, <4>1
      <4> QED
        BY <3>2, <4>1, <4>2
    <3>5. pa \in MappedFrames'
      BY <2>1, <2>5, <3>1, <3>2
    <3> QED
      BY <3>1, <3>3, <3>4, <3>5
  <2>8. HeapMapped'
    <3>1. \A vb \in HeapPages : Walk(vb)' # 0 <=> vb < heap_max'
      <4> TAKE vb \in HeapPages
      <4>1. vb \in Nat /\ vb % PAGE_SIZE = 0 /\ (va < vb => va + PAGE_SIZE <= vb)
        BY <2>1, HeapPage, PageGap
      <4>2. Walk(vb) # 0 <=> vb < va
        BY DEF MemInv, HeapMapped
      <4> QED
        BY <2>1, <2>5, <2>7, <4>1, <4>2, TableConstants
    <3>2. ASSUME NEW v \in HeapPages, NEW w \in HeapPages, Walk(v)' = Walk(w)', Walk(v)' # 0
          PROVE  v = w
      <4>1. \A vb \in HeapPages : Walk(vb) # pa
        BY <2>7 DEF MappedFrames
      <4>2. Walk(v) = Walk(w) /\ Walk(v) # 0 => v = w
        BY DEF MemInv, HeapMapped
      <4> QED
        BY <2>5, <3>2, <4>1, <4>2
    <3> QED
      BY <3>1, <3>2 DEF HeapMapped
  <2>9. InFlight' = {}
    BY <1>3 DEF InFlight
  <2>10. OneUse'
    BY <2>2, <2>4, <2>7, <2>9 DEF OneUse
  <2>11. FramesPartitioned'
    <3>1. FreeFrames' \cup MappedFrames' \cup Tables' \cup InFlight' = Frames
      BY <1>1, <2>2, <2>4, <2>7, <2>9 DEF MemInv, FramesPartitioned
    <3>2. Cardinality(InFlight) = 1 /\ Cardinality(InFlight') = 0
      BY <2>2, <2>9, FS_EmptySet, FS_Singleton
    <3>3. /\ pmm_stack_top \in Nat /\ Cardinality(MappedFrames) \in Nat
          /\ Cardinality(Tables) \in Nat
          /\ IsFiniteSet(MappedFrames) /\ IsFiniteSet(Tables)
      BY UsesFinite, TableConstants DEF MemInv, StackOfFrames
    <3>4. pmm_stack_top + Cardinality(MappedFrames) + Cardinality(Tables) + 1 = FRAME_COUNT
      BY <1>1, <3>2 DEF MemInv, FramesPartitioned
    <3>5. Cardinality(MappedFrames') = Cardinality(MappedFrames) + 1
      BY <2>7, <3>3, FS_AddElement
    <3>6. pmm_stack_top' + Cardinality(Tables') = pmm_stack_top + Cardinality(Tables)
      <4>1. CASE pmm_stack_top' = pmm_stack_top /\ Tables' = Tables
        BY <4>1
      <4>2. ASSUME NEW table \in FreeFrames,
                   pmm_stack_top' = pmm_stack_top - 1, Tables' = Tables \cup {table}
            PROVE  pmm_stack_top' + Cardinality(Tables') = pmm_stack_top + Cardinality(Tables)
        <5>1. table \notin Tables
          BY <2>2 DEF OneUse
        <5>2. Cardinality(Tables') = Cardinality(Tables) + 1
          BY <3>3, <4>2, <5>1, FS_AddElement
        <5> QED
          BY <3>3, <4>2, <5>2
      <4> QED
        BY <2>4, <4>1, <4>2
    <3>7. pmm_stack_top' \in Int /\ Cardinality(Tables') \in Nat
      <4>1. pmm_stack_top' \in Nat
        BY <2>4, TableConstants DEF StackOfFrames
      <4>2. IsFiniteSet(Tables')
        BY <2>4, <3>3, FS_AddElement
      <4> QED
        BY <4>1, <4>2, FS_CardinalityType
    <3>8. pmm_stack_top' + Cardinality(MappedFrames') + Cardinality(Tables')
             + Cardinality(InFlight') = FRAME_COUNT
      BY <3>2, <3>3, <3>4, <3>5, <3>6, <3>7
    <3> QED
      BY <3>1, <3>8 DEF FramesPartitioned
  <2>12. heap_max' % PAGE_SIZE = 0
    BY <2>1, NextPage
  <2>13. \A vb \in HeapPages : vb < heap_max => Walk(vb)' = Walk(vb)
    BY <2>5, HeapPage, <2>1
  <2> QED
    BY <2>4, <2>6, <2>8, <2>10, <2>11, <2>12, <2>13 DEF MemInv
<1> QED
  BY <1>2, <1>3 DEF GrowMap

\* free_chunk's loop unmaps the last page and gives its frame back.  There is
\* room for it on the stack, from which it came.
LEMMA ShrinkPageMemory ==
    ASSUME HeapInv, MemInv, ShrinkPage
    PROVE  /\ MemInv' /\ pc' = "shrink" /\ heap_max' = heap_max - PAGE_SIZE
           /\ \A va \in HeapPages : va < heap_max' => Walk(va)' = Walk(va)
<1>1. /\ pc = "shrink" /\ ~Stopped /\ Sub(heap_max, PAGE_SIZE) >= cur
      /\ heap_max' = Sub(heap_max, PAGE_SIZE)
  BY DEF ShrinkPage, FreesPage, Stopped
<1>2. /\ heap_max \in Nat /\ heap_max < WORD /\ HEAP_START <= heap_max /\ HEAP_START \in Nat
      /\ PAGE_SIZE \in Nat \ {0} /\ PAGE_SIZE <= HEAP_START /\ WORD \in Nat
      /\ cur \in Nat /\ HEAP_START <= cur
  BY <1>1, Constants DEF HeapInv, HeapBounds, ShrinkBehindList
<1>3. heap_max' = heap_max - PAGE_SIZE
  <2>1. PAGE_SIZE <= heap_max
    BY <1>2
  <2> QED
    BY <1>1, <1>2, <2>1, SubSmall
<1> PICK va : va = heap_max - PAGE_SIZE
  OBVIOUS
<1>4. /\ va \in HeapPages /\ va \in Mappable /\ va \in Nat /\ va < heap_max /\ va % PAGE_SIZE = 0
      /\ va = heap_max' /\ va + PAGE_SIZE = heap_max
  <2>1. /\ PAGE_SIZE <= heap_max /\ HEAP_START <= va /\ va < WORD /\ va < heap_max
        /\ va = heap_max' /\ va + PAGE_SIZE = heap_max
    BY <1>1, <1>2, <1>3
  <2>2. va \in Nat /\ va % PAGE_SIZE = 0
    BY <1>2, <2>1, NextPage DEF MemInv
  <2>3. va \in HeapPages /\ va \in Mappable
    BY <2>1, <2>2, HeapPage
  <2> QED
    BY <1>2, <2>1, <2>2, <2>3
<1> PICK pa : pa = Walk(va)
  OBVIOUS
<1>5. pa \in Frames /\ pa # 0 /\ pa \in MappedFrames /\ pgd[PGD_INDEX(va)] # 0
  <2>1. pa # 0
    BY <1>4 DEF MemInv, HeapMapped
  <2>2. pa \in MappedFrames
    BY <1>4, <2>1 DEF MappedFrames
  <2>3. pa \in Frames
    BY <2>2, UsesFinite DEF MemInv
  <2>4. pgd[PGD_INDEX(va)] # 0
    BY <2>1 DEF Walk
  <2> QED
    BY <2>1, <2>2, <2>3, <2>4
<1>6. /\ pgd' = pgd /\ pte' = [pte EXCEPT ![pgd[PGD_INDEX(va)]][PTE_INDEX(va)] = 0]
      /\ \/ pmm_free_page(pa) /\ pc' = pc
         \/ StackFull
  <2>1. unmap(va) /\ \E frame \in 0..WORD - 1 :
                        /\ get_mapping(va, frame)
                        /\ (pmm_free_page(frame) /\ pc' = pc) \/ StackFull
    BY <1>4 DEF ShrinkPage
  <2> QED
    BY <1>5, <2>1 DEF unmap, get_mapping
<1>7. /\ Directory' /\ TablesKept' /\ Tables' = Tables
      /\ \A vb \in Mappable : Walk(vb)' = IF vb = va THEN 0 ELSE Walk(vb)
  <2>1. Tables' = Tables
    BY <1>6 DEF Tables
  <2> QED
    BY <1>4, <1>5, <1>6, <2>1, EntryWritten DEF MemInv
<1>8. \A vb \in HeapPages : Walk(vb)' = IF vb = va THEN 0 ELSE Walk(vb)
  BY <1>7, HeapPage
<1>9. OneUse /\ InFlight = {} /\ pa \notin FreeFrames
  BY <1>1, <1>5 DEF MemInv, InFlight, OneUse
<1>10. /\ pmm_stack_top \in Nat /\ Cardinality(MappedFrames) \in Nat
       /\ Cardinality(Tables) \in Nat /\ IsFiniteSet(MappedFrames)
       /\ pmm_stack_top + Cardinality(MappedFrames) + Cardinality(Tables) = FRAME_COUNT
  <2>1. /\ pmm_stack_top \in Nat /\ Cardinality(MappedFrames) \in Nat
        /\ Cardinality(Tables) \in Nat /\ IsFiniteSet(MappedFrames)
    BY UsesFinite, TableConstants DEF MemInv, StackOfFrames
  <2>2. pmm_stack_top + Cardinality(MappedFrames) + Cardinality(Tables)
           + Cardinality(InFlight) = FRAME_COUNT
    BY <1>1 DEF MemInv, FramesPartitioned
  <2> QED
    BY <1>9, <2>1, <2>2, FS_EmptySet
<1>11. Cardinality(MappedFrames) # 0
  BY <1>5, <1>10, FS_EmptySet
<1>12. ~StackFull
  BY <1>10, <1>11, TableConstants DEF StackFull
<1>13. /\ pc' = pc /\ StackOfFrames' /\ FreeFrames' = FreeFrames \cup {pa}
       /\ pmm_stack_top' = pmm_stack_top + 1
  BY <1>5, <1>6, <1>9, <1>12, Pushed DEF MemInv
<1>14. MappedFrames' = MappedFrames \ {pa}
  <2>1. MappedFrames' = {Walk(vb)' : vb \in HeapPages} \ {0}
    BY DEF MappedFrames
  <2>2. \A vb \in HeapPages : Walk(vb) = pa => vb = va
    BY <1>4, <1>5 DEF MemInv, HeapMapped
  <2>3. ASSUME NEW f \in MappedFrames' PROVE f \in MappedFrames \ {pa}
    <3>1. PICK vb \in HeapPages : f = Walk(vb)' /\ f # 0
      BY <2>1
    <3>2. f = Walk(vb) /\ vb # va
      BY <1>8, <3>1
    <3> QED
      BY <2>2, <3>1, <3>2 DEF MappedFrames
  <2>4. ASSUME NEW f \in MappedFrames \ {pa} PROVE f \in MappedFrames'
    <3>1. PICK vb \in HeapPages : f = Walk(vb) /\ f # 0
      BY DEF MappedFrames
    <3>2. Walk(vb)' = f
      BY <1>8, <2>4, <3>1
    <3> QED
      BY <2>1, <3>1, <3>2
  <2> QED
    BY <2>3, <2>4
<1>15. HeapWalks'
  BY <1>8 DEF MemInv, HeapWalks
<1>16. HeapMapped'
  <2>1. \A vb \in HeapPages : Walk(vb)' # 0 <=> vb < heap_max'
    <3> TAKE vb \in HeapPages
    <3>1. vb \in Nat /\ vb % PAGE_SIZE = 0 /\ (va < vb => va + PAGE_SIZE <= vb)
      BY <1>4, HeapPage, PageGap
    <3>2. Walk(vb) # 0 <=> vb < heap_max
      BY DEF MemInv, HeapMapped
    <3>3. Walk(vb)' # 0 <=> vb # va /\ vb < heap_max
      BY <1>8, <3>2
    <3>4. vb # va /\ vb < heap_max <=> vb < va
      BY <1>2, <1>4, <3>1
    <3> QED
      BY <1>4, <3>3, <3>4
  <2>2. ASSUME NEW v \in HeapPages, NEW w \in HeapPages, Walk(v)' = Walk(w)', Walk(v)' # 0
        PROVE  v = w
    <3>1. Walk(v) = Walk(w) /\ Walk(v) # 0 => v = w
      BY DEF MemInv, HeapMapped
    <3> QED
      BY <1>8, <2>2, <3>1
  <2> QED
    BY <2>1, <2>2 DEF HeapMapped
<1>17. InFlight' = {} /\ pc' = "shrink"
  BY <1>1, <1>13 DEF InFlight
<1>18. OneUse'
  BY <1>5, <1>7, <1>9, <1>13, <1>14, <1>17 DEF OneUse
<1>19. FramesPartitioned'
  <2>1. FreeFrames \cup MappedFrames \cup Tables \cup InFlight = Frames
    BY <1>1 DEF MemInv, FramesPartitioned
  <2>2. FreeFrames' \cup MappedFrames' \cup Tables' \cup InFlight' = Frames
    BY <1>5, <1>7, <1>9, <1>13, <1>14, <1>17, <2>1
  <2>3. Cardinality(MappedFrames') = Cardinality(MappedFrames) - 1
    BY <1>5, <1>10, <1>14, FS_RemoveElement
  <2>4. Cardinality(InFlight') = 0 /\ Cardinality(Tables') = Cardinality(Tables)
    BY <1>7, <1>17, FS_EmptySet
  <2> QED
    BY <1>10, <1>13, <2>2, <2>3, <2>4 DEF FramesPartitioned
<1>20. \A vb \in HeapPages : vb < heap_max' => Walk(vb)' = Walk(vb)
  BY <1>4, <1>8, HeapPage
<1> QED
  BY <1>3, <1>4, <1>7, <1>13, <1>15, <1>16, <1>17, <1>18, <1>19, <1>20 DEF MemInv
-----------------------------------------------------------------------------
(* The list up to its end: what the page loops of alloc_chunk and           *)
(* free_chunk leave between calls.                                          *)

\* Every chunk holds a header, and back links are addresses.
Headed(h) == \A c \in DOMAIN h : HDR <= h[c].length /\ h[c].prev < WORD

\* The last chunk of the list h ends at e.
EndsAt(h, e) ==
    IF DOMAIN h = {} THEN e = HEAP_START
    ELSE \E c \in DOMAIN h : h[c].next = 0 /\ c + h[c].length = e

\* Between calls the heap ends in the page in which the list ends; alloc_chunk
\* takes no page that the new chunk does not reach.
PagesTight ==
    /\ pc \in {"idle", "walk"} =>
          \E e \in HEAP_START..heap_max : EndsAt(hdr, e) /\ heap_max < e + PAGE_SIZE
    /\ pc \in {"grow", "map"} => heap_max < cur + len + PAGE_SIZE
    /\ pc = "map" => heap_max < cur + len
    /\ pc = "shrink" => EndsAt(hdr, cur)

TightInv == Headed(hdr) /\ PagesTight

\* split_chunk leaves the end of the list where it was.
LEMMA SplitTight ==
    ASSUME NEW max \in Nat, max < WORD, Tiled(hdr, max), Isolated(hdr, 0),
           Headed(hdr), NEW e, EndsAt(hdr, e),
           NEW c \in DOMAIN hdr, ~hdr[c].allocated,
           NEW n \in Nat, len = n + HDR, len <= hdr[c].length,
           NEW r, r = split_chunk(c)
    PROVE  Headed(r) /\ EndsAt(r, e)
<1> DEFINE old == hdr[c]
           used == [old EXCEPT !.allocated = TRUE]
           new == c + len
           rest == [prev |-> c, next |-> old.next, allocated |-> FALSE,
                    length |-> old.length - len]
           taken == [used EXCEPT !.next = new, !.length = len]
<1>1. /\ \A d \in DOMAIN hdr :
            /\ d \in Nat /\ d # 0 /\ hdr[d] \in Header
            /\ hdr[d].length \in Nat /\ hdr[d].length > 0
            /\ hdr[d].next \in Nat /\ hdr[d].prev \in Nat
            /\ d + hdr[d].length <= max
      /\ \A d, f \in DOMAIN hdr : d < f => d + hdr[d].length <= f
  BY Chunks
<1>2. len \in Nat /\ HDR <= len /\ HDR \in Nat \ {0} /\ WORD \in Nat
  BY Constants
<1>3. new \in Nat /\ c < new /\ RestStart(c) = new /\ c < WORD
  <2>1. c \in Nat /\ c + len < WORD
    BY <1>1, <1>2
  <2>2. Add(c, len) = c + len
    BY <2>1, <1>2, AddSmall
  <2> QED
    BY <1>2, <2>1, <2>2 DEF RestStart
<1>4. Sub(old.length, len) = old.length - len
  <2>1. old.length \in Nat /\ old.length < WORD
    BY <1>1, <1>2
  <2> QED
    BY <1>2, <2>1, SubSmall
<1>5. old.next # 0
  BY <1>1 DEF Isolated
<1>6. PICK last \in DOMAIN hdr : hdr[last].next = 0 /\ last + hdr[last].length = e
  BY DEF EndsAt
<1>7. last # c
  BY <1>5, <1>6
<1>8. CASE old.length - len > HDR
  <2>1. r = Put([hdr EXCEPT ![c] = taken], new, rest)
    BY <1>3, <1>4, <1>8 DEF split_chunk
  <2>2. \A d \in DOMAIN hdr : d # new
    BY <1>1, <1>2, <1>3, <1>8
  <2>3. /\ taken.prev = old.prev /\ taken.length = len
        /\ rest.prev = c /\ rest.length = old.length - len
    BY <1>1 DEF Header
  <2>4. \A d \in DOMAIN r :
           r[d] = IF d = new THEN rest ELSE IF d = c THEN taken ELSE hdr[d]
    BY <2>1 DEF Put
  <2>5. DOMAIN r = DOMAIN hdr \cup {new}
    BY <2>1 DEF Put
  <2> HIDE DEF rest, taken, new
  <2>6. Headed(r)
    <3> SUFFICES ASSUME NEW d \in DOMAIN r PROVE HDR <= r[d].length /\ r[d].prev < WORD
      BY DEF Headed
    <3>1. CASE d = new
      BY <1>1, <1>2, <1>3, <1>8, <2>3, <2>4, <3>1
    <3>2. CASE d = c /\ d # new
      BY <1>2, <2>3, <2>4, <3>2 DEF Headed
    <3>3. CASE d # c /\ d # new
      BY <2>4, <2>5, <3>3 DEF Headed
    <3> QED
      BY <3>1, <3>2, <3>3
  <2>7. last \in DOMAIN r /\ r[last] = hdr[last]
    BY <1>6, <1>7, <2>2, <2>4, <2>5
  <2> QED
    BY <1>6, <2>6, <2>7 DEF EndsAt
<1>9. CASE ~(old.length - len > HDR)
  <2>1. r = [hdr EXCEPT ![c] = used]
    BY <1>4, <1>9 DEF split_chunk
  <2>2. used.prev = old.prev /\ used.length = old.length
    BY <1>1 DEF Header
  <2>3. DOMAIN r = DOMAIN hdr /\ \A d \in DOMAIN hdr : r[d] = IF d = c THEN used ELSE hdr[d]
    BY <2>1
  <2> HIDE DEF used
  <2>4. Headed(r)
    BY <2>2, <2>3 DEF Headed
  <2> QED
    BY <1>6, <1>7, <2>3, <2>4 DEF EndsAt
<1> QED
  BY <1>8, <1>9

\* A merge leaves the other chunks where they are.
LEMMA AbsorbOthers ==
    ASSUME NEW h, NEW max \in Nat, max < WORD, Tiled(h, max),
           NEW a \in DOMAIN h, NEW b \in DOMAIN h, h[a].next = b,
           NEW r, r = Absorb(h, a, b)
    PROVE  /\ a \in DOMAIN r
           /\ \A d \in DOMAIN h \ {a, b} : d \in DOMAIN r /\ r[d].next = h[d].next
<1>1. /\ a < b /\ DOMAIN r = DOMAIN h \ {b}
      /\ \A d \in DOMAIN r : r[d].next = (IF d = a THEN h[b].next ELSE h[d].next)
  BY AbsorbFacts
<1>2. a \in Nat /\ b \in Nat
  BY Chunks
<1> QED
  BY <1>1, <1>2

\* A merge leaves the end of the list where it was.
LEMMA AbsorbTight ==
    ASSUME NEW h, NEW max \in Nat, max < WORD, Tiled(h, max),
           Headed(h), NEW e, EndsAt(h, e),
           NEW a \in DOMAIN h, NEW b \in DOMAIN h, h[a].next = b,
           NEW r, r = Absorb(h, a, b)
    PROVE  Headed(r) /\ EndsAt(r, e)
<1>1. \A d \in DOMAIN h :
         d \in Nat /\ d # 0 /\ h[d].length \in Nat /\ h[d].prev \in Nat /\ d + h[d].length <= max
  BY Chunks
<1>2. /\ a < b /\ a + h[a].length = b
      /\ DOMAIN r = DOMAIN h \ {b}
      /\ \A d \in DOMAIN r :
            /\ r[d].next = (IF d = a THEN h[b].next ELSE h[d].next)
            /\ r[d].length = (IF d = a THEN h[a].length + h[b].length ELSE h[d].length)
            /\ r[d].prev = (IF d = h[b].next THEN a ELSE h[d].prev)
  BY AbsorbFacts
<1>3. HDR \in Nat /\ WORD \in Nat /\ a < WORD
  BY <1>1, Constants
<1>4. Headed(r)
  <2> SUFFICES ASSUME NEW d \in DOMAIN r PROVE HDR <= r[d].length /\ r[d].prev < WORD
    BY DEF Headed
  <2>1. d \in DOMAIN h /\ HDR <= h[d].length /\ h[d].prev < WORD
    BY <1>2 DEF Headed
  <2>2. HDR <= r[d].length
    <3>1. h[d].length <= h[d].length + h[b].length
      BY <1>1, <2>1
    <3> QED
      BY <1>1, <1>2, <1>3, <2>1, <3>1
  <2> QED
    BY <1>2, <1>3, <2>1, <2>2
<1>5. PICK last \in DOMAIN h : h[last].next = 0 /\ last + h[last].length = e
  BY DEF EndsAt
<1>6. CASE last = b
  <2>1. a \in DOMAIN r /\ r[a].next = 0 /\ r[a].length = h[a].length + h[b].length
    BY <1>1, <1>2, <1>5, <1>6
  <2>2. a + r[a].length = e
    BY <1>1, <1>2, <1>5, <1>6, <2>1
  <2> QED
    BY <1>4, <2>1, <2>2 DEF EndsAt
<1>7. CASE last # b
  <2>1. last # a
    BY <1>1, <1>5
  <2>2. last \in DOMAIN r /\ r[last].next = 0 /\ r[last].length = h[last].length
    BY <1>2, <1>5, <1>7, <2>1
  <2> QED
    BY <1>4, <1>5, <2>2 DEF EndsAt
<1> QED
  BY <1>6, <1>7

\* glue_chunk leaves the end of the list where it was.
LEMMA GlueTight ==
    ASSUME NEW max \in Nat, max < WORD, Tiled(hdr, max), Isolated(hdr, 0), Owned(hdr, live),
           Headed(hdr), NEW e, EndsAt(hdr, e),
           NEW p \in DOMAIN live, NEW c, c = p - HDR, LinkTrue(hdr, c)
    PROVE  Headed(GluedBoth(c)) /\ EndsAt(GluedBoth(c), e)
<1> DEFINE freed == Marked(c)
           glued == Glued(c)
           blocks == Without(live, p)
           b == hdr[c].next
           a == hdr[c].prev
<1>0. freed = Marked(c) /\ blocks = Without(live, p)
  OBVIOUS
<1>1. glued = IF GluesNext(c) THEN Absorb(freed, c, b) ELSE freed
  BY DEF Glued, Marked
<1>2. GluedBoth(c) = IF GluesPrev(c) THEN Absorb(glued, a, c) ELSE glued
  BY DEF GluedBoth
<1> HIDE DEF freed, glued, blocks
<1>3. /\ Tiled(freed, max) /\ c \in DOMAIN hdr /\ DOMAIN freed = DOMAIN hdr
      /\ \A d \in DOMAIN hdr : freed[d].next = hdr[d].next /\ freed[d].prev = hdr[d].prev
  <2>1. Loose(freed, c, max, blocks)
    BY <1>0, FreedGood
  <2>2. c \in DOMAIN hdr /\ DOMAIN freed = DOMAIN hdr
    BY <1>0, FreedGood
  <2>3. \A d \in DOMAIN hdr : freed[d].next = hdr[d].next
    BY <1>0, FreedGood
  <2>4. \A d \in DOMAIN hdr : freed[d].prev = hdr[d].prev
    BY <1>0, FreedGood
  <2> QED
    BY <2>1, <2>2, <2>3, <2>4 DEF Loose
<1>4. /\ \A d \in DOMAIN hdr : d \in Nat /\ d # 0 /\ hdr[d] \in Header
      /\ \A d \in DOMAIN hdr : hdr[d].next # 0 => hdr[d].next \in DOMAIN hdr /\ d < hdr[d].next
  BY Chunks
<1>5. \A d \in DOMAIN hdr : freed[d].length = hdr[d].length
  BY <1>0, FreedGood
<1>6. Headed(freed) /\ EndsAt(freed, e)
  BY <1>3, <1>5 DEF Headed, EndsAt
<1>7. a # 0 => a \in DOMAIN hdr /\ hdr[a].next = c /\ a < c
  BY <1>3, <1>4 DEF LinkTrue
<1>8. /\ Tiled(glued, max) /\ Headed(glued) /\ EndsAt(glued, e) /\ c \in DOMAIN glued
      /\ a # 0 => a \in DOMAIN glued /\ glued[a].next = c
  <2>1. CASE GluesNext(c)
    <3>1. b \in DOMAIN freed /\ c < b /\ freed[c].next = b /\ c \in DOMAIN freed
      BY <1>3, <1>4, <2>1 DEF GluesNext
    <3>2. glued = Absorb(freed, c, b)
      BY <1>1, <2>1
    <3> HIDE DEF a, b
    <3>3. c \in DOMAIN glued
          /\ \A d \in DOMAIN freed \ {c, b} : d \in DOMAIN glued /\ glued[d].next = freed[d].next
      BY <1>3, <3>1, <3>2, AbsorbOthers
    <3>4. Tiled(glued, max)
      BY <1>3, <3>1, <3>2, AbsorbTiled
    <3>5. Headed(glued) /\ EndsAt(glued, e)
      BY <1>3, <1>6, <3>1, <3>2, AbsorbTight
    <3>6. a # 0 => a \in DOMAIN glued /\ glued[a].next = c
      <4> SUFFICES ASSUME a # 0 PROVE a \in DOMAIN glued /\ glued[a].next = c
        OBVIOUS
      <4>1. a \in DOMAIN freed /\ freed[a].next = c /\ a < c /\ a \in Nat /\ c \in Nat
        BY <1>3, <1>4, <1>7
      <4>2. b \in Nat /\ a # b /\ a # c
        BY <1>3, <1>4, <3>1, <4>1
      <4> QED
        BY <3>3, <4>1, <4>2
    <3> QED
      BY <3>3, <3>4, <3>5, <3>6
  <2>2. CASE ~GluesNext(c)
    BY <1>1, <1>3, <1>6, <1>7, <2>2
  <2> QED
    BY <2>1, <2>2
<1>9. CASE GluesPrev(c)
  <2>1. a # 0 /\ GluedBoth(c) = Absorb(glued, a, c)
    BY <1>2, <1>9 DEF GluesPrev
  <2> HIDE DEF a
  <2> QED
    BY <1>8, <2>1, AbsorbTight
<1>10. CASE ~GluesPrev(c)
  BY <1>2, <1>8, <1>10
<1> QED
  BY <1>9, <1>10

\* free_chunk takes the last chunk off: the list ends where it began.
LEMMA UnlinkedTight ==
    ASSUME NEW h, NEW max \in Nat, Tiled(h, max), Headed(h),
           NEW c \in DOMAIN h, h[c].next = 0, LinkTrue(h, c),
           NEW r, r = Unlinked(h, c), h[c].prev = 0 => DOMAIN r = {}
    PROVE  Headed(r) /\ EndsAt(r, c)
<1>1. /\ \A d \in DOMAIN h : d \in Nat /\ d # 0 /\ h[d] \in Header
      /\ \A d \in DOMAIN h : h[d].next # 0 => h[d].next = d + h[d].length
  BY Chunks
<1>2. CASE h[c].prev = 0
  BY <1>2 DEF LinkTrue, EndsAt, Headed
<1>3. CASE h[c].prev # 0
  <2> PICK q : q = h[c].prev
    OBVIOUS
  <2>1. q \in DOMAIN h /\ h[q].next = c /\ q # c /\ q + h[q].length = c
    BY <1>1, <1>3 DEF LinkTrue
  <2>2. r = Without([h EXCEPT ![q].next = 0], c)
    BY <1>3 DEF Unlinked
  <2>3. /\ DOMAIN r = DOMAIN h \ {c}
        /\ \A d \in DOMAIN r : r[d] = IF d = q THEN [h[q] EXCEPT !.next = 0] ELSE h[d]
    BY <2>2 DEF Without
  <2>4. \A d \in DOMAIN r : r[d].length = h[d].length /\ r[d].prev = h[d].prev
    BY <1>1, <2>1, <2>3 DEF Header
  <2>5. q \in DOMAIN r /\ r[q].next = 0
    BY <1>1, <2>1, <2>3 DEF Header
  <2> QED
    BY <2>1, <2>3, <2>4, <2>5 DEF Headed, EndsAt
<1> QED
  BY <1>2, <1>3

\* kmalloc appends a chunk of length l.
LEMMA AppendTight ==
    ASSUME NEW h, NEW max \in Nat, Tiled(h, max), Headed(h),
           NEW c \in Nat, NEW l \in Nat, NEW q \in Nat, HDR <= l, q < WORD,
           \A d \in DOMAIN h : d # c,
           NEW r, r = Put(IF q = 0 THEN h ELSE [h EXCEPT ![q].next = c], c,
                          [prev |-> q, next |-> 0, allocated |-> TRUE, length |-> l])
    PROVE  Headed(r) /\ EndsAt(r, c + l)
<1> DEFINE new == [prev |-> q, next |-> 0, allocated |-> TRUE, length |-> l]
           g == IF q = 0 THEN h ELSE [h EXCEPT ![q].next = c]
<1>1. \A d \in DOMAIN h : h[d] \in Header
  BY Chunks
<1>2. /\ DOMAIN g = DOMAIN h
      /\ \A d \in DOMAIN h : g[d].length = h[d].length /\ g[d].prev = h[d].prev
  <2>1. DOMAIN g = DOMAIN h
    OBVIOUS
  <2>2. \A d \in DOMAIN h : g[d] = h[d] \/ g[d] = [h[d] EXCEPT !.next = c]
    OBVIOUS
  <2> HIDE DEF g
  <2> QED
    BY <1>1, <2>1, <2>2 DEF Header
<1>3. new.prev = q /\ new.next = 0 /\ new.length = l
  OBVIOUS
<1> HIDE DEF new, g
<1>4. DOMAIN r = DOMAIN h \cup {c} /\ \A d \in DOMAIN r : r[d] = IF d = c THEN new ELSE g[d]
  BY <1>2 DEF Put, new, g
<1>5. Headed(r)
  <2> SUFFICES ASSUME NEW d \in DOMAIN r PROVE HDR <= r[d].length /\ r[d].prev < WORD
    BY DEF Headed
  <2>1. CASE d = c
    BY <1>3, <1>4, <2>1
  <2>2. CASE d # c
    <3>1. d \in DOMAIN h /\ r[d] = g[d]
      BY <1>4, <2>2
    <3> QED
      BY <1>2, <3>1 DEF Headed
  <2> QED
    BY <2>1, <2>2
<1> QED
  BY <1>3, <1>4, <1>5 DEF EndsAt

\* The end of a list is where its last chunk ends.
LEMMA EndUnique ==
    ASSUME NEW h, NEW max \in Nat, Tiled(h, max), NEW e, EndsAt(h, e)
    PROVE  \A q \in DOMAIN h : h[q].next = 0 => e = q + h[q].length
<1> SUFFICES ASSUME NEW q \in DOMAIN h, h[q].next = 0 PROVE e = q + h[q].length
  OBVIOUS
<1>1. PICK last \in DOMAIN h : h[last].next = 0 /\ last + h[last].length = e
  BY DEF EndsAt
<1>2. q \in Nat /\ last \in Nat /\ q <= last /\ last <= q
  BY <1>1, Chunks
<1>3. q = last
  BY <1>2
<1> QED
  BY <1>1, <1>3
-----------------------------------------------------------------------------
(* The invariant under the steps of kmalloc and kfree. *)

Inv == HeapInv /\ MemInv /\ TightInv

\* Every byte of the heap below heap_max is mapped.
LEMMA BytesMapped ==
    ASSUME HeapInv, MemInv, NEW a \in Nat, HEAP_START <= a, a < heap_max
    PROVE  /\ a % WORD = a /\ Walk(a % WORD) # 0
           /\ PageOf(a) \in HeapPages /\ PageOf(a) <= a
<1>1. /\ heap_max \in Nat /\ heap_max < WORD /\ WORD \in Nat \ {0}
      /\ HEAP_START \in Nat /\ HEAP_START % PAGE_SIZE = 0 /\ PAGE_SIZE \in Nat
  BY Constants, HeapAssumption DEF HeapInv, HeapBounds, HeapAssumption
<1>2. a % WORD = a
  BY <1>1
<1> DEFINE b == PageOf(a)
<1>3. b \in Nat /\ b % PAGE_SIZE = 0 /\ b <= a /\ a < b + PAGE_SIZE /\ Walk(a) = Walk(b)
  BY WalkPage
<1> HIDE DEF b
<1>4. HEAP_START <= b
  <2> SUFFICES ASSUME b < HEAP_START PROVE FALSE
    BY <1>1, <1>3
  <2>1. b + PAGE_SIZE <= HEAP_START
    BY <1>1, <1>3, PageGap
  <2> QED
    BY <1>1, <1>3, <2>1
<1>5. b \in HeapPages /\ b < heap_max
  BY <1>1, <1>3, <1>4, HeapPage
<1>6. Walk(b) # 0
  BY <1>5 DEF MemInv, HeapMapped
<1> QED
  BY <1>2, <1>3, <1>5, <1>6 DEF b

\* So is every header, of a chunk or of one about to be written.
LEMMA BelowMapped ==
    ASSUME HeapInv, MemInv, NEW c \in Nat, HEAP_START <= c, c + HDR <= heap_max
    PROVE  HeaderMapped(c)
<1> SUFFICES ASSUME NEW a \in c..c + HDR - 1 PROVE Walk(a % WORD) # 0
  BY DEF HeaderMapped
<1>1. heap_max \in Nat /\ HDR \in Nat /\ HEAP_START \in Nat
  BY Constants DEF HeapInv, HeapBounds
<1>2. a \in Nat /\ HEAP_START <= a /\ a < heap_max
  BY <1>1
<1> QED
  BY <1>2, BytesMapped

\* The headers of the list are mapped.
LEMMA ChunkMapped ==
    ASSUME Inv, NEW c \in DOMAIN hdr
    PROVE  HeaderMapped(c)
<1>1. Tiled(hdr, heap_max) /\ heap_max \in Nat /\ HDR \in Nat
  BY Constants DEF Inv, HeapInv, HeapBounds, ListInOrder
<1>2. /\ c \in Nat /\ HEAP_START <= c /\ hdr[c].length \in Nat /\ c + hdr[c].length <= heap_max
      /\ HDR <= hdr[c].length
  BY <1>1, Chunks DEF Inv, TightInv, Headed
<1>3. c + HDR <= heap_max
  BY <1>1, <1>2
<1> QED
  BY <1>2, <1>3, BelowMapped DEF Inv

\* The shorthand of the proofs below.
LEMMA ListFacts ==
    ASSUME HeapInv
    PROVE  /\ heap_max \in Nat /\ heap_max < WORD /\ HEAP_START <= heap_max
           /\ WORD \in Nat \ {0} /\ HDR \in Nat \ {0} /\ PAGE_SIZE \in Nat \ {0}
           /\ HEAP_START \in Nat \ {0}
           /\ Tiled(hdr, heap_max) /\ Isolated(hdr, 0) /\ Owned(hdr, live)
BY Constants DEF HeapInv, HeapBounds, ListInOrder

\* Nothing changes in the list, and the call stops.
LEMMA StopTight ==
    ASSUME TightInv, hdr' = hdr, pc' \in {"panic", "fault", "wild"}
    PROVE  TightInv'
BY DEF TightInv, Headed, PagesTight

\* The list and the end of the heap stay; the call walks, or is over.
LEMMA SameTight ==
    ASSUME TightInv, pc \in {"idle", "walk"}, pc' \in {"idle", "walk"},
           hdr' = hdr, heap_max' = heap_max
    PROVE  TightInv'
BY DEF TightInv, Headed, PagesTight, EndsAt

\* kmalloc splits a chunk before the last.
LEMMA WalkFitTight ==
    ASSUME HeapInv, TightInv, WalkFit
    PROVE  TightInv'
<1>1. /\ pc = "walk" /\ pc' = "idle" /\ cur \in DOMAIN hdr /\ Fits(cur)
      /\ hdr' = split_chunk(cur) /\ heap_max' = heap_max
  BY DEF WalkFit, Touch, Return
<1>2. PICK n \in Sizes : len = n + HDR
  BY <1>1 DEF HeapInv, WalkInList, Requested
<1>3. n \in Nat
  BY Constants
<1>4. PICK e \in HEAP_START..heap_max : EndsAt(hdr, e) /\ heap_max < e + PAGE_SIZE
  BY <1>1 DEF TightInv, PagesTight
<1>5. ~hdr[cur].allocated /\ len <= hdr[cur].length
  <2>1. len \in Nat /\ hdr[cur].length \in Nat
    BY <1>1, <1>2, <1>3, ListFacts, Chunks
  <2> QED
    BY <1>1, <2>1 DEF Fits
<1>6. Headed(hdr') /\ EndsAt(hdr', e)
  <2>1. Headed(hdr)
    BY DEF TightInv
  <2> QED
    BY <1>1, <1>2, <1>3, <1>4, <1>5, <2>1, ListFacts, SplitTight
<1>7. PagesTight'
  BY <1>1, <1>4, <1>6 DEF PagesTight
<1> QED
  BY <1>6, <1>7 DEF TightInv

\* The new chunk starts where the last one ends.
LEMMA WalkEndTight ==
    ASSUME HeapInv, TightInv, WalkEnd
    PROVE  TightInv'
<1>1. /\ pc = "walk" /\ pc' = "grow" /\ hdr' = hdr /\ heap_max' = heap_max /\ len' = len
  BY DEF WalkEnd
<1>2. PICK e \in HEAP_START..heap_max : EndsAt(hdr, e) /\ heap_max < e + PAGE_SIZE
  BY <1>1 DEF TightInv, PagesTight
<1>3. GrowAtEnd'
  BY WalkEndInv DEF HeapInv
<1>4. IF prev' = 0 THEN DOMAIN hdr = {} /\ cur' = HEAP_START
      ELSE prev' \in DOMAIN hdr /\ hdr[prev'].next = 0 /\ cur' = prev' + hdr[prev'].length
  BY <1>1, <1>3 DEF GrowAtEnd
<1>5. cur' = e
  <2>1. CASE prev' = 0
    BY <1>2, <1>4, <2>1 DEF EndsAt
  <2>2. CASE prev' # 0
    BY <1>2, <1>4, <2>2, ListFacts, EndUnique
  <2> QED
    BY <2>1, <2>2
<1>6. len \in Nat
  BY <1>1, Constants DEF HeapInv, WalkInList, Requested
<1>7. heap_max < cur' + len' + PAGE_SIZE
  BY <1>1, <1>2, <1>5, <1>6, ListFacts
<1>8. PagesTight'
  BY <1>1, <1>7 DEF PagesTight
<1> QED
  BY <1>1, <1>8 DEF TightInv, Headed

\* alloc_chunk's len, and the end of its chunk, which does not wrap around.
LEMMA GrowEnd ==
    ASSUME HeapInv, pc \in {"grow", "map"}
    PROVE  /\ \E n \in Sizes : n \in Nat /\ len = n + HDR
           /\ len \in Nat /\ HDR <= len /\ cur \in Nat /\ HEAP_START <= cur
           /\ cur + len < WORD /\ Add(cur, len) = cur + len
<1>1. PICK n \in Sizes : len = n + HDR
  BY DEF HeapInv, GrowAtEnd, Requested
<1>2. n \in Nat /\ heap_max + n + HDR < WORD
  BY Room DEF HeapInv
<1>3. cur \in Nat /\ cur <= heap_max
  BY DEF HeapInv, GrowAtEnd
<1>4. HEAP_START <= cur
  <2>1. CASE prev = 0
    BY <2>1, ListFacts DEF HeapInv, GrowAtEnd
  <2>2. CASE prev # 0
    <3>1. prev \in DOMAIN hdr /\ cur = prev + hdr[prev].length
      BY <2>2 DEF HeapInv, GrowAtEnd
    <3>2. prev \in Nat /\ HEAP_START <= prev /\ hdr[prev].length \in Nat
      BY <3>1, ListFacts, Chunks
    <3> QED
      BY <3>1, <3>2, ListFacts
  <2> QED
    BY <2>1, <2>2
<1>5. len \in Nat /\ HDR <= len /\ cur + len < WORD
  BY <1>1, <1>2, <1>3, ListFacts
<1> QED
  BY <1>1, <1>2, <1>3, <1>4, <1>5, AddSmall

\* alloc_chunk only takes a frame for a page the chunk reaches into.
LEMMA GrowFrameTight ==
    ASSUME HeapInv, TightInv, GrowFrame
    PROVE  TightInv'
<1>1. /\ pc = "grow" /\ NeedsPage /\ pc' \in {"map", "panic"}
      /\ hdr' = hdr /\ heap_max' = heap_max /\ len' = len /\ cur' = cur
  BY DEF GrowFrame, listVars
<1>2. heap_max < cur + len
  BY <1>1, GrowEnd, ListFacts DEF NeedsPage
<1>3. heap_max < cur + len + PAGE_SIZE
  BY <1>1 DEF TightInv, PagesTight
<1>4. PagesTight'
  BY <1>1, <1>2, <1>3 DEF PagesTight
<1> QED
  BY <1>1, <1>4 DEF TightInv, Headed

\* The page of that frame becomes the last of the heap.
LEMMA GrowMapTight ==
    ASSUME HeapInv, MemInv, TightInv, GrowMap
    PROVE  TightInv'
<1>1. pc = "map" /\ hdr' = hdr /\ len' = len /\ cur' = cur
  BY DEF GrowMap, listVars
<1>2. CASE pc' \in {"panic", "fault"}
  BY <1>1, <1>2, StopTight
<1>3. CASE heap_max' = Add(heap_max, PAGE_SIZE) /\ pc' = "grow"
  <2>1. heap_max' = heap_max + PAGE_SIZE
    BY <1>1, <1>3, GrowRoom
  <2>2. heap_max < cur + len
    BY <1>1 DEF TightInv, PagesTight
  <2>3. heap_max' < cur + len + PAGE_SIZE
    BY <1>1, <2>1, <2>2, GrowEnd, ListFacts
  <2>4. PagesTight'
    BY <1>1, <1>3, <2>3 DEF PagesTight
  <2> QED
    BY <1>1, <2>4 DEF TightInv, Headed
<1> QED
  BY <1>2, <1>3 DEF GrowMap

\* What GrowDone writes: no chunk of the list starts at cur.
LEMMA GrowDoneFacts ==
    ASSUME HeapInv, GrowDone
    PROVE  /\ pc = "grow" /\ cur + len <= heap_max /\ \A d \in DOMAIN hdr : d # cur
           /\ heap_max' = heap_max /\ prev \in Nat /\ prev < WORD
           /\ \/ pc' = "fault" /\ ~HeaderMapped(cur) /\ UNCHANGED <<hdr, regVars, live>>
              \/ /\ pc' = "idle" /\ Hand(cur) /\ LengthField(len) = len
                 /\ hdr' = Put(IF prev = 0 THEN hdr ELSE [hdr EXCEPT ![prev].next = cur], cur,
                               [prev |-> prev, next |-> 0, allocated |-> TRUE, length |-> len])
<1>1. pc = "grow" /\ ~NeedsPage /\ heap_max' = heap_max
  BY DEF GrowDone
<1>2. cur + len <= heap_max
  BY <1>1, GrowEnd, ListFacts DEF NeedsPage
<1>3. /\ \A d \in DOMAIN hdr : d # cur
      /\ prev \in Nat /\ prev < WORD
  <2>1. CASE prev = 0
    BY <1>1, <2>1, ListFacts DEF HeapInv, GrowAtEnd
  <2>2. CASE prev # 0
    <3>1. prev \in DOMAIN hdr /\ hdr[prev].next = 0 /\ cur = prev + hdr[prev].length
      BY <1>1, <2>2 DEF HeapInv, GrowAtEnd
    <3>2. /\ prev \in Nat /\ hdr[prev].length \in Nat /\ hdr[prev].length > 0
          /\ prev + hdr[prev].length <= heap_max
          /\ \A d \in DOMAIN hdr : d \in Nat /\ d <= prev
      BY <3>1, ListFacts, Chunks
    <3> QED
      BY <3>1, <3>2, ListFacts
  <2> QED
    BY <2>1, <2>2
<1>4. LengthField(len) = len
  <2>1. HEAP_START + len < WORD /\ len \in Nat
    BY <1>1, GrowEnd, ListFacts
  <2> QED
    BY <2>1, LengthFits
<1>5. \/ pc' = "fault" /\ ~HeaderMapped(cur) /\ UNCHANGED <<hdr, regVars, live>>
      \/ /\ pc' = "idle" /\ Hand(cur)
         /\ hdr' = Put(IF prev = 0 THEN hdr ELSE [hdr EXCEPT ![prev].next = cur], cur,
                       [prev |-> prev, next |-> 0, allocated |-> TRUE, length |-> len])
  BY <1>4 DEF GrowDone, Return
<1> QED
  BY <1>1, <1>2, <1>3, <1>4, <1>5

\* The heap ends in the page in which the new chunk ends.
LEMMA GrowDoneTight ==
    ASSUME HeapInv, TightInv, GrowDone
    PROVE  TightInv'
<1>1. pc = "grow" /\ cur + len <= heap_max /\ heap_max' = heap_max
  BY GrowDoneFacts
<1>2. CASE pc' = "fault" /\ hdr' = hdr
  BY <1>2, StopTight
<1>3. CASE /\ pc' = "idle"
           /\ hdr' = Put(IF prev = 0 THEN hdr ELSE [hdr EXCEPT ![prev].next = cur], cur,
                         [prev |-> prev, next |-> 0, allocated |-> TRUE, length |-> len])
  <2>1. cur \in Nat /\ len \in Nat /\ HDR <= len
    BY <1>1, GrowEnd
  <2>2. Headed(hdr') /\ EndsAt(hdr', cur + len)
    BY <1>3, <2>1, AppendTight, ListFacts, GrowDoneFacts DEF TightInv
  <2>3. cur + len \in HEAP_START..heap_max' /\ heap_max' < (cur + len) + PAGE_SIZE
    BY <1>1, GrowEnd, ListFacts DEF TightInv, PagesTight
  <2>4. PagesTight'
    BY <1>3, <2>2, <2>3 DEF PagesTight
  <2> QED
    BY <2>2, <2>4 DEF TightInv
<1> QED
  BY <1>2, <1>3, GrowDoneFacts

\* The steps of kfree, with the addresses as numbers.
LEMMA KfreeFacts ==
    ASSUME HeapInv, NEW p \in DOMAIN live, CarefulKfree(p),
           NEW c, c = p - HDR, NEW h, h = GluedBoth(c), NEW k, k = FreedChunk(c)
    PROVE  /\ pc = "idle" /\ c \in DOMAIN hdr /\ LinkTrue(hdr, c)
           /\ Loose(h, k, heap_max, Without(live, p)) /\ PrevUsed(h, k)
           /\ \/ StopOnBadTouch(Near(c))
              \/ Touch(Near(c)) /\ StopOnBadTouch(Far(c))
              \/ /\ IF h[k].next # 0
                    THEN hdr' = h /\ UNCHANGED <<heap_first, pc, cur>>
                    ELSE /\ hdr' = Unlinked(h, k)
                         /\ heap_first' = IF h[k].prev = 0 THEN 0 ELSE heap_first
                         /\ cur' = k /\ pc' = "shrink"
                 /\ live' = Without(live, p)
                 /\ UNCHANGED <<pmmVars, tableVars, heap_max, len, prev, page>>
<1>1. c \in DOMAIN hdr /\ p \in Nat
  BY ListFacts DEF Owned
<1>2. Sub(p, HDR) = c
  <2>1. c \in Nat /\ c + hdr[c].length <= heap_max /\ hdr[c].length \in Nat
        /\ live[p] \in Nat /\ live[p] + HDR <= hdr[c].length
    BY <1>1, ListFacts, Chunks DEF Owned
  <2>2. p < WORD /\ HDR <= p
    BY <1>1, <2>1, ListFacts
  <2> QED
    BY <1>1, <2>2, ListFacts, SubSmall
<1>3. pc = "idle" /\ BackLinkTrue(c) /\ Kfree(p)
  BY <1>2 DEF CarefulKfree, Kfree
<1>4. LinkTrue(hdr, c)
  <2>1. heap_first = HEAP_START
    BY <1>1 DEF HeapInv, FirstKnown
  <2> QED
    BY <1>3, <2>1 DEF BackLinkTrue, LinkTrue
<1>5. Loose(h, k, heap_max, Without(live, p)) /\ PrevUsed(h, k)
  BY <1>4, ListFacts, GlueGood
<1>6. \/ StopOnBadTouch(Near(c))
      \/ Touch(Near(c)) /\ StopOnBadTouch(Far(c))
      \/ /\ IF h[k].next # 0
            THEN hdr' = h /\ UNCHANGED <<heap_first, pc, cur>>
            ELSE /\ hdr' = Unlinked(h, k)
                 /\ heap_first' = IF h[k].prev = 0 THEN 0 ELSE heap_first
                 /\ cur' = k /\ pc' = "shrink"
         /\ live' = Without(live, p)
         /\ UNCHANGED <<pmmVars, tableVars, heap_max, len, prev, page>>
  BY <1>2, <1>3 DEF Kfree
<1> QED
  BY <1>1, <1>3, <1>4, <1>5, <1>6

\* Merging leaves the end of the list; unlinking moves it to cur.
LEMMA KfreeTight ==
    ASSUME HeapInv, TightInv, NEW p \in DOMAIN live, CarefulKfree(p)
    PROVE  TightInv'
<1> PICK c, h, k : c = p - HDR /\ h = GluedBoth(c) /\ k = FreedChunk(c)
  OBVIOUS
<1>1. /\ pc = "idle" /\ LinkTrue(hdr, c)
      /\ Loose(h, k, heap_max, Without(live, p)) /\ PrevUsed(h, k)
      /\ \/ \E S : StopOnBadTouch(S)
         \/ /\ IF h[k].next # 0
               THEN hdr' = h /\ UNCHANGED <<heap_first, pc, cur>>
               ELSE /\ hdr' = Unlinked(h, k)
                    /\ heap_first' = IF h[k].prev = 0 THEN 0 ELSE heap_first
                    /\ cur' = k /\ pc' = "shrink"
            /\ UNCHANGED <<pmmVars, tableVars, heap_max, len, prev, page>>
  BY KfreeFacts
<1>2. PICK e \in HEAP_START..heap_max : EndsAt(hdr, e) /\ heap_max < e + PAGE_SIZE
  BY <1>1 DEF TightInv, PagesTight
<1>3. Headed(h) /\ EndsAt(h, e)
  BY <1>1, <1>2, ListFacts, GlueTight DEF TightInv
<1>4. CASE \E S : StopOnBadTouch(S)
  BY <1>4, StopTight DEF StopOnBadTouch, listVars
<1>5. CASE hdr' = h /\ pc' = pc /\ heap_max' = heap_max
  <2>1. PagesTight'
    BY <1>1, <1>2, <1>3, <1>5 DEF PagesTight
  <2> QED
    BY <1>3, <1>5, <2>1 DEF TightInv
<1>6. CASE h[k].next = 0 /\ hdr' = Unlinked(h, k) /\ cur' = k /\ pc' = "shrink"
  <2>1. /\ Tiled(h, heap_max) /\ Isolated(h, k) /\ Owned(h, Without(live, p))
        /\ k \in DOMAIN h /\ ~h[k].allocated /\ LinkTrue(h, k)
    BY <1>1 DEF Loose
  <2>2. h[k].prev = 0 => DOMAIN hdr' = {}
    BY <1>1, <1>6, <2>1, ListFacts, UnlinkedGood
  <2>3. Headed(hdr') /\ EndsAt(hdr', k)
    BY <1>3, <1>6, <2>1, <2>2, ListFacts, UnlinkedTight
  <2>4. PagesTight'
    BY <1>6, <2>3 DEF PagesTight
  <2> QED
    BY <2>3, <2>4 DEF TightInv
<1> QED
  BY <1>1, <1>4, <1>5, <1>6

\* free_chunk gives back every page behind cur.
LEMMA ShrinkTight ==
    ASSUME HeapInv, MemInv, TightInv, ShrinkPage \/ ShrinkDone
    PROVE  TightInv'
<1>1. CASE ShrinkPage
  <2>1. pc = "shrink" /\ pc' = "shrink" /\ hdr' = hdr /\ cur' = cur
    BY <1>1, ShrinkPageMemory DEF ShrinkPage, listVars, regVars
  <2> QED
    BY <2>1 DEF TightInv, Headed, PagesTight, EndsAt
<1>2. CASE ShrinkDone
  <2>1. /\ pc = "shrink" /\ pc' = "idle" /\ hdr' = hdr /\ heap_max' = heap_max
        /\ Sub(heap_max, PAGE_SIZE) < cur
        /\ cur \in Nat /\ HEAP_START <= cur /\ cur <= heap_max
    <3>1. /\ pc = "shrink" /\ pc' = "idle" /\ hdr' = hdr /\ heap_max' = heap_max
          /\ ~(Sub(heap_max, PAGE_SIZE) >= cur)
      BY <1>2 DEF ShrinkDone, Return, FreesPage, listVars
    <3>2. cur \in Nat /\ HEAP_START <= cur /\ cur <= heap_max
      BY <3>1 DEF HeapInv, ShrinkBehindList
    <3>3. Sub(heap_max, PAGE_SIZE) \in Int
      BY ListFacts DEF Sub
    <3> QED
      BY <3>1, <3>2, <3>3
  <2>2. Sub(heap_max, PAGE_SIZE) = heap_max - PAGE_SIZE
    BY Constants, ListFacts, SubSmall
  <2>3. EndsAt(hdr', cur) /\ cur \in HEAP_START..heap_max' /\ heap_max' < cur + PAGE_SIZE
    BY <2>1, <2>2, ListFacts DEF TightInv, PagesTight, EndsAt
  <2>4. PagesTight'
    BY <2>1, <2>3 DEF PagesTight
  <2> QED
    BY <2>1, <2>4 DEF TightInv, Headed
<1> QED
  BY <1>1, <1>2

\* init_pmm, init_vmm and init_heap establish the invariant.
LEMMA InitAll == Init => Inv
<1> SUFFICES ASSUME Init PROVE Inv
  OBVIOUS
<1>1. HeapInv /\ MemInv
  BY InitInv, InitMemory
<1>2. hdr = << >> /\ heap_max = HEAP_START /\ pc = "idle"
  BY DEF Init
<1>3. DOMAIN hdr = {}
  BY <1>2
<1>4. EndsAt(hdr, HEAP_START) /\ HEAP_START \in HEAP_START..heap_max
      /\ heap_max < HEAP_START + PAGE_SIZE
  BY <1>1, <1>2, <1>3, ListFacts DEF EndsAt
<1>5. Headed(hdr) /\ PagesTight
  BY <1>2, <1>3, <1>4 DEF Headed, PagesTight
<1> QED
  BY <1>1, <1>5 DEF Inv, TightInv

\* Every step of the kernel and of a careful client keeps the invariant.
LEMMA StepAll ==
    ASSUME Inv, [CarefulNext]_vars
    PROVE  Inv'
<1> USE DEF Inv
<1>1. HeapInv'
  BY StepInv
<1>2. CASE \/ \E n \in Sizes : Kmalloc(n)
           \/ \E p \in DOMAIN live : CarefulKfree(p)
           \/ WalkFit \/ WalkNext \/ WalkEnd \/ GrowDone \/ ShrinkDone
           \/ UNCHANGED vars
  <2>1. MemInv'
    BY <1>2, ListStepMemory
  <2>2. ASSUME NEW n \in Sizes, Kmalloc(n) PROVE TightInv'
    BY <2>2, SameTight DEF Kmalloc, listVars
  <2>3. ASSUME NEW p \in DOMAIN live, CarefulKfree(p) PROVE TightInv'
    BY <2>3, KfreeTight
  <2>4. ASSUME WalkNext PROVE TightInv'
    BY <2>4, SameTight, StopTight DEF WalkNext, StopOnBadTouch, listVars
  <2>5. ASSUME UNCHANGED vars PROVE TightInv'
    BY <2>5 DEF vars, listVars, regVars, TightInv, Headed, PagesTight, EndsAt
  <2> QED
    BY <1>1, <1>2, <2>1, <2>2, <2>3, <2>4, <2>5,
       WalkFitTight, WalkEndTight, GrowDoneTight, ShrinkTight
<1>3. CASE GrowFrame
  BY <1>1, <1>3, GrowFrameMemory, GrowFrameTight
<1>4. CASE GrowMap
  BY <1>1, <1>4, GrowMapMemory, GrowMapTight
<1>5. CASE ShrinkPage
  BY <1>1, <1>5, ShrinkPageMemory, ShrinkTight
<1> QED
  BY <1>2, <1>3, <1>4, <1>5 DEF CarefulNext, Step

\* The list, the pages and the frames fit together in every state.
THEOREM HeapAndMemoryInvariant == CarefulSpec => []Inv
<1>1. Init => Inv
  BY InitAll
<1>2. Inv /\ [CarefulNext]_vars => Inv'
  BY StepAll
<1> QED
  BY <1>1, <1>2, PTL DEF CarefulSpec
-----------------------------------------------------------------------------
(* The properties. *)

\* alloc_chunk and free_chunk map exactly the pages below heap_max, each to a
\* frame of its own, whatever is on the frame stack.
THEOREM HeapStaysMapped == CarefulSpec => []HeapMapped
<1>1. Inv => HeapMapped
  BY DEF Inv, MemInv
<1> QED
  BY <1>1, HeapAndMemoryInvariant, PTL

\* No call loses a frame or uses one twice: pmm_alloc_page, map, unmap and
\* pmm_free_page are always called in pairs.
THEOREM HeapKeepsFrames == CarefulSpec => []FramesPartitioned
<1>1. Inv => FramesPartitioned
  BY DEF Inv, MemInv
<1> QED
  BY <1>1, HeapAndMemoryInvariant, PTL

\* Where a live block and its header lie.
LEMMA BlockFacts ==
    ASSUME HeapInv, NEW p \in DOMAIN live
    PROVE  /\ p \in Nat /\ live[p] \in Nat /\ HEAP_START + HDR <= p
           /\ p - HDR \in DOMAIN hdr /\ hdr[p - HDR].allocated
           /\ hdr[p - HDR].length \in Nat /\ live[p] + HDR <= hdr[p - HDR].length
           /\ p + live[p] <= p - HDR + hdr[p - HDR].length
           /\ p + live[p] <= heap_max
<1>1. /\ p \in Nat /\ live[p] \in Nat /\ p - HDR \in DOMAIN hdr
      /\ hdr[p - HDR].allocated /\ live[p] + HDR <= hdr[p - HDR].length
  BY ListFacts DEF Owned
<1>2. /\ HEAP_START <= p - HDR /\ hdr[p - HDR].length \in Nat
      /\ p - HDR + hdr[p - HDR].length <= heap_max
  BY <1>1, ListFacts, Chunks
<1> DEFINE l == hdr[p - HDR].length
<1>3. l \in Nat /\ live[p] + HDR <= l /\ p - HDR + l <= heap_max
  BY <1>1, <1>2
<1> HIDE DEF l
<1>4. p + live[p] <= p - HDR + l /\ p + live[p] <= heap_max /\ HEAP_START + HDR <= p
  BY <1>1, <1>2, <1>3, ListFacts
<1> QED
  BY <1>1, <1>2, <1>4 DEF l

\* free_chunk gives no page back that holds a byte of a block.
THEOREM BlocksAlwaysMapped == CarefulSpec => []BlocksStayMapped
<1>1. Inv => BlocksStayMapped
  <2> SUFFICES ASSUME Inv, NEW p \in DOMAIN live, NEW a \in p..p + live[p] - 1
               PROVE  Walk(a % WORD) # 0
    BY DEF BlocksStayMapped
  <2>1. a \in Nat /\ HEAP_START <= a /\ a < heap_max
    BY BlockFacts, ListFacts DEF Inv
  <2> QED
    BY <2>1, BytesMapped DEF Inv
<1> QED
  BY <1>1, HeapAndMemoryInvariant, PTL

\* A chunk keeps its frames, whatever page is mapped or unmapped behind it.
LEMMA BytesStay ==
    ASSUME HeapInv, MemInv, NEW c \in DOMAIN hdr,
           \A va \in HeapPages : va < c + hdr[c].length => Walk(va)' = Walk(va)
    PROVE  \A a \in c..c + hdr[c].length - 1 : Walk(a % WORD)' = Walk(a % WORD)
<1> SUFFICES ASSUME NEW a \in c..c + hdr[c].length - 1
             PROVE  Walk(a % WORD)' = Walk(a % WORD)
  OBVIOUS
<1>0. c \in Nat /\ hdr[c].length \in Nat /\ HEAP_START <= c /\ c + hdr[c].length <= heap_max
  BY ListFacts, Chunks
<1>1. a \in Nat /\ HEAP_START <= a /\ a < heap_max /\ a < c + hdr[c].length
  BY <1>0, ListFacts
<1>2. a % WORD = a /\ PageOf(a) \in HeapPages /\ PageOf(a) <= a
  BY <1>1, BytesMapped
<1>3. PageOf(a) \in Nat
  BY <1>2, HeapPage
<1>4. Walk(PageOf(a))' = Walk(PageOf(a))
  BY <1>0, <1>1, <1>2, <1>3
<1>5. PGD_INDEX(PageOf(a)) = PGD_INDEX(a) /\ PTE_INDEX(PageOf(a)) = PTE_INDEX(a)
  BY <1>1, WalkPage
<1>6. Walk(a)' = Walk(a)
  BY <1>4, <1>5 DEF Walk
<1> QED
  BY <1>2, <1>6

\* In the list r, chunk c of the list h is in use as before.
KeptIn(r, h, c) == c \in DOMAIN r /\ r[c].allocated /\ r[c].length = h[c].length

\* A merge of two other chunks keeps it.
LEMMA AbsorbKeeps ==
    ASSUME NEW h, NEW max \in Nat, max < WORD, Tiled(h, max),
           NEW a \in DOMAIN h, NEW b \in DOMAIN h, h[a].next = b,
           NEW c \in DOMAIN h, h[c].allocated, c # a, c # b
    PROVE  KeptIn(Absorb(h, a, b), h, c)
<1> DEFINE r == Absorb(h, a, b)
<1>1. /\ DOMAIN r = DOMAIN h \ {b}
      /\ \A d \in DOMAIN r :
            /\ r[d].allocated = h[d].allocated
            /\ r[d].length = (IF d = a THEN h[a].length + h[b].length ELSE h[d].length)
  BY AbsorbFacts
<1> QED
  BY <1>1 DEF KeptIn

\* glue_chunk keeps every chunk in use but the freed one.
LEMMA GlueKeeps ==
    ASSUME NEW max \in Nat, max < WORD, Tiled(hdr, max), Isolated(hdr, 0), Owned(hdr, live),
           NEW p \in DOMAIN live, NEW c, c = p - HDR, LinkTrue(hdr, c),
           NEW d \in DOMAIN hdr, hdr[d].allocated, d # c
    PROVE  KeptIn(GluedBoth(c), hdr, d)
<1> DEFINE freed == Marked(c)
           glued == Glued(c)
           b == hdr[c].next
           a == hdr[c].prev
<1>0. freed = Marked(c)
  OBVIOUS
<1>1. glued = IF GluesNext(c) THEN Absorb(freed, c, b) ELSE freed
  BY DEF Glued, Marked
<1>2. GluedBoth(c) = IF GluesPrev(c) THEN Absorb(glued, a, c) ELSE glued
  BY DEF GluedBoth
<1> HIDE DEF freed, glued
<1>3. /\ Tiled(freed, max) /\ c \in DOMAIN hdr /\ DOMAIN freed = DOMAIN hdr
      /\ KeptIn(freed, hdr, d)
      /\ \A e \in DOMAIN hdr : freed[e].next = hdr[e].next
  <2>1. Loose(freed, c, max, Without(live, p)) /\ c \in DOMAIN hdr /\ DOMAIN freed = DOMAIN hdr
    BY <1>0, FreedGood
  <2>2. \A e \in DOMAIN hdr : /\ freed[e].next = hdr[e].next /\ freed[e].length = hdr[e].length
                              /\ e # c => freed[e].allocated = hdr[e].allocated
    BY <1>0, FreedGood
  <2> QED
    BY <2>1, <2>2 DEF Loose, KeptIn
<1>4. /\ \A e \in DOMAIN hdr : e \in Nat /\ e # 0
      /\ \A e \in DOMAIN hdr : hdr[e].next # 0 => hdr[e].next \in DOMAIN hdr /\ e < hdr[e].next
  BY Chunks
<1>5. a # 0 => a \in DOMAIN hdr /\ hdr[a].next = c /\ a < c
  BY <1>3, <1>4 DEF LinkTrue
<1>6. /\ Tiled(glued, max) /\ KeptIn(glued, hdr, d) /\ c \in DOMAIN glued
      /\ a # 0 => a \in DOMAIN glued /\ glued[a].next = c
  <2>1. CASE GluesNext(c)
    <3>1. b \in DOMAIN freed /\ c < b /\ freed[c].next = b /\ c \in DOMAIN freed /\ d # b
      BY <1>3, <1>4, <2>1 DEF GluesNext
    <3>2. glued = Absorb(freed, c, b)
      BY <1>1, <2>1
    <3> HIDE DEF a, b
    <3>3. c \in DOMAIN glued
          /\ \A e \in DOMAIN freed \ {c, b} : e \in DOMAIN glued /\ glued[e].next = freed[e].next
      BY <1>3, <3>1, <3>2, AbsorbOthers
    <3>4. Tiled(glued, max)
      BY <1>3, <3>1, <3>2, AbsorbTiled
    <3>5. KeptIn(glued, freed, d)
      BY <1>3, <3>1, <3>2, AbsorbKeeps DEF KeptIn
    <3>6. a # 0 => a \in DOMAIN glued /\ glued[a].next = c
      <4> SUFFICES ASSUME a # 0 PROVE a \in DOMAIN glued /\ glued[a].next = c
        OBVIOUS
      <4>1. a \in DOMAIN freed /\ freed[a].next = c /\ a < c /\ a \in Nat /\ c \in Nat
        BY <1>3, <1>4, <1>5
      <4>2. b \in Nat /\ a # b /\ a # c
        BY <1>3, <1>4, <3>1, <4>1
      <4> QED
        BY <3>3, <4>1, <4>2
    <3> QED
      BY <1>3, <3>3, <3>4, <3>5, <3>6 DEF KeptIn
  <2>2. CASE ~GluesNext(c)
    BY <1>1, <1>3, <1>5, <2>2
  <2> QED
    BY <2>1, <2>2
<1>7. CASE GluesPrev(c)
  <2>1. a # 0 /\ GluedBoth(c) = Absorb(glued, a, c) /\ d # a
    BY <1>2, <1>5, <1>7 DEF GluesPrev
  <2> HIDE DEF a
  <2>2. KeptIn(GluedBoth(c), glued, d)
    BY <1>6, <2>1, AbsorbKeeps DEF KeptIn
  <2> QED
    BY <1>6, <2>2 DEF KeptIn
<1>8. CASE ~GluesPrev(c)
  BY <1>2, <1>6, <1>8
<1> QED
  BY <1>7, <1>8

\* free_chunk only takes a free chunk off the list.
LEMMA UnlinkedKeeps ==
    ASSUME NEW h, NEW max \in Nat, Tiled(h, max),
           NEW k \in DOMAIN h, LinkTrue(h, k), NEW d \in DOMAIN h, h[d].allocated, d # k
    PROVE  KeptIn(Unlinked(h, k), h, d)
<1>1. h[d] \in Header
  BY Chunks
<1>2. CASE h[k].prev = 0
  BY <1>2 DEF Unlinked, Without, KeptIn
<1>3. CASE h[k].prev # 0
  <2> PICK q : q = h[k].prev
    OBVIOUS
  <2>1. Unlinked(h, k) = Without([h EXCEPT ![q].next = 0], k)
    BY <1>3 DEF Unlinked
  <2>2. d \in DOMAIN Unlinked(h, k)
        /\ Unlinked(h, k)[d] = IF d = q THEN [h[d] EXCEPT !.next = 0] ELSE h[d]
    BY <2>1 DEF Without
  <2> QED
    BY <1>1, <2>2 DEF KeptIn, Header
<1> QED
  BY <1>2, <1>3

\* split_chunk keeps every other chunk.
LEMMA SplitKeeps ==
    ASSUME HeapInv, TightInv, WalkFit, NEW d \in DOMAIN hdr, hdr[d].allocated
    PROVE  KeptIn(hdr', hdr, d)
<1>1. cur \in DOMAIN hdr /\ Fits(cur) /\ hdr' = split_chunk(cur) /\ pc = "walk"
  BY DEF WalkFit, Touch
<1>2. PICK n \in Sizes : n \in Nat /\ len = n + HDR
  BY <1>1, Constants DEF HeapInv, WalkInList, Requested
<1>3. /\ d \in Nat /\ cur \in Nat /\ hdr[cur].length \in Nat
      /\ cur + hdr[cur].length <= heap_max /\ hdr[cur].length >= len
      /\ cur < d => cur + hdr[cur].length <= d
      /\ d # cur
  BY <1>1, ListFacts, Chunks DEF Fits
<1>4. /\ RestStart(cur) = cur + len
      /\ Sub(hdr[cur].length, len) = hdr[cur].length - len
  <2>1. len \in Nat /\ cur + len < WORD /\ hdr[cur].length < WORD
    BY <1>2, <1>3, ListFacts
  <2> QED
    BY <1>3, <2>1, AddSmall, SubSmall DEF RestStart
<1>5. PICK x, y, z : \/ hdr' = Put([hdr EXCEPT ![cur] = x], y, z) /\ d # y
                     \/ hdr' = [hdr EXCEPT ![cur] = x]
  <2>1. CASE hdr[cur].length - len > HDR
    <3>1. d # cur + len
      BY <1>2, <1>3, <2>1, ListFacts
    <3> QED
      BY <1>1, <1>4, <2>1, <3>1 DEF split_chunk
  <2>2. CASE ~(hdr[cur].length - len > HDR)
    BY <1>1, <1>4, <2>2 DEF split_chunk
  <2> QED
    BY <2>1, <2>2
<1> QED
  BY <1>3, <1>5 DEF KeptIn, Put

\* A chunk appended to the list keeps those before it.
LEMMA AppendKeeps ==
    ASSUME HeapInv, GrowDone, NEW d \in DOMAIN hdr, hdr[d].allocated
    PROVE  KeptIn(hdr', hdr, d)
<1>1. hdr[d] \in Header /\ d # cur
  BY GrowDoneFacts, ListFacts, Chunks
<1>2. CASE hdr' = hdr
  BY <1>2 DEF KeptIn
<1>3. ASSUME NEW v, hdr' = Put(IF prev = 0 THEN hdr ELSE [hdr EXCEPT ![prev].next = cur], cur, v)
      PROVE  KeptIn(hdr', hdr, d)
  <2>1. d \in DOMAIN hdr' /\ (hdr'[d] = hdr[d] \/ hdr'[d] = [hdr[d] EXCEPT !.next = cur])
    BY <1>1, <1>3 DEF Put
  <2> QED
    BY <1>1, <2>1 DEF KeptIn, Header
<1> QED
  BY <1>2, <1>3, GrowDoneFacts

\* kfree keeps every chunk in use but the one it is called for.
LEMMA KfreeKeeps ==
    ASSUME HeapInv, NEW q \in DOMAIN live, CarefulKfree(q),
           NEW d \in DOMAIN hdr, hdr[d].allocated, d # q - HDR \/ q \in DOMAIN live'
    PROVE  KeptIn(hdr', hdr, d)
<1> PICK c, h, k : c = q - HDR /\ h = GluedBoth(c) /\ k = FreedChunk(c)
  OBVIOUS
<1>1. /\ LinkTrue(hdr, c) /\ Loose(h, k, heap_max, Without(live, q))
      /\ \/ \E S : StopOnBadTouch(S)
         \/ /\ IF h[k].next # 0 THEN hdr' = h ELSE hdr' = Unlinked(h, k)
            /\ live' = Without(live, q)
  BY KfreeFacts
<1>2. CASE \E S : StopOnBadTouch(S)
  BY <1>2 DEF StopOnBadTouch, listVars, KeptIn
<1>3. CASE live' = Without(live, q)
  <2>1. d # c
    BY <1>3 DEF Without
  <2>2. KeptIn(h, hdr, d)
    BY <1>1, <2>1, ListFacts, GlueKeeps
  <2>3. Tiled(h, heap_max) /\ k \in DOMAIN h /\ ~h[k].allocated /\ LinkTrue(h, k)
    BY <1>1 DEF Loose
  <2>4. KeptIn(Unlinked(h, k), h, d)
    BY <2>2, <2>3, ListFacts, UnlinkedKeeps DEF KeptIn
  <2>5. CASE hdr' = h
    BY <2>2, <2>5
  <2>6. CASE hdr' = Unlinked(h, k)
    BY <2>2, <2>4, <2>6 DEF KeptIn
  <2>7. CASE \E S : StopOnBadTouch(S)
    BY <1>2, <2>7
  <2> QED
    BY <1>1, <2>5, <2>6, <2>7
<1> QED
  BY <1>1, <1>2, <1>3

\* No step changes the header of a block that stays live, nor the frames of
\* its chunk.
LEMMA StepKeepsBlocks ==
    ASSUME Inv, [CarefulNext]_vars, NEW p \in DOMAIN live \cap DOMAIN live',
           NEW c, c = p - HDR
    PROVE  /\ KeptIn(hdr', hdr, c)
           /\ \A a \in c..c + hdr[c].length - 1 : Walk(a % WORD)' = Walk(a % WORD)
<1> USE DEF Inv
<1>0. /\ p \in Nat /\ c \in DOMAIN hdr /\ hdr[c].allocated /\ c \in Nat /\ hdr[c].length \in Nat
      /\ c + hdr[c].length <= heap_max
  BY ListFacts, Chunks DEF Owned
<1>1. CASE \/ \E n \in Sizes : Kmalloc(n)
           \/ \E q \in DOMAIN live : CarefulKfree(q)
           \/ WalkFit \/ WalkNext \/ WalkEnd \/ GrowDone \/ ShrinkDone
           \/ UNCHANGED vars
  <2>1. \A va : Walk(va)' = Walk(va)
    BY <1>1, ListStepMemory
  <2>2. KeptIn(hdr', hdr, c)
    <3>1. CASE hdr' = hdr
      BY <1>0, <3>1 DEF KeptIn
    <3>2. ASSUME NEW q \in DOMAIN live, CarefulKfree(q)
          PROVE  KeptIn(hdr', hdr, c)
      <4>1. q \in Nat /\ HDR \in Nat
        BY ListFacts DEF Owned
      <4>2. c # q - HDR \/ q \in DOMAIN live'
        BY <1>0, <4>1
      <4> QED
        BY <1>0, <3>2, <4>2, KfreeKeeps
    <3>3. CASE WalkFit
      BY <1>0, <3>3, SplitKeeps
    <3>4. CASE GrowDone
      BY <1>0, <3>4, AppendKeeps
    <3>5. CASE (\E n \in Sizes : Kmalloc(n)) \/ WalkEnd \/ ShrinkDone \/ UNCHANGED vars
      BY <3>1, <3>5 DEF Kmalloc, WalkEnd, ShrinkDone, vars, listVars
    <3>6. CASE WalkNext
      BY <3>1, <3>6 DEF WalkNext, StopOnBadTouch, listVars
    <3> QED
      BY <1>1, <3>2, <3>3, <3>4, <3>5, <3>6
  <2> QED
    BY <2>1, <2>2
<1>2. CASE GrowFrame
  <2>1. hdr' = hdr /\ \A va : Walk(va)' = Walk(va)
    BY <1>2, GrowFrameMemory DEF GrowFrame, listVars
  <2> QED
    BY <1>0, <2>1 DEF KeptIn
<1>3. CASE GrowMap
  <2>1. \A va \in HeapPages : va \in Nat /\ (va < heap_max => Walk(va)' = Walk(va))
    BY <1>3, GrowMapMemory, HeapPage
  <2>2. \A va \in HeapPages : va < c + hdr[c].length => Walk(va)' = Walk(va)
    BY <1>0, <2>1, ListFacts
  <2>3. hdr' = hdr
    BY <1>3 DEF GrowMap, listVars
  <2> QED
    BY <1>0, <2>2, <2>3, BytesStay DEF KeptIn
<1>4. CASE ShrinkPage
  <2>1. hdr' = hdr /\ pc = "shrink" /\ heap_max' = Sub(heap_max, PAGE_SIZE)
        /\ Sub(heap_max, PAGE_SIZE) >= cur
    BY <1>4 DEF ShrinkPage, FreesPage, listVars
  <2>2. /\ \A va \in HeapPages : va \in Nat /\ (va < heap_max' => Walk(va)' = Walk(va))
        /\ heap_max' = heap_max - PAGE_SIZE
    BY <1>4, ShrinkPageMemory, HeapPage
  <2>3. c + hdr[c].length <= cur /\ cur \in Nat
    <3>1. Tiled(hdr, cur) /\ cur \in Nat
      BY <2>1 DEF HeapInv, ShrinkBehindList
    <3> QED
      BY <1>0, <3>1, Chunks
  <2>4. heap_max' \in Int /\ cur <= heap_max'
    BY <2>1, <2>2, <2>3, ListFacts
  <2>5. \A va \in HeapPages : va < c + hdr[c].length => Walk(va)' = Walk(va)
    BY <1>0, <2>2, <2>3, <2>4
  <2> QED
    BY <1>0, <2>1, <2>5, BytesStay DEF KeptIn
<1> QED
  BY <1>1, <1>2, <1>3, <1>4 DEF CarefulNext, Step

\* No call takes the chunk of a block somebody holds for a free one: none
\* splits it, merges it, unlinks it or changes the frames of its bytes.
THEOREM BlocksNeverMove == CarefulSpec => BlocksAreStable
<1>1. Inv /\ [CarefulNext]_vars =>
         [ \A p \in DOMAIN live \cap DOMAIN live' :
            LET c == p - HDR
            IN  /\ c \in DOMAIN hdr' /\ hdr'[c].allocated
                /\ hdr'[c].length = hdr[c].length
                /\ \A a \in c..c + hdr[c].length - 1 : Walk(a % WORD)' = Walk(a % WORD)
         ]_vars
  <2> SUFFICES ASSUME Inv, [CarefulNext]_vars, NEW p \in DOMAIN live \cap DOMAIN live',
                      NEW c, c = p - HDR
               PROVE  /\ c \in DOMAIN hdr' /\ hdr'[c].allocated
                      /\ hdr'[c].length = hdr[c].length
                      /\ \A a \in c..c + hdr[c].length - 1 : Walk(a % WORD)' = Walk(a % WORD)
    OBVIOUS
  <2> QED
    BY StepKeepsBlocks DEF KeptIn
<1> QED
  BY <1>1, HeapAndMemoryInvariant, PTL DEF CarefulSpec, BlocksAreStable
-----------------------------------------------------------------------------
(* The frame at PMM_MAX_SIZE.                                              *)

\* All frames are ones that init_pmm lets in: its loop goes on while page_addr
\* is at most PMM_MAX_SIZE, which admits one frame outside the direct map.
RamAdmitted == \A f \in Frames : f <= PMM_MAX_SIZE

\* init_pmm pushes that frame last, so alloc_chunk takes it for the first page
\* of the heap.  It is the last one free_chunk gives back, and so on top again:
\* map() never gets it for a table.
LimitInv ==
    PMM_MAX_SIZE \in Frames =>
        /\ PMM_MAX_SIZE \notin Tables
        /\ heap_max # HEAP_START => Walk(HEAP_START) = PMM_MAX_SIZE
        /\ ~Stopped /\ heap_max = HEAP_START =>
              IF pc = "map" THEN page = PMM_MAX_SIZE
              ELSE pmm_stack_top # 0 /\ pmm_stack[pmm_stack_top] = PMM_MAX_SIZE

\* The heap's first page.
LEMMA FirstPage ==
    HEAP_START \in HeapPages /\ HEAP_START \in Nat
BY Constants, HeapPage, HeapAssumption DEF HeapAssumption

LEMMA InitLimit ==
    ASSUME RamAdmitted, Init
    PROVE  LimitInv
<1> SUFFICES ASSUME PMM_MAX_SIZE \in Frames PROVE LimitInv
  BY DEF LimitInv
<1>1. PICK i \in 0..FRAME_COUNT - 1 : PMM_MAX_SIZE = FIRST_FRAME + i * PAGE_SIZE
  BY DEF Frames
<1>2. FIRST_FRAME + (FRAME_COUNT - 1) * PAGE_SIZE = PMM_MAX_SIZE
  <2> DEFINE n == FRAME_COUNT - 1
  <2>1. n \in Nat /\ i \in Nat /\ i <= n /\ n \in 0..FRAME_COUNT - 1
    BY <1>1, TableConstants
  <2> HIDE DEF n
  <2>2. FIRST_FRAME + n * PAGE_SIZE <= PMM_MAX_SIZE
    BY <2>1 DEF RamAdmitted, Frames
  <2>3. PAGE_SIZE * i <= PAGE_SIZE * n /\ PAGE_SIZE * i \in Nat /\ PAGE_SIZE * n \in Nat
    BY <2>1, TableConstants, Monotone
  <2>4. i * PAGE_SIZE = PAGE_SIZE * i /\ n * PAGE_SIZE = PAGE_SIZE * n
    BY <2>1, TableConstants
  <2>5. FIRST_FRAME + n * PAGE_SIZE = PMM_MAX_SIZE
    BY <1>1, <2>2, <2>3, <2>4, TableConstants
  <2> QED
    BY <2>5 DEF n
<1>3. pmm_stack_top = FRAME_COUNT /\ FRAME_COUNT \in 1..PAGE_MAX_SIZE
  BY TableConstants DEF Init, InitPmm, StackFilled
<1>4. pmm_stack[pmm_stack_top] = PMM_MAX_SIZE
  BY <1>2, <1>3 DEF Init, InitPmm, StackFilled
<1>5. Tables = {}
  BY Booted DEF Init
<1>6. heap_max = HEAP_START /\ pc = "idle"
  BY DEF Init
<1> QED
  BY <1>3, <1>4, <1>5, <1>6 DEF LimitInv

\* While the heap has a page, the frame at PMM_MAX_SIZE is in it.
LEMMA LimitTaken ==
    ASSUME Inv, LimitInv, PMM_MAX_SIZE \in Frames, pc = "map"
    PROVE  PMM_MAX_SIZE \notin FreeFrames
<1>1. OneUse /\ HeapMapped /\ ~Stopped /\ InFlight = {page}
  BY DEF Inv, MemInv, Stopped, InFlight
<1>2. CASE heap_max = HEAP_START
  BY <1>1, <1>2 DEF LimitInv, OneUse
<1>3. CASE heap_max # HEAP_START
  <2>1. Walk(HEAP_START) = PMM_MAX_SIZE /\ PMM_MAX_SIZE # 0
    BY <1>3, FrameFacts DEF LimitInv
  <2>2. PMM_MAX_SIZE \in MappedFrames
    BY <2>1, FirstPage DEF MappedFrames
  <2> QED
    BY <1>1, <2>2 DEF OneUse
<1> QED
  BY <1>2, <1>3

LEMMA LimitStep ==
    ASSUME Inv, LimitInv, [CarefulNext]_vars
    PROVE  LimitInv'
<1> SUFFICES ASSUME PMM_MAX_SIZE \in Frames PROVE LimitInv'
  BY DEF LimitInv
<1> PICK B : B = PMM_MAX_SIZE
  OBVIOUS
<1> USE DEF Inv
<1>0. /\ heap_max \in Nat /\ HEAP_START \in Nat /\ HEAP_START <= heap_max
      /\ HEAP_START \in HeapPages /\ PAGE_SIZE \in Nat \ {0}
  BY ListFacts, FirstPage
<1>1. /\ B \in Frames /\ B = PMM_MAX_SIZE /\ B \notin Tables
      /\ heap_max # HEAP_START => Walk(HEAP_START) = B
      /\ ~Stopped /\ heap_max = HEAP_START =>
            IF pc = "map" THEN page = B
            ELSE pmm_stack_top # 0 /\ pmm_stack[pmm_stack_top] = B
  BY DEF LimitInv
<1>2. SUFFICES /\ B \notin Tables'
               /\ heap_max' # HEAP_START => Walk(HEAP_START)' = B
               /\ ~Stopped' /\ heap_max' = HEAP_START =>
                     IF pc' = "map" THEN page' = B
                     ELSE pmm_stack_top' # 0 /\ pmm_stack'[pmm_stack_top'] = B
  BY <1>1 DEF LimitInv
<1>3. ASSUME UNCHANGED <<pmmVars, tableVars, heap_max>>, \A va : Walk(va)' = Walk(va),
             \/ Stopped'
             \/ ~Stopped /\ pc # "map" /\ pc' # "map"
             \/ ~Stopped /\ pc' = pc /\ page' = page
      PROVE  /\ B \notin Tables'
             /\ heap_max' # HEAP_START => Walk(HEAP_START)' = B
             /\ ~Stopped' /\ heap_max' = HEAP_START =>
                   IF pc' = "map" THEN page' = B
                   ELSE pmm_stack_top' # 0 /\ pmm_stack'[pmm_stack_top'] = B
  <2>1. Tables' = Tables /\ pmm_stack' = pmm_stack /\ pmm_stack_top' = pmm_stack_top
    BY <1>3 DEF Tables, tableVars, pmmVars
  <2> QED
    BY <1>1, <1>3, <2>1
<1>4. CASE \/ \E n \in Sizes : Kmalloc(n)
           \/ \E p \in DOMAIN live : CarefulKfree(p)
           \/ WalkFit \/ WalkNext \/ WalkEnd \/ GrowDone \/ ShrinkDone
           \/ UNCHANGED vars
  <2>1. UNCHANGED <<pmmVars, tableVars, heap_max>> /\ \A va : Walk(va)' = Walk(va)
    BY <1>4, ListStepMemory
  <2>2. \/ Stopped'
        \/ ~Stopped /\ pc # "map" /\ pc' # "map"
        \/ pc' = pc /\ page' = page
    <3>1. CASE \E n \in Sizes : Kmalloc(n)
      BY <3>1 DEF Kmalloc, Stopped
    <3>2. CASE \E p \in DOMAIN live : CarefulKfree(p)
      <4>1. PICK p \in DOMAIN live : Kfree(p)
        BY <3>2 DEF CarefulKfree
      <4>2. pc = "idle" /\ pc' \in {"idle", "shrink", "fault", "wild"}
        BY <4>1 DEF Kfree, StopOnBadTouch
      <4> QED
        BY <4>2 DEF Stopped
    <3>3. CASE WalkFit \/ WalkEnd \/ ShrinkDone
      BY <3>3 DEF WalkFit, WalkEnd, ShrinkDone, Return, Stopped
    <3>4. CASE WalkNext
      <4>1. pc = "walk" /\ pc' \in {"walk", "fault", "wild"}
        BY <3>4 DEF WalkNext, StopOnBadTouch
      <4> QED
        BY <4>1 DEF Stopped
    <3>5. CASE GrowDone
      <4>1. pc = "grow" /\ pc' \in {"idle", "fault"}
        BY <3>5, GrowDoneFacts
      <4> QED
        BY <4>1 DEF Stopped
    <3>6. CASE UNCHANGED vars
      BY <3>6 DEF vars, regVars
    <3> QED
      BY <1>4, <3>1, <3>2, <3>3, <3>4, <3>5, <3>6
  <2>3. pc' = pc => Stopped' = Stopped
    BY DEF Stopped
  <2> QED
    BY <1>3, <2>1, <2>2, <2>3
<1>5. CASE GrowFrame
  <2>1. pc = "grow" /\ ~Stopped /\ UNCHANGED <<tableVars, heap_max>>
        /\ \A va : Walk(va)' = Walk(va)
    BY <1>5, GrowFrameMemory DEF GrowFrame, Stopped
  <2>2. Tables' = Tables
    BY <2>1 DEF Tables, tableVars
  <2>3. CASE pc' = "map" /\ pmm_alloc_page(page')
    BY <1>1, <2>1, <2>2, <2>3 DEF pmm_alloc_page
  <2>4. CASE pc' = "panic"
    BY <1>1, <2>1, <2>2, <2>4 DEF Stopped
  <2> QED
    BY <1>5, <2>3, <2>4 DEF GrowFrame
<1>6. CASE GrowMap
  <2>1. pc = "map" /\ ~Stopped
    BY <1>6 DEF GrowMap, Stopped
  <2>2. CASE pc' \in {"panic", "fault"} /\ UNCHANGED <<pmmVars, tableVars, heap_max, page>>
    <3>1. Stopped' /\ \A va : Walk(va)' = Walk(va)
      BY <2>2 DEF Stopped, Walk, tableVars
    <3> QED
      BY <1>3, <2>2, <3>1
  <2>3. CASE map(heap_max, page) /\ heap_max' = Add(heap_max, PAGE_SIZE)
    <3> PICK va, pa : va = heap_max /\ pa = page
      OBVIOUS
    <3>1. /\ heap_max' # HEAP_START /\ va \in Mappable /\ pa \in Frames /\ va \in HeapPages
      BY <1>0, <2>1, <2>3, GrowRoom, HeapPage DEF MemInv, OneUse, InFlight
    <3>2. B \notin FreeFrames
      BY <1>1, <2>1, LimitTaken
    <3>3. /\ Walk(va)' = pa
          /\ Tables' = Tables \/ \E table \in FreeFrames : Tables' = Tables \cup {table}
      <4>1. CASE MapInTable(va, pa)
        <5>1. /\ pgd[PGD_INDEX(va)] # 0 /\ pgd' = pgd
              /\ pte' = [pte EXCEPT ![pgd[PGD_INDEX(va)]][PTE_INDEX(va)] = pa]
          BY <4>1 DEF MapInTable
        <5>2. \A vb \in Mappable : Walk(vb)' = IF vb = va THEN pa ELSE Walk(vb)
          BY <3>1, <5>1, EntryWritten DEF MemInv
        <5> QED
          BY <3>1, <5>1, <5>2 DEF Tables
      <4>2. CASE MapNewTable(va, pa)
        <5>1. PICK table \in FreeFrames :
                /\ pmm_alloc_page(table)
                /\ pgd' = [pgd EXCEPT ![PGD_INDEX(va)] = table]
                /\ pte' = [pte EXCEPT ![table] = NewTable(table, va, pa)]
          BY <4>2 DEF MapNewTable
        <5>2. table \in Frames
          BY <5>1, Popped DEF MemInv
        <5>3. table \notin Tables /\ NeedsTable(va)
          BY <2>1, <4>2, <5>1 DEF MemInv, OneUse, MapNewTable
        <5>4. /\ Tables' = Tables \cup {table}
              /\ \A vb \in Mappable : Walk(vb)' = IF vb = va THEN pa ELSE Walk(vb)
          BY <3>1, <5>1, <5>2, <5>3, TableAdded DEF MemInv
        <5> QED
          BY <3>1, <5>1, <5>4
      <4> QED
        BY <2>3, <4>1, <4>2 DEF map
    <3>4. B \notin Tables'
      BY <1>1, <3>2, <3>3
    <3>5. Walk(HEAP_START)' = B
      <4>1. CASE va = HEAP_START
        BY <1>1, <2>1, <3>3, <4>1
      <4>2. CASE va # HEAP_START
        <5>1. HEAP_START < heap_max
          BY <1>0, <4>2
        <5>2. Walk(HEAP_START)' = Walk(HEAP_START)
          BY <1>0, <1>6, <5>1, GrowMapMemory
        <5> QED
          BY <1>1, <4>2, <5>2
      <4> QED
        BY <4>1, <4>2
    <3> QED
      BY <3>1, <3>4, <3>5
  <2> QED
    BY <1>6, <2>2, <2>3 DEF GrowMap
<1>7. CASE ShrinkPage
  <2>1. /\ heap_max' = heap_max - PAGE_SIZE /\ pc' = "shrink"
        /\ \A va \in HeapPages : va < heap_max' => Walk(va)' = Walk(va)
    BY <1>7, ShrinkPageMemory
  <2>2. pgd' = pgd /\ heap_max # HEAP_START
    <3>1. HeapBounds'
      BY <1>7, ShrinkPageInv DEF HeapInv
    <3> QED
      BY <1>0, <1>7, <2>1, <3>1 DEF HeapBounds, ShrinkPage, unmap
  <2>3. Tables' = Tables
    BY <2>2 DEF Tables
  <2>4. CASE heap_max' = HEAP_START
    <3>1. PICK frame \in 0..WORD - 1 : get_mapping(HEAP_START, frame) /\ pmm_free_page(frame)
      BY <1>7, <2>1, <2>4 DEF ShrinkPage
    <3>2. frame = B
      BY <1>1, <2>2, <3>1, FrameFacts DEF get_mapping
    <3>3. pmm_stack_top' # 0 /\ pmm_stack'[pmm_stack_top'] = B
      <4>1. pmm_stack_top \in 0..PAGE_MAX_SIZE /\ pmm_stack \in [1..PAGE_MAX_SIZE -> Frames \cup {0}]
            /\ PAGE_MAX_SIZE \in Nat
        BY TableConstants DEF MemInv, StackOfFrames
      <4> QED
        BY <3>1, <3>2, <4>1 DEF pmm_free_page, StackFull
    <3> QED
      BY <1>1, <2>1, <2>3, <2>4, <3>3
  <2>5. CASE heap_max' # HEAP_START
    <3>1. HEAP_START < heap_max'
      <4>1. HeapBounds'
        BY <1>7, ShrinkPageInv DEF HeapInv
      <4> QED
        BY <1>0, <2>5, <4>1 DEF HeapBounds
    <3>2. Walk(HEAP_START)' = B
      BY <1>0, <1>1, <2>1, <2>2, <3>1
    <3> QED
      BY <1>1, <2>3, <2>5, <3>2
  <2> QED
    BY <2>4, <2>5
<1> QED
  BY <1>4, <1>5, <1>6, <1>7 DEF CarefulNext, Step
-----------------------------------------------------------------------------
(* What stops the heap, and the types.                                     *)

\* kmalloc and kfree follow pointers to headers only, and all are mapped.
LEMMA Followed ==
    ASSUME Inv, NEW S, S \subseteq DOMAIN hdr
    PROVE  Touch(S) /\ ~StopOnBadTouch(S)
BY ChunkMapped DEF Touch, StopOnBadTouch

\* kmalloc only walks along headers.
LEMMA WalkFollows ==
    ASSUME HeapInv, pc = "walk", cur # 0
    PROVE  cur \in DOMAIN hdr
<1>1. CASE prev = 0
  <2>1. cur = heap_first
    BY <1>1 DEF HeapInv, WalkInList
  <2>2. DOMAIN hdr # {} /\ heap_first = HEAP_START
    BY <2>1 DEF HeapInv, FirstKnown
  <2> QED
    BY <2>1, <2>2, ListFacts DEF Tiled
<1>2. CASE prev # 0
  <2>1. prev \in DOMAIN hdr /\ hdr[prev].next = cur
    BY <1>2 DEF HeapInv, WalkInList
  <2> QED
    BY <2>1, ListFacts, Chunks
<1> QED
  BY <1>1, <1>2

\* kfree only follows links to headers when the back link it starts with is right.
LEMMA KfreeFollows ==
    ASSUME HeapInv, NEW c \in DOMAIN hdr, LinkTrue(hdr, c)
    PROVE  Near(c) \subseteq DOMAIN hdr /\ Far(c) \subseteq DOMAIN hdr
<1>1. \A d \in DOMAIN hdr : d # 0 /\ (hdr[d].next # 0 => hdr[d].next \in DOMAIN hdr)
  BY ListFacts, Chunks
<1>2. hdr[c].prev # 0 => hdr[c].prev \in DOMAIN hdr
  BY DEF LinkTrue
<1>3. Near(c) \subseteq DOMAIN hdr
  BY <1>1, <1>2 DEF Near
<1>4. GluesNext(c) => {hdr[hdr[c].next].next} \ {0} \subseteq DOMAIN hdr
  BY <1>1 DEF GluesNext
<1>5. GluesPrev(c) => {hdr[hdr[c].prev].prev} \ {0} \subseteq DOMAIN hdr
  <2> SUFFICES ASSUME GluesPrev(c), hdr[hdr[c].prev].prev # 0
               PROVE  hdr[hdr[c].prev].prev \in DOMAIN hdr
    OBVIOUS
  <2>1. PICK q \in DOMAIN hdr : q = hdr[c].prev /\ ~hdr[q].allocated /\ q # 0
    BY <1>1, <1>2 DEF GluesPrev
  <2> QED
    BY <2>1, ListFacts DEF Isolated
<1> QED
  BY <1>3, <1>4, <1>5 DEF Far

\* map() finds its tables in the direct map.
LEMMA MapWorks ==
    ASSUME RamAdmitted, Inv, LimitInv, pc = "map"
    PROVE  ~MapUnreachable(heap_max)
<1> SUFFICES ASSUME MapUnreachable(heap_max) PROVE FALSE
  OBVIOUS
<1> DEFINE table == IF NeedsTable(heap_max) THEN pmm_stack[pmm_stack_top]
                    ELSE pgd[PGD_INDEX(heap_max)]
<1>1. ~MapOutOfMemory(heap_max) /\ ~Reachable(table)
  BY DEF MapUnreachable
<1>2. StackOfFrames /\ Directory /\ TablesKept
  BY DEF Inv, MemInv
<1>3. table \in Frames /\ table # PMM_MAX_SIZE
  <2>1. CASE NeedsTable(heap_max)
    <3>1. pmm_stack_top # 0
      BY <1>1, <2>1 DEF MapOutOfMemory, OutOfMemory
    <3>2. pmm_stack_top \in 1..pmm_stack_top
      BY <1>2, <3>1, TableConstants DEF StackOfFrames
    <3>3. pmm_stack[pmm_stack_top] \in Frames /\ pmm_stack[pmm_stack_top] \in FreeFrames
      BY <1>2, <3>2 DEF StackOfFrames, FreeFrames
    <3> QED
      BY <2>1, <3>3, LimitTaken
  <2>2. CASE ~NeedsTable(heap_max)
    <3>1. heap_max \in Mappable
      BY GrowRoom, HeapPage DEF Inv
    <3>2. pgd[PGD_INDEX(heap_max)] \in Frames /\ PGD_INDEX(heap_max) \in Dir
      BY <1>2, <2>2, <3>1, MappedWalk DEF NeedsTable
    <3>3. pgd[PGD_INDEX(heap_max)] \in Tables
      BY <1>2, <3>2, FrameFacts DEF Directory, Tables
    <3> QED
      BY <2>2, <3>2, <3>3 DEF LimitInv
  <2> QED
    BY <2>1, <2>2
<1> HIDE DEF table
<1>4. table < PMM_MAX_SIZE
  <2>1. table \in Nat /\ table <= PMM_MAX_SIZE /\ PMM_MAX_SIZE \in Nat
    BY <1>3, FrameFacts, TableConstants DEF RamAdmitted
  <2> QED
    BY <1>3, <2>1
<1> QED
  BY <1>1, <1>2, <1>3, <1>4, FrameReachable

\* Only an empty frame stack stops the heap.
LEMMA StopStep ==
    ASSUME RamAdmitted, Inv, LimitInv, OnlyOutOfMemoryStops, [CarefulNext]_vars
    PROVE  OnlyOutOfMemoryStops'
<1> USE DEF Inv, OnlyOutOfMemoryStops
<1>1. ASSUME NEW n \in Sizes, Kmalloc(n) PROVE pc' = "walk"
  BY <1>1 DEF Kmalloc
<1>2. ASSUME NEW p \in DOMAIN live, CarefulKfree(p) PROVE pc' \in {"idle", "shrink"}
  <2> PICK c, h, k : c = p - HDR /\ h = GluedBoth(c) /\ k = FreedChunk(c)
    OBVIOUS
  <2>1. /\ pc = "idle" /\ c \in DOMAIN hdr /\ LinkTrue(hdr, c)
        /\ \/ StopOnBadTouch(Near(c)) \/ StopOnBadTouch(Far(c))
           \/ pc' = pc \/ pc' = "shrink"
    BY <1>2, KfreeFacts
  <2>2. ~StopOnBadTouch(Near(c)) /\ ~StopOnBadTouch(Far(c))
    BY <2>1, KfreeFollows, Followed
  <2> QED
    BY <2>1, <2>2
<1>3. CASE WalkFit \/ ShrinkDone
  BY <1>3 DEF WalkFit, ShrinkDone, Return
<1>4. ASSUME WalkNext PROVE pc' = "walk"
  <2>1. pc = "walk" /\ cur # 0 /\ (pc' = pc \/ StopOnBadTouch({cur}))
    BY <1>4 DEF WalkNext
  <2>2. {cur} \subseteq DOMAIN hdr
    BY <2>1, WalkFollows
  <2> QED
    BY <2>1, <2>2, Followed
<1>5. CASE WalkEnd
  BY <1>5 DEF WalkEnd
<1>6. CASE GrowFrame
  BY <1>6 DEF GrowFrame, OutOfMemory, pmmVars
<1>7. CASE GrowMap
  <2>1. ~MapUnreachable(heap_max)
    BY <1>7, MapWorks DEF GrowMap
  <2> QED
    BY <1>7, <2>1 DEF GrowMap, MapOutOfMemory, OutOfMemory, pmmVars
<1>8. ASSUME GrowDone PROVE pc' = "idle"
  <2>1. pc = "grow" /\ cur + len <= heap_max
    BY <1>8, GrowDoneFacts
  <2>2. cur \in Nat /\ HEAP_START <= cur /\ cur + HDR <= heap_max
    BY <2>1, GrowEnd, ListFacts
  <2>3. HeaderMapped(cur)
    BY <2>2, BelowMapped
  <2> QED
    BY <1>8, <2>3, GrowDoneFacts
<1>9. ASSUME ShrinkPage PROVE pc' = "shrink"
  BY <1>9, ShrinkPageMemory
<1>10. CASE UNCHANGED vars
  BY <1>10 DEF vars, OutOfMemory, pmmVars
<1> QED
  BY <1>1, <1>2, <1>3, <1>4, <1>5, <1>6, <1>7, <1>8, <1>9, <1>10 DEF CarefulNext, Step

\* With all the memory that init_pmm lets in, no call follows a bad pointer or
\* writes where nothing is mapped, the stack has room for every frame given
\* back, and only the assertion of pmm_alloc_page can stop the heap.
THEOREM OnlyMemoryRunsOut ==
    ASSUME RamAdmitted
    PROVE  CarefulSpec => []OnlyOutOfMemoryStops
<1> DEFINE Safe == Inv /\ LimitInv /\ OnlyOutOfMemoryStops
<1>1. Init => Safe
  BY InitAll, InitLimit DEF Init, OnlyOutOfMemoryStops
<1>2. Safe /\ [CarefulNext]_vars => Safe'
  BY StepAll, LimitStep, StopStep
<1>3. Safe => OnlyOutOfMemoryStops
  OBVIOUS
<1> HIDE DEF Safe
<1> QED
  BY <1>1, <1>2, <1>3, PTL DEF CarefulSpec

\* The registers are words.
Words ==
    /\ heap_first \in 0..WORD - 1 /\ len \in 0..WORD - 1 /\ cur \in 0..WORD - 1
    /\ prev \in 0..WORD - 1 /\ page \in 0..WORD - 1
    /\ pc \in {"idle", "walk", "grow", "map", "shrink", "panic", "fault", "wild"}

\* Frames and page tables have addresses.
LEMMA FramesAreWords ==
    ASSUME RamAdmitted
    PROVE  Frames \cup KernTables \cup {0} \subseteq 0..WORD - 1
<1>1. PMM_MAX_SIZE < WORD /\ WORD \in Nat /\ PMM_MAX_SIZE \in Nat /\ 0 < WORD
  BY TableConstants, TableAssumption DEF TableAssumption
<1>2. \A f \in Frames : f \in 0..WORD - 1
  <2> TAKE f \in Frames
  <2>1. f \in Nat /\ f <= PMM_MAX_SIZE
    BY FrameFacts DEF RamAdmitted
  <2> QED
    BY <1>1, <2>1
<1>3. \A t \in KernTables : t \in 0..WORD - 1
  <2> TAKE t \in KernTables
  <2>1. PICK j \in 0..PTE_COUNT - 1 : t = KernTable(j)
    BY DEF KernTables
  <2>2. t \in Nat
    BY FrameFacts
  <2>3. /\ j \in Nat /\ PTE_COUNT \in Nat /\ j <= PTE_COUNT /\ PTE_KERN \in Nat
        /\ PAGE_SIZE \in Nat /\ FIRST_FRAME \in Nat
    BY TableConstants
  <2>4. PAGE_SIZE * j <= PAGE_SIZE * PTE_COUNT /\ PAGE_SIZE * j \in Nat
        /\ PAGE_SIZE * PTE_COUNT \in Nat
    BY <2>3, Monotone
  <2>5. KernTable(j) <= KernTable(PTE_COUNT)
    BY <2>3, <2>4 DEF KernTable
  <2>6. KernTable(PTE_COUNT) <= FIRST_FRAME /\ KernTable(PTE_COUNT) \in Int
    BY <2>3, <2>4, TableAssumption DEF TableAssumption, KernTable
  <2>7. FIRST_FRAME \in Frames
    <3>1. 0 \in 0..FRAME_COUNT - 1 /\ FIRST_FRAME + 0 * PAGE_SIZE = FIRST_FRAME
      BY <2>3, TableConstants
    <3> QED
      BY <3>1 DEF Frames
  <2>8. FIRST_FRAME < WORD
    BY <1>1, <1>2, <2>3, <2>7
  <2> QED
    BY <1>1, <2>1, <2>2, <2>3, <2>5, <2>6, <2>8
<1> QED
  BY <1>1, <1>2, <1>3

\* uint32_t arithmetic yields words.
LEMMA WordResults ==
    ASSUME NEW a \in Int, NEW b \in Int
    PROVE  Add(a, b) \in 0..WORD - 1 /\ Sub(a, b) \in 0..WORD - 1
<1>1. \A n \in Int : n % WORD \in 0..WORD - 1
  BY Constants
<1> QED
  BY <1>1 DEF Add, Sub

\* The code only stores words in its registers.
LEMMA WordsStep ==
    ASSUME RamAdmitted, Inv, Words, [CarefulNext]_vars
    PROVE  Words'
<1> USE DEF Inv
<1>1. /\ WORD \in Nat /\ HEAP_START \in 0..WORD - 1 /\ 0 \in 0..WORD - 1 /\ HDR \in Nat
      /\ Sizes \subseteq Nat
  BY Constants
<1>2. \A c \in DOMAIN hdr : /\ c \in 0..WORD - 1 /\ hdr[c].length \in Nat
                            /\ hdr[c].next \in 0..WORD - 1
  <2> TAKE c \in DOMAIN hdr
  <2>1. \A d \in DOMAIN hdr : d \in 0..WORD - 1 /\ hdr[d].length \in Nat
    BY ListFacts, Chunks
  <2> QED
    BY <1>1, <2>1, ListFacts, Chunks
<1> USE DEF Words
<1>3. ASSUME NEW n \in Sizes, Kmalloc(n) PROVE Words'
  <2>1. n \in Int /\ HDR \in Int
    BY <1>1
  <2>2. Add(n, HDR) \in 0..WORD - 1
    BY <2>1, WordResults
  <2> QED
    BY <1>1, <1>3, <2>2 DEF Kmalloc, listVars
<1>4. ASSUME NEW S, StopOnBadTouch(S) PROVE Words'
  BY <1>4 DEF StopOnBadTouch, listVars, regVars
<1>5. ASSUME NEW p \in DOMAIN live, CarefulKfree(p) PROVE Words'
  <2> PICK c, h, k : c = p - HDR /\ h = GluedBoth(c) /\ k = FreedChunk(c)
    OBVIOUS
  <2>1. /\ Loose(h, k, heap_max, Without(live, p))
        /\ \/ \E S : StopOnBadTouch(S)
           \/ UNCHANGED <<heap_first, pc, cur, len, prev, page>>
           \/ /\ heap_first' = IF h[k].prev = 0 THEN 0 ELSE heap_first
              /\ cur' = k /\ pc' = "shrink" /\ UNCHANGED <<len, prev, page>>
    BY <1>5, KfreeFacts
  <2>2. k \in DOMAIN h /\ Tiled(h, heap_max)
    BY <2>1 DEF Loose
  <2>3. k \in Nat /\ h[k].length \in Nat /\ k + h[k].length <= heap_max
    BY <2>2, ListFacts, Chunks
  <2>4. k \in 0..WORD - 1
    BY <2>3, ListFacts
  <2> QED
    BY <1>1, <1>4, <2>1, <2>4
<1>6. CASE WalkFit \/ ShrinkDone
  BY <1>1, <1>6 DEF WalkFit, ShrinkDone, Return, listVars
<1>7. CASE WalkNext
  <2>1. \/ StopOnBadTouch({cur})
        \/ /\ pc = "walk" /\ cur # 0 /\ prev' = cur /\ cur' = hdr[cur].next
           /\ UNCHANGED <<listVars, pc, len, page>>
    BY <1>7 DEF WalkNext
  <2> QED
    BY <1>2, <1>4, <2>1, WalkFollows DEF listVars
<1>8. CASE WalkEnd
  <2>1. /\ pc' = "grow" /\ len' = len /\ prev' = prev /\ page' = page
        /\ \/ /\ prev # 0 /\ cur' = Add(prev, hdr[prev].length) /\ heap_first' = heap_first
           \/ cur' = HEAP_START /\ heap_first' = HEAP_START
    BY <1>8 DEF WalkEnd
  <2>2. prev # 0 => prev \in DOMAIN hdr
    BY <1>8 DEF WalkEnd, HeapInv, WalkInList
  <2>3. prev # 0 => prev \in Int /\ hdr[prev].length \in Int
    BY <1>2, <2>2
  <2>4. prev # 0 => Add(prev, hdr[prev].length) \in 0..WORD - 1
    BY <2>3, WordResults
  <2> QED
    BY <1>1, <2>1, <2>4
<1>9. CASE GrowFrame
  <2>1. pmm_alloc_page(page') => page' \in Frames
    BY Popped DEF MemInv
  <2> QED
    BY <1>9, <2>1, FramesAreWords DEF GrowFrame, listVars
<1>10. CASE GrowMap
  BY <1>1, <1>10 DEF GrowMap, listVars
<1>11. CASE GrowDone
  BY <1>1, <1>11 DEF GrowDone, Return, regVars
<1>12. CASE ShrinkPage
  BY <1>12 DEF ShrinkPage, listVars, regVars
<1>13. CASE UNCHANGED vars
  BY <1>13 DEF vars, listVars, regVars
<1> QED
  BY <1>3, <1>4, <1>5, <1>6, <1>7, <1>8, <1>9, <1>10, <1>11, <1>12, <1>13
     DEF CarefulNext, Step

\* The types follow from the invariant when every frame is an address.
LEMMA InvTypeOK ==
    ASSUME RamAdmitted, Inv, Words
    PROVE  TypeOK
<1> USE DEF Inv
<1>1. (0..WORD - 1) \cup Frames = 0..WORD - 1 /\ Frames \cup {0} \subseteq 0..WORD - 1
  BY FramesAreWords
<1>2. pmm_stack \in [1..PAGE_MAX_SIZE -> 0..WORD - 1] /\ pmm_stack_top \in 0..PAGE_MAX_SIZE
  BY <1>1 DEF MemInv, StackOfFrames
<1>3. pgd \in [0..PGD_SIZE - 1 -> 0..WORD - 1]
  BY FramesAreWords DEF MemInv, Directory, Dir
<1>4. pte \in [KernTables \cup Frames -> [0..PTE_SIZE - 1 -> 0..WORD - 1]]
  BY <1>1 DEF MemInv, TablesKept, Slots
<1>5. DOMAIN hdr \subseteq 0..WORD - 1
  <2> SUFFICES ASSUME NEW c \in DOMAIN hdr PROVE c \in 0..WORD - 1
    OBVIOUS
  <2> QED
    BY ListFacts, Chunks
<1>6. ASSUME NEW c \in DOMAIN hdr
      PROVE  hdr[c] \in [prev : 0..WORD - 1, next : 0..WORD - 1,
                        allocated : BOOLEAN, length : 0..(WORD \div 2) - 1]
  <2>1. /\ hdr[c] \in Header /\ hdr[c].prev \in Nat /\ hdr[c].prev < WORD
        /\ hdr[c].length \in Nat /\ c + hdr[c].length <= heap_max /\ HEAP_START <= c
        /\ c \in Nat
    BY ListFacts, Chunks DEF TightInv, Headed
  <2>2. hdr[c].next \in 0..WORD - 1
    <3>1. hdr[c].next = 0 \/ hdr[c].next \in DOMAIN hdr
      BY ListFacts, Chunks
    <3> QED
      BY <1>5, <3>1, ListFacts
  <2>3. hdr[c].length \in 0..(WORD \div 2) - 1
    <3>1. WORD \div 2 \in Nat /\ WORD <= 2 * (WORD \div 2) + 1 /\ WORD <= 2 * HEAP_START
      BY Constants
    <3> QED
      BY <2>1, <3>1, ListFacts
  <2>4. hdr[c].prev \in 0..WORD - 1
    BY <2>1, ListFacts
  <2> QED
    BY <2>1, <2>2, <2>3, <2>4 DEF Header
<1>7. heap_max \in 0..WORD - 1
  BY ListFacts
<1>8. ASSUME NEW p \in DOMAIN live PROVE p \in 0..WORD - 1 /\ live[p] \in 0..WORD - 1
  BY BlockFacts, ListFacts
<1>9. {heap_first, heap_max, len, cur, prev, page} \subseteq 0..WORD - 1
  BY <1>7 DEF Words
<1> QED
  BY <1>2, <1>3, <1>4, <1>5, <1>6, <1>8, <1>9 DEF Words, TypeOK

\* Between calls the last page of the heap holds a part of the last chunk.
LEMMA InvReturned == Inv => PagesReturned
<1> SUFFICES ASSUME Inv, pc = "idle" PROVE heap_max - PAGE_SIZE < HeapEnd
  BY DEF PagesReturned
<1>1. PICK e \in HEAP_START..heap_max : EndsAt(hdr, e) /\ heap_max < e + PAGE_SIZE
  BY DEF Inv, TightInv, PagesTight
<1>2. HeapEnd = e
  <2>1. CASE DOMAIN hdr = {}
    BY <1>1, <2>1 DEF HeapEnd, EndsAt
  <2>2. CASE DOMAIN hdr # {}
    <3> DEFINE last == CHOOSE c \in DOMAIN hdr : hdr[c].next = 0
    <3>1. \E c \in DOMAIN hdr : hdr[c].next = 0
      BY <1>1, <2>2 DEF EndsAt
    <3>2. last \in DOMAIN hdr /\ hdr[last].next = 0
      BY <3>1
    <3>3. HeapEnd = last + hdr[last].length
      BY <2>2 DEF HeapEnd
    <3> HIDE DEF last
    <3>4. e = last + hdr[last].length
      BY <1>1, <3>2, ListFacts, EndUnique DEF Inv
    <3> QED
      BY <3>3, <3>4
  <2> QED
    BY <2>1, <2>2
<1> QED
  BY <1>1, <1>2, ListFacts DEF Inv

\* heap.c takes a page when the new chunk needs it and returns it when no chunk
\* does, map and unmap follow heap_max, and every frame is accounted for.
THEOREM PagesAlwaysAccounted ==
    ASSUME RamAdmitted
    PROVE  CarefulSpec => []PagesAccounted
<1> DEFINE Safe == Inv /\ Words
<1>1. Init => Safe
  BY InitAll, Constants DEF Init, Words
<1>2. Safe /\ [CarefulNext]_vars => Safe'
  BY StepAll, WordsStep
<1>3. Safe => PagesAccounted
  BY InvTypeOK, InvReturned DEF Inv, MemInv, PagesAccounted
<1> HIDE DEF Safe
<1> QED
  BY <1>1, <1>2, <1>3, PTL DEF CarefulSpec
-----------------------------------------------------------------------------
(* The kernel's own calls: test_heap() and kernel_thread().  They free the  *)
(* blocks in the order in which they got them, so no block is ever split,   *)
(* and every back link stays right.                                         *)

\* The back link of every chunk of the list h is right.
LinksTrue(h) == \A c \in DOMAIN h : LinkTrue(h, c)

\* A merge corrects the back link of the chunk behind.
LEMMA AbsorbLinks ==
    ASSUME NEW h, NEW max \in Nat, max < WORD, Tiled(h, max), LinksTrue(h),
           NEW a \in DOMAIN h, NEW b \in DOMAIN h, h[a].next = b,
           NEW r, r = Absorb(h, a, b)
    PROVE  LinksTrue(r)
<1>1. /\ a < b /\ DOMAIN r = DOMAIN h \ {b}
      /\ \A d \in DOMAIN r :
            /\ r[d].next = (IF d = a THEN h[b].next ELSE h[d].next)
            /\ r[d].prev = (IF d = h[b].next THEN a ELSE h[d].prev)
  BY AbsorbFacts
<1>2. \A d \in DOMAIN h : d \in Nat /\ d # 0
  BY Chunks
<1>3. a \in DOMAIN r
  BY <1>1, <1>2
<1> SUFFICES ASSUME NEW d \in DOMAIN r PROVE LinkTrue(r, d)
  BY DEF LinksTrue
<1>4. d \in DOMAIN h /\ d # b /\ LinkTrue(h, d)
  BY <1>1 DEF LinksTrue
<1>5. CASE d = h[b].next
  <2>1. r[d].prev = a /\ r[a].next = d
    BY <1>1, <1>3, <1>5
  <2> QED
    BY <1>2, <1>3, <2>1 DEF LinkTrue
<1>6. CASE d # h[b].next
  <2>1. r[d].prev = h[d].prev
    BY <1>1, <1>6
  <2> SUFFICES ASSUME NEW q \in DOMAIN h, q = h[d].prev, q # 0, h[q].next = d
               PROVE  q \in DOMAIN r /\ r[q].next = d
    BY <1>4, <2>1 DEF LinkTrue
  <2>2. q # b /\ q # a
    BY <1>4, <1>6
  <2> QED
    BY <1>1, <2>2
<1> QED
  BY <1>5, <1>6

\* So does glue_chunk, whichever neighbours it merges.
LEMMA GlueLinks ==
    ASSUME NEW max \in Nat, max < WORD, Tiled(hdr, max), Isolated(hdr, 0), Owned(hdr, live),
           LinksTrue(hdr), NEW p \in DOMAIN live, NEW c, c = p - HDR
    PROVE  LinksTrue(GluedBoth(c))
<1> DEFINE freed == Marked(c)
           glued == Glued(c)
           blocks == Without(live, p)
           b == hdr[c].next
           a == hdr[c].prev
<1>0. freed = Marked(c) /\ blocks = Without(live, p)
  OBVIOUS
<1>1. glued = IF GluesNext(c) THEN Absorb(freed, c, b) ELSE freed
  BY DEF Glued, Marked
<1>2. GluedBoth(c) = IF GluesPrev(c) THEN Absorb(glued, a, c) ELSE glued
  BY DEF GluedBoth
<1>3. c \in DOMAIN hdr /\ LinkTrue(hdr, c)
  BY DEF Owned, LinksTrue
<1> HIDE DEF freed, glued, blocks
<1>4. /\ Tiled(freed, max) /\ DOMAIN freed = DOMAIN hdr
      /\ \A d \in DOMAIN hdr : freed[d].next = hdr[d].next
      /\ \A d \in DOMAIN hdr : freed[d].prev = hdr[d].prev
  <2>1. Loose(freed, c, max, blocks)
    BY <1>0, <1>3, FreedGood
  <2>2. DOMAIN freed = DOMAIN hdr
    BY <1>0, <1>3, FreedGood
  <2>3. \A d \in DOMAIN hdr : freed[d].next = hdr[d].next
    BY <1>0, <1>3, FreedGood
  <2>4. \A d \in DOMAIN hdr : freed[d].prev = hdr[d].prev
    BY <1>0, <1>3, FreedGood
  <2> QED
    BY <2>1, <2>2, <2>3, <2>4 DEF Loose
<1>5. /\ \A d \in DOMAIN hdr : d \in Nat /\ d # 0
      /\ \A d \in DOMAIN hdr : hdr[d].next # 0 => hdr[d].next \in DOMAIN hdr /\ d < hdr[d].next
  BY Chunks
<1>6. LinksTrue(freed)
  BY <1>4 DEF LinksTrue, LinkTrue
<1>7. a # 0 => a \in DOMAIN hdr /\ hdr[a].next = c /\ a < c
  BY <1>3, <1>5 DEF LinkTrue
<1>8. /\ Tiled(glued, max) /\ LinksTrue(glued) /\ c \in DOMAIN glued
      /\ a # 0 => a \in DOMAIN glued /\ glued[a].next = c
  <2>1. CASE GluesNext(c)
    <3>1. b \in DOMAIN freed /\ c < b /\ freed[c].next = b /\ c \in DOMAIN freed
      BY <1>3, <1>4, <1>5, <2>1 DEF GluesNext
    <3>2. glued = Absorb(freed, c, b)
      BY <1>1, <2>1
    <3> HIDE DEF a, b
    <3>3. c \in DOMAIN glued
          /\ \A d \in DOMAIN freed \ {c, b} : d \in DOMAIN glued /\ glued[d].next = freed[d].next
      BY <1>4, <3>1, <3>2, AbsorbOthers
    <3>4. Tiled(glued, max)
      BY <1>4, <3>1, <3>2, AbsorbTiled
    <3>5. LinksTrue(glued)
      BY <1>4, <1>6, <3>1, <3>2, AbsorbLinks
    <3>6. a # 0 => a \in DOMAIN glued /\ glued[a].next = c
      <4> SUFFICES ASSUME a # 0 PROVE a \in DOMAIN glued /\ glued[a].next = c
        OBVIOUS
      <4>1. a \in DOMAIN freed /\ freed[a].next = c /\ a < c /\ a \in Nat /\ c \in Nat
        BY <1>3, <1>4, <1>5, <1>7
      <4>2. b \in Nat /\ a # b /\ a # c
        BY <1>4, <1>5, <3>1, <4>1
      <4> QED
        BY <3>3, <4>1, <4>2
    <3> QED
      BY <3>3, <3>4, <3>5, <3>6
  <2>2. CASE ~GluesNext(c)
    BY <1>1, <1>3, <1>4, <1>6, <1>7, <2>2
  <2> QED
    BY <2>1, <2>2
<1>9. CASE GluesPrev(c)
  <2>1. a # 0 /\ GluedBoth(c) = Absorb(glued, a, c)
    BY <1>2, <1>9 DEF GluesPrev
  <2> HIDE DEF a
  <2> QED
    BY <1>8, <2>1, AbsorbLinks
<1>10. CASE ~GluesPrev(c)
  BY <1>2, <1>8, <1>10
<1> QED
  BY <1>9, <1>10

\* No chunk names the last one as the chunk before it.
LEMMA UnlinkedLinks ==
    ASSUME NEW h, NEW max \in Nat, Tiled(h, max), LinksTrue(h),
           NEW c \in DOMAIN h, h[c].next = 0, NEW r, r = Unlinked(h, c)
    PROVE  LinksTrue(r)
<1>1. /\ DOMAIN r = DOMAIN h \ {c}
      /\ \A d \in DOMAIN r :
            /\ r[d].next = (IF d = h[c].prev /\ d # 0 THEN 0 ELSE h[d].next)
            /\ r[d].prev = h[d].prev
  <2>1. \A d \in DOMAIN h : h[d] \in Header /\ d # 0
    BY Chunks
  <2> QED
    BY <2>1 DEF Unlinked, Without, Header
<1>2. \A d \in DOMAIN h : d \in Nat /\ d # 0
  BY Chunks
<1> SUFFICES ASSUME NEW d \in DOMAIN r PROVE LinkTrue(r, d)
  BY DEF LinksTrue
<1>3. d \in DOMAIN h /\ d # c /\ LinkTrue(h, d) /\ LinkTrue(h, c)
  BY <1>1 DEF LinksTrue
<1> SUFFICES ASSUME NEW q \in DOMAIN h, q = h[d].prev, q # 0, h[q].next = d
             PROVE  q \in DOMAIN r /\ r[q].next = d
  BY <1>1, <1>3 DEF LinkTrue
<1>4. q # c /\ q # h[c].prev
  BY <1>2, <1>3 DEF LinkTrue
<1> QED
  BY <1>1, <1>4

\* A new chunk names the chunk that was the last one.
LEMMA AppendLinks ==
    ASSUME NEW h, NEW max \in Nat, Tiled(h, max), LinksTrue(h),
           NEW c \in Nat, c \notin DOMAIN h, NEW l, NEW q,
           IF q = 0 THEN c = HEAP_START ELSE q \in DOMAIN h /\ h[q].next = 0,
           NEW r, r = Put(IF q = 0 THEN h ELSE [h EXCEPT ![q].next = c], c,
                          [prev |-> q, next |-> 0, allocated |-> TRUE, length |-> l])
    PROVE  LinksTrue(r)
<1>1. \A d \in DOMAIN h : h[d] \in Header /\ d # 0
  BY Chunks
<1>2. /\ DOMAIN r = DOMAIN h \cup {c} /\ r[c].prev = q
      /\ \A d \in DOMAIN h : /\ r[d].prev = h[d].prev
                             /\ r[d].next = (IF d = q THEN c ELSE h[d].next)
  BY <1>1 DEF Put, Header
<1> SUFFICES ASSUME NEW d \in DOMAIN r PROVE LinkTrue(r, d)
  BY DEF LinksTrue
<1>3. CASE d = c
  <2>1. CASE q = 0
    <3>1. r[d].prev = 0 /\ d = HEAP_START
      BY <1>2, <1>3, <2>1, Zenon
    <3> QED
      BY <3>1, Zenon DEF LinkTrue
  <2>2. CASE q # 0
    <3>1. q \in DOMAIN h /\ r[d].prev = q
      BY <1>2, <1>3, <2>2, Zenon
    <3>2. q \in DOMAIN r /\ r[q].next = c
      BY <1>2, <3>1, Zenon
    <3> QED
      BY <1>3, <2>2, <3>1, <3>2, Zenon DEF LinkTrue
  <2> QED
    BY <2>1, <2>2, Zenon
<1>4. CASE d # c
  <2>1. d \in DOMAIN h /\ LinkTrue(h, d)
    BY <1>2, <1>4 DEF LinksTrue
  <2>3. r[d].prev = h[d].prev
    BY <1>2, <2>1
  <2> SUFFICES ASSUME NEW e, e \in DOMAIN h, e = h[d].prev, e # 0, h[e].next = d
               PROVE  e \in DOMAIN r /\ r[e].next = d
    BY <2>1, <2>3 DEF LinkTrue
  <2>2. e # q
    BY <1>1, <2>1
  <2> QED
    BY <1>2, <2>2
<1> QED
  BY <1>3, <1>4

-----------------------------------------------------------------------------
\* The blocks test_heap and kernel_thread got once kmalloc returns, and how many
\* of them, the first ones, test_heap freed.
Given == IF line = 9 THEN 5 ELSE IF line < 4 THEN line ELSE 4
Freed == IF line <= 4 THEN 0 ELSE IF line <= 8 THEN line - 4 ELSE 4

AllUsed(h) == \A c \in DOMAIN h : h[c].allocated

\* The line of test_heap that runs tells which call does.
Position ==
    /\ line \in 0..9 /\ addr \in Seq(Nat) /\ request \in [1..4 -> Sizes]
    /\ pc \in {"walk", "grow", "map"} => line \in (1..4) \cup {9} /\ Len(addr) = Given - 1
    /\ pc \in {"idle", "shrink"} => Len(addr) = Given
    /\ pc = "shrink" => line \in 5..8

\* The blocks that are live are among those test_heap did not free yet.
Holds == \A p \in DOMAIN live : \E i \in Freed + 1..Len(addr) : addr[i] = p

\* Blocks are freed only after all four are allocated, and the fifth is
\* allocated after all four are free: kmalloc never finds a free chunk.
ClientInv ==
    /\ LinksTrue(hdr)
    /\ Position
    /\ ~Stopped => Holds
    /\ ~Stopped /\ line \in (0..4) \cup {9} => AllUsed(hdr)

\* The chunk of a live block, as kfree computes it.
LEMMA BlockChunk ==
    ASSUME HeapInv, NEW p \in DOMAIN live
    PROVE  Sub(p, HDR) = p - HDR /\ p - HDR \in DOMAIN hdr
<1>1. p \in Nat /\ p - HDR \in DOMAIN hdr /\ live[p] \in Nat
      /\ live[p] + HDR <= hdr[p - HDR].length
  BY ListFacts DEF Owned
<1> PICK c : c = p - HDR
  OBVIOUS
<1>2. c \in Nat /\ hdr[c].length \in Nat /\ c + hdr[c].length <= heap_max
  BY <1>1, ListFacts, Chunks
<1>3. p < WORD /\ HDR <= p
  BY <1>1, <1>2, ListFacts
<1> QED
  BY <1>1, <1>3, ListFacts, SubSmall

\* What test_heap does to the heap is what a careful client does.
LEMMA TestIsCareful ==
    ASSUME HeapInv, ClientInv, TestNext
    PROVE  CarefulNext
<1>1. CASE Run
  BY <1>1 DEF Run, CarefulNext
<1>2. ASSUME line \in 0..3, Kmalloc(request[line + 1]) PROVE CarefulNext
  <2>1. request[line + 1] \in Sizes
    BY <1>2 DEF ClientInv, Position
  <2> QED
    BY <1>2, <2>1 DEF CarefulNext
<1>3. ASSUME Kmalloc(STACK_SIZE) PROVE CarefulNext
  BY <1>3, StackAssumption DEF StackAssumption, CarefulNext
<1>4. ASSUME NEW p, Kfree(p) PROVE CarefulNext
  <2>1. p \in DOMAIN live
    BY <1>4 DEF Kfree
  <2>2. Sub(p, HDR) = p - HDR /\ p - HDR \in DOMAIN hdr
    BY <2>1, BlockChunk
  <2>3. heap_first = HEAP_START
    BY <2>2 DEF HeapInv, FirstKnown
  <2>4. LinkTrue(hdr, p - HDR)
    BY <2>2 DEF ClientInv, LinksTrue
  <2>5. BackLinkTrue(Sub(p, HDR))
    BY <2>2, <2>3, <2>4 DEF BackLinkTrue, LinkTrue
  <2> QED
    BY <1>4, <2>1, <2>5 DEF CarefulNext, CarefulKfree
<1> QED
  BY <1>1, <1>2, <1>3, <1>4 DEF TestNext, Call

\* Without blocks there are no chunks: a free one would be the last.
LEMMA NothingLive ==
    ASSUME HeapInv, DOMAIN live = {}
    PROVE  DOMAIN hdr = {}
<1> SUFFICES ASSUME NEW c \in DOMAIN hdr PROVE FALSE
  OBVIOUS
<1>1. \A d \in DOMAIN hdr : ~hdr[d].allocated
  BY ListFacts DEF Owned
<1>2. hdr[c].next # 0 /\ hdr[c].next \in DOMAIN hdr
  <2>1. hdr[c].next # 0
    BY <1>1, ListFacts, Chunks DEF Isolated
  <2> QED
    BY <2>1, ListFacts, Chunks
<1>3. hdr[hdr[c].next].allocated
  <2>1. c # 0
    BY ListFacts, Chunks
  <2>2. hdr[hdr[c].next].allocated \/ hdr[c].next = 0
    BY <1>1, <2>1, ListFacts DEF Isolated
  <2> QED
    BY <1>2, <2>2
<1> QED
  BY <1>1, <1>2, <1>3

\* Every call of test_heap keeps the invariant of the client.
LEMMA KmallocClient ==
    ASSUME HeapInv, ClientInv, line' = line + 1, UNCHANGED <<request, addr>>,
           NEW n, Kmalloc(n), line \in (0..3) \cup {8}
    PROVE  ClientInv'
<1>1. pc = "idle" /\ pc' = "walk" /\ hdr' = hdr /\ live' = live
  BY DEF Kmalloc, listVars
<1>2. Holds /\ Len(addr) = Given
  BY <1>1 DEF ClientInv, Position, Stopped
<1>3. Freed' = Freed /\ Given' = Given + 1 /\ line' \in (1..4) \cup {9}
  BY DEF Freed, Given
<1>4. Position'
  <2>1. Given \in Nat
    BY DEF Given
  <2> QED
    BY <1>1, <1>2, <1>3, <2>1 DEF ClientInv, Position
<1>5. AllUsed(hdr')
  <2>1. CASE line \in 0..3
    BY <1>1, <2>1 DEF ClientInv, Stopped, AllUsed
  <2>2. CASE line = 8
    <3>1. Freed = 4 /\ Len(addr) = 4
      BY <1>2, <2>2 DEF Freed, Given
    <3>2. DOMAIN live = {}
      <4> DEFINE f == Freed
                 l == Len(addr)
      <4>1. f = 4 /\ l = 4 /\ \A p \in DOMAIN live : \E i \in f + 1..l : addr[i] = p
        BY <1>2, <3>1, Zenon DEF Holds
      <4> HIDE DEF f, l
      <4>2. \A i : i \notin f + 1..l
        BY <4>1
      <4> QED
        BY <4>1, <4>2, Zenon
    <3>3. DOMAIN hdr = {}
      BY <3>2, NothingLive
    <3> QED
      BY <1>1, <3>3 DEF AllUsed
  <2> QED
    BY <2>1, <2>2
<1> QED
  BY <1>1, <1>2, <1>3, <1>4, <1>5 DEF ClientInv, Holds

LEMMA KfreeClient ==
    ASSUME HeapInv, ClientInv, line' = line + 1, UNCHANGED <<request, addr>>,
           line \in 4..7, NEW p, p = addr[line - 3], Kfree(p)
    PROVE  ClientInv'
<1>1. p \in DOMAIN live /\ pc = "idle"
  BY DEF Kfree
<1>2. Holds /\ Len(addr) = 4 /\ Given = 4 /\ Given' = 4 /\ LinksTrue(hdr)
  BY <1>1 DEF ClientInv, Position, Stopped, Given
<1>3. Freed = line - 4 /\ Freed' = line - 3
  BY DEF Freed
<1> PICK c, h, k : c = p - HDR /\ h = GluedBoth(c) /\ k = FreedChunk(c)
  OBVIOUS
<1>4. CarefulKfree(p)
  <2>1. Sub(p, HDR) = p - HDR /\ p - HDR \in DOMAIN hdr
    BY <1>1, BlockChunk
  <2>2. heap_first = HEAP_START
    BY <2>1 DEF HeapInv, FirstKnown
  <2>3. LinkTrue(hdr, p - HDR)
    BY <1>2, <2>1 DEF LinksTrue
  <2>4. BackLinkTrue(Sub(p, HDR))
    BY <2>1, <2>2, <2>3 DEF BackLinkTrue, LinkTrue
  <2> QED
    BY <2>4 DEF CarefulKfree
<1>5. /\ Loose(h, k, heap_max, Without(live, p))
      /\ \/ \E S : StopOnBadTouch(S)
         \/ /\ IF h[k].next # 0
               THEN hdr' = h /\ pc' = pc
               ELSE hdr' = Unlinked(h, k) /\ pc' = "shrink"
            /\ live' = Without(live, p)
  BY <1>1, <1>4, KfreeFacts
<1>6. CASE \E S : StopOnBadTouch(S)
  <2>1. hdr' = hdr /\ pc' \in {"fault", "wild"}
    BY <1>6 DEF StopOnBadTouch, listVars
  <2>2. Position'
    BY <2>1 DEF ClientInv, Position
  <2> QED
    BY <1>2, <2>1, <2>2 DEF ClientInv, Stopped
<1>7. CASE /\ live' = Without(live, p) /\ pc' \in {"idle", "shrink"}
           /\ hdr' = h \/ (h[k].next = 0 /\ hdr' = Unlinked(h, k))
  <2>1. LinksTrue(h)
    BY <1>1, <1>2, ListFacts, GlueLinks
  <2>2. LinksTrue(hdr')
    <3>1. Tiled(h, heap_max) /\ k \in DOMAIN h
      BY <1>5 DEF Loose
    <3>2. ASSUME h[k].next = 0 PROVE LinksTrue(Unlinked(h, k))
      BY <2>1, <3>1, <3>2, ListFacts, UnlinkedLinks
    <3> QED
      BY <1>7, <2>1, <3>2
  <2>3. Position'
    BY <1>2, <1>7 DEF ClientInv, Position
  <2>4. Holds'
    <3> SUFFICES ASSUME NEW q \in DOMAIN live'
                 PROVE  \E i \in Freed' + 1..Len(addr') : addr'[i] = q
      BY DEF Holds
    <3>1. q \in DOMAIN live /\ q # p
      BY <1>7 DEF Without
    <3>2. PICK i \in Freed + 1..Len(addr) : addr[i] = q
      BY <1>2, <3>1 DEF Holds
    <3>3. i # line - 3
      BY <3>1, <3>2
    <3>4. i \in Freed' + 1..Len(addr')
      BY <1>2, <1>3, <3>2, <3>3
    <3> QED
      BY <3>2, <3>4
  <2>5. line' \in 5..8
    OBVIOUS
  <2> QED
    BY <2>2, <2>3, <2>4, <2>5 DEF ClientInv
<1> QED
  BY <1>1, <1>5, <1>6, <1>7

\* The steps that neither link a chunk nor hand out a block.
LEMMA QuietClient ==
    ASSUME ClientInv, UNCHANGED <<request, line, addr, hdr, live>>,
           \/ pc' \in {"panic", "fault", "wild"}
           \/ {pc, pc'} \subseteq {"walk", "grow", "map"}
           \/ pc = "shrink" /\ pc' \in {"shrink", "idle"}
    PROVE  ClientInv'
<1>1. Freed' = Freed /\ Given' = Given
  BY DEF Freed, Given
<1>2. Position'
  BY <1>1 DEF ClientInv, Position
<1>3. ~Stopped' => ~Stopped
  BY DEF Stopped
<1>4. Holds => Holds'
  BY <1>1 DEF Holds
<1> QED
  BY <1>2, <1>3, <1>4 DEF ClientInv, AllUsed, LinksTrue, LinkTrue

\* kmalloc appends a chunk and hands out its block.
LEMMA GrowDoneClient ==
    ASSUME HeapInv, ClientInv, UNCHANGED <<request, line>>,
           GrowDone, pc' = "idle",
           addr' = addr \o (IF DOMAIN live' = DOMAIN live THEN << >>
                            ELSE << CHOOSE p \in DOMAIN live' : p \notin DOMAIN live >>)
    PROVE  ClientInv'
<1>1. /\ pc = "grow" /\ cur \notin DOMAIN hdr /\ Hand(cur)
      /\ hdr' = Put(IF prev = 0 THEN hdr ELSE [hdr EXCEPT ![prev].next = cur], cur,
                    [prev |-> prev, next |-> 0, allocated |-> TRUE, length |-> len])
  BY GrowDoneFacts
<1>2. /\ line \in (1..4) \cup {9} /\ Len(addr) = Given - 1 /\ addr \in Seq(Nat)
      /\ request \in [1..4 -> Sizes] /\ Holds /\ AllUsed(hdr) /\ LinksTrue(hdr)
  BY <1>1 DEF ClientInv, Position, Stopped
<1>3. Given' = Given /\ Freed' = Freed /\ Given \in 1..5 /\ Freed \in Nat /\ Freed < Given
  BY <1>2 DEF Given, Freed
<1>4. cur \in Nat /\ cur + HDR \in Nat /\ Add(cur, HDR) = cur + HDR
  <2>1. cur \in Nat /\ len \in Nat /\ HDR <= len /\ cur + len < WORD
    BY <1>1, GrowEnd
  <2>2. cur + HDR < WORD
    BY <2>1, ListFacts
  <2> QED
    BY <2>1, <2>2, ListFacts, AddSmall
<1> PICK p : p = cur + HDR
  OBVIOUS
<1>5. p \notin DOMAIN live
  <2> SUFFICES ASSUME p \in DOMAIN live PROVE FALSE
    OBVIOUS
  <2>1. p - HDR \in DOMAIN hdr /\ p - HDR = cur
    BY <1>4, ListFacts DEF Owned
  <2> QED
    BY <1>1, <2>1
<1>6. DOMAIN live' = DOMAIN live \cup {p}
  BY <1>1, <1>4 DEF Hand, Put
<1>7. (CHOOSE q \in DOMAIN live' : q \notin DOMAIN live) = p
  BY <1>5, <1>6
<1>8. addr' = addr \o <<p>>
  BY <1>5, <1>6, <1>7
<1>9. <<p>> \in Seq(Nat) /\ Len(<<p>>) = 1 /\ <<p>>[1] = p
  BY <1>4
<1>10. addr \o <<p>> \in Seq(Nat) /\ Len(addr \o <<p>>) = Len(addr) + Len(<<p>>)
       /\ \A i \in 1..Len(addr) + Len(<<p>>) :
             (addr \o <<p>>)[i] = IF i <= Len(addr) THEN addr[i] ELSE <<p>>[i - Len(addr)]
  BY <1>2, <1>9, ConcatProperties
<1>11. /\ addr' \in Seq(Nat) /\ Len(addr') = Given /\ addr'[Given] = p
       /\ \A i \in 1..Given - 1 : addr'[i] = addr[i]
  <2>1. Len(addr) + 1 = Given /\ Given - Len(addr) = 1 /\ ~(Given <= Len(addr))
    BY <1>2, <1>3
  <2>2. addr' \in Seq(Nat) /\ Len(addr') = Given
    BY <1>8, <1>9, <1>10, <2>1
  <2>3. addr'[Given] = p
    BY <1>3, <1>8, <1>9, <1>10, <2>1
  <2>4. ASSUME NEW i \in 1..Given - 1 PROVE addr'[i] = addr[i]
    <3>1. i <= Len(addr) /\ i \in 1..Len(addr) + Len(<<p>>)
      BY <1>2, <1>3, <1>9, <2>1
    <3> QED
      BY <1>8, <1>10, <3>1
  <2> QED
    BY <2>2, <2>3, <2>4
<1>12. Position'
  BY <1>2, <1>3, <1>11 DEF Position
<1>13. Holds'
  <2> SUFFICES ASSUME NEW q \in DOMAIN live'
               PROVE  \E i \in Freed' + 1..Len(addr') : addr'[i] = q
    BY DEF Holds
  <2>1. CASE q = p
    <3>1. Given \in Freed' + 1..Len(addr')
      BY <1>3, <1>11
    <3> QED
      BY <1>11, <2>1, <3>1
  <2>2. CASE q # p
    <3>1. PICK i \in Freed + 1..Len(addr) : addr[i] = q
      BY <1>2, <1>6, <2>2 DEF Holds
    <3>2. i \in 1..Given - 1 /\ i \in Freed' + 1..Len(addr')
      BY <1>2, <1>3, <1>11, <3>1
    <3> QED
      BY <1>11, <3>1, <3>2
  <2> QED
    BY <2>1, <2>2
<1>14. LinksTrue(hdr')
  <2>1. IF prev = 0 THEN cur = HEAP_START ELSE prev \in DOMAIN hdr /\ hdr[prev].next = 0
    BY <1>1 DEF HeapInv, GrowAtEnd
  <2> QED
    BY <1>1, <1>2, <1>4, <2>1, ListFacts, AppendLinks
<1>15. AllUsed(hdr')
  <2>1. \A d \in DOMAIN hdr : hdr[d] \in Header
    BY ListFacts, Chunks
  <2> QED
    BY <1>1, <1>2, <2>1 DEF AllUsed, Put, Header
<1> QED
  BY <1>12, <1>13, <1>14, <1>15 DEF ClientInv

\* A step of the running call.
LEMMA RunClient ==
    ASSUME HeapInv, ClientInv, Run
    PROVE  ClientInv'
<1>1. Step /\ UNCHANGED <<request, line>> /\ addr \in Seq(Nat)
  BY DEF Run, ClientInv, Position
<1>2. live' = live => addr' = addr
  <2>1. addr \o << >> = addr
    BY <1>1, ConcatEmptySeq
  <2> QED
    BY <2>1 DEF Run
<1>3. CASE WalkFit
  <2>1. pc = "walk" /\ cur \in DOMAIN hdr /\ ~hdr[cur].allocated
    BY <1>3 DEF WalkFit, Touch, Fits
  <2>2. AllUsed(hdr)
    BY <2>1 DEF ClientInv, Position, Stopped
  <2> QED
    BY <2>1, <2>2 DEF AllUsed
<1>4. CASE WalkNext
  <2>1. pc = "walk" /\ hdr' = hdr /\ live' = live /\ pc' \in {"walk", "fault", "wild"}
    BY <1>4 DEF WalkNext, StopOnBadTouch, listVars
  <2> QED
    BY <1>1, <1>2, <2>1, QuietClient
<1>5. CASE WalkEnd
  <2>1. pc = "walk" /\ hdr' = hdr /\ live' = live /\ pc' = "grow"
    BY <1>5 DEF WalkEnd
  <2> QED
    BY <1>1, <1>2, <2>1, QuietClient
<1>6. CASE GrowFrame \/ GrowMap
  <2>1. /\ pc \in {"grow", "map"} /\ hdr' = hdr /\ live' = live
        /\ pc' \in {"grow", "map", "panic", "fault"}
    BY <1>6 DEF GrowFrame, GrowMap, listVars
  <2> QED
    BY <1>1, <1>2, <2>1, QuietClient
<1>7. CASE GrowDone
  <2>1. CASE pc' = "idle"
    BY <1>1, <1>7, <2>1, GrowDoneClient DEF Run
  <2>2. CASE pc' # "idle"
    <3>1. hdr' = hdr /\ live' = live /\ pc' = "fault"
      BY <1>7, <2>2, GrowDoneFacts
    <3> QED
      BY <1>1, <1>2, <3>1, QuietClient
  <2> QED
    BY <2>1, <2>2
<1>8. CASE ShrinkPage \/ ShrinkDone
  <2>1. /\ pc = "shrink" /\ hdr' = hdr /\ live' = live
        /\ pc' \in {"shrink", "idle", "panic"}
    BY <1>8 DEF ShrinkPage, ShrinkDone, Return, listVars
  <2> QED
    BY <1>1, <1>2, <2>1, QuietClient
<1> QED
  BY <1>1, <1>3, <1>4, <1>5, <1>6, <1>7, <1>8 DEF Step

LEMMA ClientStep ==
    ASSUME HeapInv, ClientInv, [TestNext]_<<vars, clientVars>>
    PROVE  ClientInv'
<1>1. CASE UNCHANGED <<vars, clientVars>>
  <2>1. UNCHANGED <<request, line, addr, hdr, live, pc>>
    BY <1>1 DEF vars, clientVars, listVars
  <2>2. Freed' = Freed /\ Given' = Given /\ Stopped' = Stopped
    BY <2>1 DEF Freed, Given, Stopped
  <2>3. Position' /\ (Holds => Holds')
    BY <2>1, <2>2 DEF ClientInv, Position, Holds
  <2> QED
    BY <2>1, <2>2, <2>3 DEF ClientInv, AllUsed, LinksTrue, LinkTrue
<1>2. CASE Run
  BY <1>2, RunClient
<1>3. CASE Call
  <2>1. line' = line + 1 /\ UNCHANGED <<request, addr>> /\ line \in 0..8
    BY <1>3 DEF Call
  <2>2. CASE line \in 0..3 /\ Kmalloc(request[line + 1])
    BY <2>1, <2>2, KmallocClient
  <2>3. CASE line \in 4..7 /\ Kfree(addr[line - 3])
    BY <2>1, <2>3, KfreeClient
  <2>4. CASE line = 8 /\ Kmalloc(STACK_SIZE)
    BY <2>1, <2>4, KmallocClient
  <2> QED
    BY <1>3, <2>2, <2>3, <2>4 DEF Call
<1> QED
  BY <1>1, <1>2, <1>3 DEF TestNext

LEMMA ClientStart == TestInit => ClientInv
<1> SUFFICES ASSUME TestInit PROVE ClientInv
  OBVIOUS
<1>1. /\ pc = "idle" /\ line = 0 /\ request \in [1..4 -> Sizes]
      /\ addr = << >> /\ hdr = << >> /\ live = << >>
  BY DEF TestInit, Init
<1>2. DOMAIN hdr = {} /\ DOMAIN live = {}
  BY <1>1
<1>3. addr \in Seq(Nat) /\ Len(addr) = 0
  BY <1>1, EmptySeq
<1>4. Position
  BY <1>1, <1>3 DEF Position, Given
<1> QED
  BY <1>2, <1>4 DEF ClientInv, LinksTrue, Holds, AllUsed

\* The heap and its client fit together in every state.
LEMMA TestInvariant == TestSpec => [](Inv /\ ClientInv)
<1>1. TestInit => Inv /\ ClientInv
  BY InitAll, ClientStart DEF TestInit
<1>2. Inv /\ ClientInv /\ [TestNext]_<<vars, clientVars>> => (Inv /\ ClientInv)'
  <2> SUFFICES ASSUME Inv, ClientInv, [TestNext]_<<vars, clientVars>>
               PROVE  Inv' /\ ClientInv'
    OBVIOUS
  <2>1. HeapInv
    BY DEF Inv
  <2>2. [CarefulNext]_vars
    BY <2>1, TestIsCareful
  <2>3. Inv'
    BY <2>2, StepAll
  <2> QED
    BY <2>1, <2>3, ClientStep
<1> QED
  BY <1>1, <1>2, PTL DEF TestSpec

\* test_heap and kernel_thread are a client for which the heap works: every
\* step is one of CarefulSpec, so they never free a block whose back link
\* split_chunk left wrong.
THEOREM KernelClientIsCareful == TestSpec => Init /\ [][CarefulNext]_vars
<1>1. TestInit => Init
  BY DEF TestInit
<1>2. Inv /\ ClientInv /\ [TestNext]_<<vars, clientVars>> => [CarefulNext]_vars
  BY TestIsCareful DEF Inv
<1> QED
  BY <1>1, <1>2, TestInvariant, PTL DEF TestSpec
-----------------------------------------------------------------------------
\* With no chunk left the heap is empty and ends where it starts.
LEMMA EmptyHeap ==
    ASSUME Inv, pc = "idle", DOMAIN hdr = {}
    PROVE  heap_first = 0 /\ heap_max = HEAP_START /\ FreeFrames = Frames \ Tables
<1>1. heap_first = 0
  BY DEF Inv, HeapInv, FirstKnown
<1>2. heap_max = HEAP_START
  <2>1. heap_max \in Nat /\ HEAP_START \in Nat /\ HEAP_START <= heap_max
        /\ heap_max % PAGE_SIZE = 0 /\ HEAP_START % PAGE_SIZE = 0 /\ PAGE_SIZE \in Nat
    BY ListFacts, HeapAssumption DEF Inv, MemInv, HeapAssumption
  <2>2. heap_max < HEAP_START + PAGE_SIZE
    BY DEF Inv, TightInv, PagesTight, EndsAt
  <2>3. HEAP_START < heap_max => HEAP_START + PAGE_SIZE <= heap_max
    BY <2>1, PageGap
  <2> QED
    BY <2>1, <2>2, <2>3
<1>3. MappedFrames = {}
  <2>1. \A va \in HeapPages : ~(va < HEAP_START)
    <3> SUFFICES ASSUME NEW va \in HeapPages PROVE ~(va < HEAP_START)
      OBVIOUS
    <3>1. va \in Nat /\ HEAP_START \in Nat /\ HEAP_START <= va
      BY HeapPage, Constants
    <3> QED
      BY <3>1
  <2>2. \A va \in HeapPages : Walk(va) = 0
    BY <1>2, <2>1 DEF Inv, MemInv, HeapMapped
  <2> QED
    BY <2>2 DEF MappedFrames
<1>4. InFlight = {} /\ ~Stopped
  BY DEF InFlight, Stopped
<1>5. FreeFrames \cup Tables = Frames /\ FreeFrames \cap Tables = {}
  BY <1>3, <1>4 DEF Inv, MemInv, FramesPartitioned, OneUse
<1> QED
  BY <1>1, <1>2, <1>5

\* After test_heap the heap is as init_heap left it, whatever the four sizes.
THEOREM TestHeapLeavesNothing == TestSpec => []TestLeavesNothing
<1>1. Inv /\ ClientInv => TestLeavesNothing
  <2> SUFFICES ASSUME Inv, ClientInv, line = 8, pc = "idle"
               PROVE  heap_first = 0 /\ heap_max = HEAP_START /\ FreeFrames = Frames \ Tables
    BY DEF TestLeavesNothing
  <2>1. Holds /\ Len(addr) = 4 /\ Freed = 4
    BY DEF ClientInv, Position, Stopped, Given, Freed
  <2>2. DOMAIN live = {}
    <3> SUFFICES ASSUME NEW p \in DOMAIN live PROVE FALSE
      OBVIOUS
    <3>1. \E i \in Freed + 1..Len(addr) : addr[i] = p
      BY <2>1 DEF Holds
    <3> QED
      BY <2>1, <3>1
  <2>3. DOMAIN hdr = {}
    BY <2>2, NothingLive DEF Inv
  <2> QED
    BY <2>3, EmptyHeap
<1> QED
  BY <1>1, TestInvariant, PTL
=============================================================================
