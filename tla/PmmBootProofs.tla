--------------------------- MODULE PmmBootProofs ---------------------------
(***************************************************************************)
(* Proofs about PmmBoot for every memory map and every page size: init_pmm *)
(* never overflows the frame stack, and no frame is handed out twice or    *)
(* lost afterwards.                                                        *)
(***************************************************************************)
EXTENDS PmmBoot, FiniteSetTheorems, TLAPS

\* While init_pmm runs the stack is the prefix of frames pushed so far, and
\* nobody has written a cell above.
BootPrefix ==
    pc \in {"scan", "push", "booted"} =>
        /\ held = {}
        /\ \A i \in 1..pmm_stack_top : pmm_stack[i] = FirstFrame + (i - 1) * PAGE_SIZE
        /\ \A i \in 1..pmm_stack_top : pmm_stack[i] <= PMM_MAX_SIZE
        /\ \A i \in 1..PAGE_MAX_SIZE : i > pmm_stack_top => pmm_stack[i] = 0

\* init_pmm pushes the frames of one region only, and page_addr is the frame
\* that comes next.
BootPosition ==
    /\ pc = "push" =>
          /\ page_addr = FirstFrame + pmm_stack_top * PAGE_SIZE
          /\ map_entry <= Len(mmap) /\ base_addr_low(mmap[map_entry]) = LOAD_BASE
    /\ pc = "scan" /\ pmm_stack_top > 0 =>
          \E k \in 1..map_entry - 1 : base_addr_low(mmap[k]) = LOAD_BASE

Inv ==
    /\ TypeOK
    /\ IsFiniteSet(held)
    /\ NoDoubleHandOut
    /\ FramesConserved
    /\ OnlyOutOfMemoryPanics
    /\ BootPrefix
    /\ BootPosition

-----------------------------------------------------------------------------
\* The constants are naturals, and the image ends below the supported maximum.
LEMMA Constants ==
    /\ PAGE_SIZE \in Nat \ {0} /\ PAGE_MAX_SIZE \in Nat \ {0}
    /\ PMM_MAX_SIZE \in Nat /\ WORD \in Nat /\ PMM_MAX_SIZE < WORD
    /\ FirstFrame \in Nat \ {0} /\ FirstFrame < PMM_MAX_SIZE
    /\ LOAD_BASE \in Nat \ {0} /\ IMAGE_SIZE \in Nat
BY PageAssumption, BootAssumption DEF PageAssumption, BootAssumption, PMM_MAX_SIZE, FirstFrame

\* The entries of a memory map are records of naturals.
LEMMA MapEntries ==
    ASSUME NEW m \in MemoryMaps
    PROVE  /\ Len(m) \in Nat /\ DOMAIN m = 1..Len(m)
           /\ \A i \in 1..Len(m) : m[i].base \in Nat /\ m[i].length \in Nat
           /\ \A i \in 1..Len(m) : base_addr_low(m[i]) \in Nat /\ length_low(m[i]) \in Nat
           /\ \A i, j \in 1..Len(m) :
                 base_addr_low(m[i]) = LOAD_BASE /\ base_addr_low(m[j]) = LOAD_BASE => i = j
<1> DEFINE Entry == [base : Nat, length : Nat, type : Nat]
<1>1. MapAssumption(m)
  BY BootAssumption DEF BootAssumption
<1>2. m \in Seq(Entry)
  BY <1>1 DEF MapAssumption
<1>3. Len(m) \in Nat /\ DOMAIN m = 1..Len(m) /\ \A i \in 1..Len(m) : m[i] \in Entry
  <2> HIDE DEF Entry
  <2> QED
    BY <1>2
<1>4. \A i \in 1..Len(m) : m[i].base \in Nat /\ m[i].length \in Nat
  BY <1>3
<1>5. \A i, j \in 1..Len(m) :
          base_addr_low(m[i]) = LOAD_BASE /\ base_addr_low(m[j]) = LOAD_BASE => i = j
  BY <1>1, <1>3 DEF MapAssumption
<1>6. \A i \in 1..Len(m) : base_addr_low(m[i]) \in Nat /\ length_low(m[i]) \in Nat
  BY <1>4, Constants DEF base_addr_low, length_low
<1> QED
  BY <1>3, <1>4, <1>5, <1>6

\* A frame that passes init_pmm's test page_addr <= PMM_MAX_SIZE still finds
\* room on the stack: the image in front of it took at least one frame's worth.
LEMMA RoomForFrame ==
    ASSUME NEW n \in Nat, FirstFrame + n * PAGE_SIZE <= PMM_MAX_SIZE
    PROVE  n < PAGE_MAX_SIZE
<1> SUFFICES ASSUME n >= PAGE_MAX_SIZE PROVE FALSE
  BY Constants
<1>1. n * PAGE_SIZE >= PAGE_MAX_SIZE * PAGE_SIZE
  BY Constants
<1> QED
  BY <1>1, Constants DEF PMM_MAX_SIZE

\* Different positions of the booted stack are different frames.
LEMMA FramesDiffer ==
    ASSUME NEW i \in Nat, NEW j \in Nat,
           FirstFrame + i * PAGE_SIZE = FirstFrame + j * PAGE_SIZE
    PROVE  i = j
<1>1. i * PAGE_SIZE = j * PAGE_SIZE
  BY Constants
<1> QED
  BY <1>1, Constants

-----------------------------------------------------------------------------
\* The kernel starts in a state that satisfies the invariant.
LEMMA InitInv == Init => Inv
<1> SUFFICES ASSUME Init PROVE Inv
  OBVIOUS
<1> USE DEF Init
<1>1. TypeOK
  BY Constants, MapEntries DEF TypeOK
<1>2. IsFiniteSet(held) /\ FramesConserved
  BY FS_EmptySet DEF FramesConserved
<1>3. NoDoubleHandOut /\ OnlyOutOfMemoryPanics
  BY DEF NoDoubleHandOut, OnlyOutOfMemoryPanics
<1>4. BootPrefix /\ BootPosition
  BY DEF BootPrefix, BootPosition
<1> QED
  BY <1>1, <1>2, <1>3, <1>4 DEF Inv

-----------------------------------------------------------------------------
(* Steps of init_pmm. *)

\* Reading an entry sets page_addr to the first frame of the region, once.
LEMMA ScanEntryInv == Inv /\ ScanEntry => Inv'
<1> SUFFICES ASSUME Inv, ScanEntry PROVE Inv'
  OBVIOUS
<1> USE DEF Inv, ScanEntry, pmmVars
<1>0. pmm_stack_top \in Nat /\ map_entry \in 1..Len(mmap) /\ mmap \in MemoryMaps
  BY MapEntries DEF TypeOK
<1>1. CASE UsableEntry(mmap[map_entry])
  <2>1. page_addr' = FirstFrame /\ base_addr_low(mmap[map_entry]) = LOAD_BASE
    BY <1>1 DEF UsableEntry, FirstFrame, FirstPage
  <2>2. TypeOK'
    <3>1. length' \in 0..WORD - 1
      <4> DEFINE end == base_addr_low(mmap[map_entry]) + length_low(mmap[map_entry])
      <4>1. end \in Nat
        BY <1>0, MapEntries
      <4>2. length' = end % WORD
        BY <1>1
      <4> HIDE DEF end
      <4> QED
        BY <4>1, <4>2, Constants
    <3> QED
      BY <1>1, <2>1, <3>1, Constants DEF TypeOK
  <2>3. pmm_stack_top = 0
    BY <1>0, <2>1, MapEntries DEF BootPosition
  <2>4. BootPosition'
    BY <1>0, <1>1, <2>1, <2>3, Constants DEF BootPosition
  <2>5. NoDoubleHandOut' /\ FramesConserved' /\ OnlyOutOfMemoryPanics' /\ BootPrefix'
    BY <1>1 DEF NoDoubleHandOut, FreeFrames, FramesConserved, OnlyOutOfMemoryPanics, BootPrefix
  <2> QED
    BY <2>2, <2>4, <2>5
<1>2. CASE ~UsableEntry(mmap[map_entry])
  <2>1. map_entry' = map_entry + 1 /\ UNCHANGED <<pmmVars, page_addr, length, pc, held, mmap, phy_page_count>>
    BY <1>2
  <2>2. TypeOK'
    BY <1>0, <2>1, MapEntries DEF TypeOK
  <2>3. BootPosition'
    <3>1. pc = "scan" /\ pc' = "scan"
      BY <2>1
    <3>2. ASSUME pmm_stack_top > 0
          PROVE  \E k \in 1..map_entry' - 1 : base_addr_low(mmap'[k]) = LOAD_BASE
      <4>1. PICK k \in 1..map_entry - 1 : base_addr_low(mmap[k]) = LOAD_BASE
        BY <3>1, <3>2 DEF BootPosition
      <4>2. k \in 1..map_entry' - 1 /\ mmap' = mmap
        BY <1>0, <2>1
      <4> QED
        BY <4>1, <4>2
    <3> QED
      BY <2>1, <3>1, <3>2 DEF BootPosition
  <2>4. NoDoubleHandOut' /\ FramesConserved' /\ OnlyOutOfMemoryPanics' /\ BootPrefix'
    BY <2>1 DEF NoDoubleHandOut, FreeFrames, FramesConserved, OnlyOutOfMemoryPanics, OutOfMemory, BootPrefix
  <2> QED
    BY <2>1, <2>2, <2>3, <2>4
<1> QED
  BY <1>1, <1>2

\* A pushed frame lies behind all frames pushed before, and there is room.
LEMMA PushFrameInv == Inv /\ PushFrame => Inv'
<1> SUFFICES ASSUME Inv, PushFrame PROVE Inv'
  OBVIOUS
<1> USE DEF Inv
<1>0. /\ pmm_stack_top \in 0..PAGE_MAX_SIZE /\ page_addr <= PMM_MAX_SIZE
      /\ page_addr = FirstFrame + pmm_stack_top * PAGE_SIZE
      /\ held = {} /\ pc = "push"
  BY DEF TypeOK, PushFrame, InRegion, BootPosition, BootPrefix
<1>1. pmm_stack_top < PAGE_MAX_SIZE
  BY <1>0, RoomForFrame, Constants
<1>2. ~StackFull
  BY <1>1, Constants DEF StackFull
<1>3. /\ pmm_stack_top' = pmm_stack_top + 1
      /\ pmm_stack' = [pmm_stack EXCEPT ![pmm_stack_top + 1] = page_addr]
      /\ page_addr' = page_addr + PAGE_SIZE
      /\ phy_page_count' = phy_page_count + 1
      /\ UNCHANGED <<mmap, map_entry, length, held, pc>>
  BY <1>2 DEF PushFrame, pmm_free_page
<1>4. TypeOK'
  <2>1. pmm_stack' \in [1..PAGE_MAX_SIZE -> 0..WORD - 1]
    BY <1>0, <1>1, <1>3, Constants DEF TypeOK
  <2>2. page_addr' \in 0..PMM_MAX_SIZE + PAGE_SIZE
    BY <1>0, <1>3, Constants DEF TypeOK
  <2>3. phy_page_count' \in 0..PAGE_MAX_SIZE
    BY <1>0, <1>1, <1>3, FS_EmptySet, Constants DEF TypeOK, FramesConserved
  <2> QED
    BY <1>0, <1>1, <1>3, <2>1, <2>2, <2>3, Constants DEF TypeOK
<1>5. BootPrefix'
  <2>1. ASSUME NEW i \in 1..pmm_stack_top'
        PROVE  /\ pmm_stack'[i] = FirstFrame + (i - 1) * PAGE_SIZE
               /\ pmm_stack'[i] <= PMM_MAX_SIZE
    <3>1. CASE i = pmm_stack_top + 1
      BY <1>0, <1>1, <1>3, <3>1, Constants DEF TypeOK
    <3>2. CASE i # pmm_stack_top + 1
      <4>1. i \in 1..pmm_stack_top /\ i \in 1..PAGE_MAX_SIZE
        BY <1>0, <1>3, <2>1, <3>2, Constants
      <4>2. pmm_stack'[i] = pmm_stack[i]
        BY <1>3, <3>2, <4>1 DEF TypeOK
      <4> QED
        BY <1>0, <4>1, <4>2 DEF BootPrefix
    <3> QED
      BY <3>1, <3>2
  <2>2. ASSUME NEW i \in 1..PAGE_MAX_SIZE, i > pmm_stack_top'
        PROVE  pmm_stack'[i] = 0
    <3>1. i # pmm_stack_top + 1 /\ i > pmm_stack_top
      BY <1>0, <1>3, <2>2, Constants
    <3>2. pmm_stack'[i] = pmm_stack[i]
      BY <1>3, <3>1 DEF TypeOK
    <3> QED
      BY <1>0, <3>1, <3>2 DEF BootPrefix
  <2> QED
    BY <1>0, <1>3, <2>1, <2>2 DEF BootPrefix
<1>6. BootPosition'
  <2>1. page_addr' = FirstFrame + pmm_stack_top' * PAGE_SIZE
    BY <1>0, <1>3, Constants
  <2> QED
    BY <1>0, <1>3, <2>1 DEF BootPosition
<1>7. NoDoubleHandOut'
  <2> SUFFICES ASSUME NEW i \in 1..pmm_stack_top', NEW j \in 1..pmm_stack_top',
                      pmm_stack'[i] = pmm_stack'[j]
               PROVE  i = j
    BY <1>0, <1>3 DEF NoDoubleHandOut
  <2>1. FirstFrame + (i - 1) * PAGE_SIZE = FirstFrame + (j - 1) * PAGE_SIZE
    BY <1>0, <1>3, <1>5 DEF BootPrefix
  <2>2. i - 1 \in Nat /\ j - 1 \in Nat
    BY <1>0, <1>3
  <2>3. i - 1 = j - 1
    BY <2>1, <2>2, FramesDiffer
  <2> QED
    BY <1>0, <1>3, <2>3
<1>8. FramesConserved' /\ OnlyOutOfMemoryPanics' /\ IsFiniteSet(held)'
  BY <1>0, <1>3, FS_EmptySet DEF FramesConserved, OnlyOutOfMemoryPanics, TypeOK
<1> QED
  BY <1>4, <1>5, <1>6, <1>7, <1>8

\* Leaving the loops changes nothing but the position.
LEMMA RegionDoneInv == Inv /\ (RegionDone \/ InitDone) => Inv'
<1> SUFFICES ASSUME Inv, RegionDone \/ InitDone PROVE Inv'
  OBVIOUS
<1> USE DEF Inv
<1>0. /\ UNCHANGED <<pmm_stack, pmm_stack_top, mmap, page_addr, length, phy_page_count, held>>
      /\ mmap \in MemoryMaps /\ map_entry \in 1..Len(mmap) + 1 /\ Len(mmap) \in Nat
  BY MapEntries DEF RegionDone, InitDone, bootVars, pmmVars, TypeOK
<1>1. TypeOK'
  BY <1>0, MapEntries DEF TypeOK, RegionDone, InitDone, BootPosition, bootVars
<1>2. BootPosition'
  BY <1>0 DEF BootPosition, RegionDone, InitDone, bootVars
<1>3. NoDoubleHandOut' /\ FramesConserved' /\ OnlyOutOfMemoryPanics' /\ BootPrefix'
  BY <1>0 DEF NoDoubleHandOut, FreeFrames, FramesConserved, OnlyOutOfMemoryPanics,
              BootPrefix, RegionDone, InitDone
<1> QED
  BY <1>0, <1>1, <1>2, <1>3

-----------------------------------------------------------------------------
(* Steps of the code that uses the frames. *)

\* A frame that is handed out leaves the stack.
LEMMA TakeFrameInv == Inv /\ TakeFrame => Inv'
<1> SUFFICES ASSUME Inv, TakeFrame PROVE Inv'
  OBVIOUS
<1> USE DEF Inv
<1>0. /\ UNCHANGED <<mmap, map_entry, page_addr, length, phy_page_count>>
      /\ pmm_stack_top \in 0..PAGE_MAX_SIZE /\ pc \in {"booted", "run"}
  BY DEF TakeFrame, bootVars, TypeOK
<1>1. CASE OutOfMemory /\ Panic /\ UNCHANGED held
  BY <1>0, <1>1 DEF Panic, pmmVars, TypeOK, NoDoubleHandOut, FreeFrames, FramesConserved,
                    OnlyOutOfMemoryPanics, OutOfMemory, BootPrefix, BootPosition
<1>2. ASSUME NEW f \in FreeFrames, pmm_alloc_page(f), held' = held \cup {f}, pc' = "run"
      PROVE  Inv'
  <2>1. /\ pmm_stack_top \in 1..PAGE_MAX_SIZE /\ f = pmm_stack[pmm_stack_top]
        /\ pmm_stack_top' = pmm_stack_top - 1 /\ pmm_stack' = pmm_stack
    BY <1>0, <1>2, Constants DEF pmm_alloc_page, OutOfMemory
  <2>2. f \in 0..WORD - 1 /\ f \notin held
    BY <1>2, <2>1 DEF TypeOK, NoDoubleHandOut
  <2>3. TypeOK'
    <3>1. held' \subseteq 0..WORD - 1
      BY <1>2, <2>2 DEF TypeOK
    <3>2. pmm_stack_top' \in 0..PAGE_MAX_SIZE
      BY <2>1, Constants
    <3>3. pc' \in {"scan", "push", "booted", "run", "panic"}
      BY <1>2
    <3> QED
      BY <1>0, <2>1, <3>1, <3>2, <3>3 DEF TypeOK
  <2>4. IsFiniteSet(held)' /\ FramesConserved'
    <3>1. Cardinality(held) \in Nat
      BY FS_CardinalityType
    <3>2. IsFiniteSet(held \cup {f}) /\ Cardinality(held \cup {f}) = Cardinality(held) + 1
      BY <2>2, FS_AddElement
    <3> QED
      BY <1>0, <1>2, <2>1, <3>1, <3>2 DEF FramesConserved
  <2>5. NoDoubleHandOut'
    <3>1. \A i \in 1..pmm_stack_top' : i \in 1..pmm_stack_top /\ i # pmm_stack_top
      BY <1>0, <2>1
    <3>2. \A i \in 1..pmm_stack_top' : pmm_stack[i] # f /\ pmm_stack[i] \notin held
      BY <2>1, <3>1 DEF NoDoubleHandOut, FreeFrames
    <3>3. FreeFrames' \cap held' = {}
      BY <1>2, <2>1, <3>2 DEF FreeFrames
    <3>4. \A i, j \in 1..pmm_stack_top' : pmm_stack'[i] = pmm_stack'[j] => i = j
      BY <2>1, <3>1 DEF NoDoubleHandOut
    <3> QED
      BY <3>3, <3>4 DEF NoDoubleHandOut
  <2>6. OnlyOutOfMemoryPanics' /\ BootPrefix' /\ BootPosition'
    BY <1>2 DEF OnlyOutOfMemoryPanics, BootPrefix, BootPosition
  <2> QED
    BY <2>3, <2>4, <2>5, <2>6
<1> QED
  BY <1>1, <1>2 DEF TakeFrame

\* A frame that comes back finds room: it was counted when it was handed out.
LEMMA ReturnFrameInv == ASSUME NEW f \in held PROVE Inv /\ ReturnFrame(f) => Inv'
<1> SUFFICES ASSUME Inv, ReturnFrame(f) PROVE Inv'
  OBVIOUS
<1> USE DEF Inv
<1>0. /\ UNCHANGED <<mmap, map_entry, page_addr, length, phy_page_count>>
      /\ pmm_stack_top \in 0..PAGE_MAX_SIZE /\ pc = "run"
      /\ f \in 0..WORD - 1 /\ phy_page_count \in 0..PAGE_MAX_SIZE
  BY DEF ReturnFrame, bootVars, TypeOK
<1>1. /\ Cardinality(held) \in Nat /\ Cardinality(held) # 0
      /\ IsFiniteSet(held \ {f}) /\ Cardinality(held \ {f}) = Cardinality(held) - 1
  BY FS_CardinalityType, FS_EmptySet, FS_RemoveElement
<1>2. pmm_stack_top < PAGE_MAX_SIZE
  BY <1>0, <1>1, Constants DEF FramesConserved
<1>3. /\ pmm_stack_top' = pmm_stack_top + 1
      /\ pmm_stack' = [pmm_stack EXCEPT ![pmm_stack_top + 1] = f]
      /\ held' = held \ {f} /\ pc' = "run"
  BY <1>0, <1>2, Constants DEF ReturnFrame, pmm_free_page, StackFull
<1>4. TypeOK'
  BY <1>0, <1>2, <1>3, Constants DEF TypeOK
<1>5. IsFiniteSet(held)' /\ FramesConserved'
  BY <1>0, <1>1, <1>3 DEF FramesConserved
<1>6. NoDoubleHandOut'
  <2>1. \A i \in 1..pmm_stack_top : pmm_stack'[i] = pmm_stack[i] /\ pmm_stack[i] # f
    BY <1>0, <1>3, Constants DEF TypeOK, NoDoubleHandOut, FreeFrames
  <2>2. pmm_stack'[pmm_stack_top + 1] = f
    BY <1>0, <1>2, <1>3, Constants DEF TypeOK
  <2>3. \A i \in 1..pmm_stack_top' : i \in 1..pmm_stack_top \/ i = pmm_stack_top + 1
    BY <1>0, <1>3
  <2>4. \A i, j \in 1..pmm_stack_top' : pmm_stack'[i] = pmm_stack'[j] => i = j
    BY <2>1, <2>2, <2>3 DEF NoDoubleHandOut
  <2>5. FreeFrames' \cap held' = {}
    BY <1>3, <2>1, <2>2, <2>3 DEF NoDoubleHandOut, FreeFrames
  <2> QED
    BY <2>4, <2>5 DEF NoDoubleHandOut
<1>7. OnlyOutOfMemoryPanics' /\ BootPrefix' /\ BootPosition'
  BY <1>3 DEF OnlyOutOfMemoryPanics, BootPrefix, BootPosition
<1> QED
  BY <1>4, <1>5, <1>6, <1>7

-----------------------------------------------------------------------------
\* Inv holds throughout.
THEOREM Invariance == Spec => []Inv
<1>1. Init => Inv
  BY InitInv
<1>2. Inv /\ [Next]_vars => Inv'
  <2> SUFFICES ASSUME Inv, [Next]_vars PROVE Inv'
    OBVIOUS
  <2>1. CASE Boot
    BY <2>1, ScanEntryInv, PushFrameInv, RegionDoneInv DEF Boot
  <2>2. CASE TakeFrame
    BY <2>2, TakeFrameInv
  <2>3. CASE \E f \in held : ReturnFrame(f)
    BY <2>3, ReturnFrameInv
  <2>4. CASE UNCHANGED vars
    BY <2>4 DEF vars, pmmVars, Inv, TypeOK, NoDoubleHandOut, FreeFrames, FramesConserved,
                OnlyOutOfMemoryPanics, OutOfMemory, BootPrefix, BootPosition
  <2> QED
    BY <2>1, <2>2, <2>3, <2>4 DEF Next
<1> QED
  BY <1>1, <1>2, PTL DEF Spec

\* Types: in particular page_addr and the stack index stay in their ranges.
THEOREM TypeCorrect == Spec => []TypeOK
<1>1. Inv => TypeOK
  BY DEF Inv
<1> QED
  BY <1>1, Invariance, PTL

\* pmm_alloc_page never returns a frame that is held, or one twice.
THEOREM NoFrameTwice == Spec => []NoDoubleHandOut
<1>1. Inv => NoDoubleHandOut
  BY DEF Inv
<1> QED
  BY <1>1, Invariance, PTL

\* Every frame counted by init_pmm is free or held.
THEOREM NoFrameLost == Spec => []FramesConserved
<1>1. Inv => FramesConserved
  BY DEF Inv
<1> QED
  BY <1>1, Invariance, PTL

\* init_pmm hands over the frames in order, as Heap and Vmm assume.
THEOREM HandsOverFrames == Spec => []BootedStack
<1>1. Inv => BootedStack
  <2> SUFFICES ASSUME Inv, pc = "booted"
               PROVE  /\ StackFilled(FirstFrame, phy_page_count)
                      /\ \A f \in FreeFrames : f <= PMM_MAX_SIZE
    BY DEF BootedStack
  <2>1. /\ held = {}
        /\ \A i \in 1..pmm_stack_top : pmm_stack[i] = FirstFrame + (i - 1) * PAGE_SIZE
        /\ \A i \in 1..pmm_stack_top : pmm_stack[i] <= PMM_MAX_SIZE
        /\ \A i \in 1..PAGE_MAX_SIZE : i > pmm_stack_top => pmm_stack[i] = 0
    BY DEF Inv, BootPrefix
  <2>2. Cardinality(held) = 0
    BY <2>1, FS_EmptySet
  <2>3. pmm_stack_top \in Nat /\ pmm_stack_top = phy_page_count
    BY <2>2, Constants DEF Inv, TypeOK, FramesConserved
  <2>4. pmm_stack = [i \in 1..PAGE_MAX_SIZE |->
                       IF i <= phy_page_count THEN FirstFrame + (i - 1) * PAGE_SIZE ELSE 0]
    <3>1. DOMAIN pmm_stack = 1..PAGE_MAX_SIZE
          /\ pmm_stack = [i \in 1..PAGE_MAX_SIZE |-> pmm_stack[i]]
      BY DEF Inv, TypeOK
    <3>2. ASSUME NEW i \in 1..PAGE_MAX_SIZE
          PROVE  pmm_stack[i] = IF i <= phy_page_count THEN FirstFrame + (i - 1) * PAGE_SIZE ELSE 0
      <4>1. CASE i <= phy_page_count
        <5>1. i \in 1..pmm_stack_top
          BY <2>3, <4>1
        <5> QED
          BY <2>1, <4>1, <5>1
      <4>2. CASE ~(i <= phy_page_count)
        <5>1. i > pmm_stack_top
          BY <2>3, <4>2
        <5> QED
          BY <2>1, <4>2, <5>1
      <4> QED
        BY <4>1, <4>2
    <3> QED
      BY <3>1, <3>2
  <2> QED
    BY <2>1, <2>3, <2>4 DEF StackFilled, FreeFrames
<1> QED
  BY <1>1, Invariance, PTL

\* The assertion of pmm_free_page never fails, in init_pmm or later.
THEOREM StackNeverOverflows == Spec => []OnlyOutOfMemoryPanics
<1>1. Inv => OnlyOutOfMemoryPanics
  BY DEF Inv
<1> QED
  BY <1>1, Invariance, PTL

\* The three together.
THEOREM FramesStayAccounted == Spec => []FramesAccounted
<1>1. TypeOK /\ NoDoubleHandOut /\ FramesConserved => FramesAccounted
  BY DEF FramesAccounted
<1> QED
  BY <1>1, TypeCorrect, NoFrameTwice, NoFrameLost, PTL
-----------------------------------------------------------------------------
(* The frames are memory that exists. *)

\* A multiple of the page size below another one is at least a page below it.
LEMMA PageFits ==
    ASSUME NEW p \in Nat, NEW e \in Nat,
           p % PAGE_SIZE = 0, e % PAGE_SIZE = 0, p < e
    PROVE  p + PAGE_SIZE <= e
<1> DEFINE i == p \div PAGE_SIZE
           j == e \div PAGE_SIZE
<1>1. i \in Int /\ p = i * PAGE_SIZE
  BY Constants
<1>2. j \in Int /\ e = j * PAGE_SIZE
  BY Constants
<1> HIDE DEF i, j
<1>3. i < j
  <2> SUFFICES ASSUME i >= j PROVE FALSE
    BY <1>1, <1>2
  <2>1. i * PAGE_SIZE >= j * PAGE_SIZE
    BY <1>1, <1>2, Constants
  <2> QED
    BY <1>1, <1>2, <2>1
<1>4. (i + 1) * PAGE_SIZE <= j * PAGE_SIZE
  BY <1>1, <1>2, <1>3, Constants
<1>5. (i + 1) * PAGE_SIZE = i * PAGE_SIZE + PAGE_SIZE
  BY <1>1, Constants
<1> QED
  BY <1>1, <1>2, <1>4, <1>5

\* A sum of page-aligned numbers and pages is page aligned.
LEMMA SumAligned ==
    ASSUME NEW a \in Nat, NEW b \in Nat, NEW n \in Nat,
           a % PAGE_SIZE = 0, b % PAGE_SIZE = 0
    PROVE  (a + b + n * PAGE_SIZE) % PAGE_SIZE = 0
<1> DEFINE i == a \div PAGE_SIZE
           j == b \div PAGE_SIZE
<1>1. i \in Int /\ a = i * PAGE_SIZE
  BY Constants
<1>2. j \in Int /\ b = j * PAGE_SIZE
  BY Constants
<1> HIDE DEF i, j
<1>3. a + b + n * PAGE_SIZE = (i + j + n) * PAGE_SIZE
  BY <1>1, <1>2, Constants
<1>4. i + j + n \in Int
  BY <1>1, <1>2
<1>5. \A k \in Int : (k * PAGE_SIZE) % PAGE_SIZE = 0
  BY Constants
<1> QED
  BY <1>3, <1>4, <1>5

\* An end that wraps around comes out at least WORD lower.
LEMMA WrapsBelow ==
    ASSUME NEW n \in Nat, n >= WORD
    PROVE  n % WORD <= n - WORD
<1> DEFINE q == n \div WORD
           r == n % WORD
<1>1. q \in Int /\ r \in 0..WORD - 1 /\ n = q * WORD + r
  BY Constants
<1> HIDE DEF q, r
<1>2. q >= 1
  <2> SUFFICES ASSUME q <= 0 PROVE FALSE
    BY <1>1
  <2>1. q * WORD <= 0
    BY <1>1, Constants
  <2> QED
    BY <1>1, <2>1, Constants
<1>3. q * WORD >= WORD
  BY <1>1, <1>2, Constants
<1>4. r <= n - WORD
  BY <1>1, <1>3, Constants
<1> QED
  BY <1>4 DEF r

\* A frame that lies in the available region behind the kernel image.
FreeRam(f) ==
    \E i \in DOMAIN mmap :
        /\ UsableEntry(mmap[i])
        /\ FirstFrame <= f /\ f + PAGE_SIZE <= mmap[i].base + mmap[i].length

\* init_pmm pushes frames of a usable entry, up to its end or to where the
\* 32-bit sum of the low words wraps.
InEntry ==
    pc = "push" =>
        /\ UsableEntry(mmap[map_entry])
        /\ length = (base_addr_low(mmap[map_entry]) + length_low(mmap[map_entry])) % WORD

RamInv == InEntry /\ FramesAreFreeRam

\* The frame init_pmm is about to push ends inside the region: both are page
\* aligned, and a region whose end wraps is cut at an address far below it.
LEMMA PushedFrameIsRam == Inv /\ InEntry /\ PushFrame => FreeRam(page_addr)
<1> SUFFICES ASSUME Inv, InEntry, PushFrame PROVE FreeRam(page_addr)
  OBVIOUS
<1> DEFINE e == mmap[map_entry]
           low == length_low(e)
           end == LOAD_BASE + low
<1>1. /\ mmap \in MemoryMaps /\ map_entry \in 1..Len(mmap) /\ pmm_stack_top \in Nat
      /\ page_addr = FirstFrame + pmm_stack_top * PAGE_SIZE
      /\ page_addr < length /\ page_addr <= PMM_MAX_SIZE
      /\ page_addr \in Nat /\ length \in Nat
  BY MapEntries, Constants DEF Inv, TypeOK, BootPosition, PushFrame, InRegion
<1>2. /\ UsableEntry(e) /\ base_addr_low(e) = LOAD_BASE /\ length = end % WORD
      /\ map_entry \in DOMAIN mmap
  BY <1>1, MapEntries DEF InEntry, PushFrame, UsableEntry
<1>3. e.base = LOAD_BASE /\ e.length \in Nat /\ low \in Nat /\ low % PAGE_SIZE = 0 /\ low <= e.length
  <2>1. MapAssumption(mmap)
    BY <1>1, BootAssumption DEF BootAssumption
  <2>2. e.base = LOAD_BASE /\ e.length \in Nat /\ low % PAGE_SIZE = 0
    BY <1>1, <1>2, <2>1, MapEntries DEF MapAssumption
  <2> PICK n \in Nat : n = e.length
    BY <2>2
  <2>3. n % WORD \in Nat /\ n % WORD <= n
    BY Constants
  <2> QED
    BY <2>2, <2>3 DEF length_low
<1> HIDE DEF low
<1>4. end \in Nat
  BY <1>3, Constants
<1>5. page_addr + PAGE_SIZE <= end
  <2>1. CASE end < WORD
    <3>1. length = end
      <4> HIDE DEF end
      <4> QED
        BY <1>2, <1>4, <2>1, Constants
    <3>2. end % PAGE_SIZE = 0
      <4>1. LOAD_BASE % PAGE_SIZE = 0
        BY BootAssumption DEF BootAssumption
      <4>2. (LOAD_BASE + low + 0 * PAGE_SIZE) % PAGE_SIZE = 0
        <5>1. LOAD_BASE \in Nat /\ 0 \in Nat
          BY Constants
        <5>2. \A b \in Nat : b % PAGE_SIZE = 0 => (LOAD_BASE + b + 0 * PAGE_SIZE) % PAGE_SIZE = 0
          BY <4>1, <5>1, SumAligned
        <5>3. low \in Nat /\ low % PAGE_SIZE = 0
          BY <1>3
        <5> QED
          BY <5>2, <5>3
      <4>3. LOAD_BASE + low + 0 * PAGE_SIZE = end
        <5>1. LOAD_BASE \in Nat /\ low \in Nat /\ PAGE_SIZE \in Nat
          BY <1>3, Constants
        <5>2. 0 * PAGE_SIZE = 0
          BY <5>1
        <5> QED
          BY <5>1, <5>2
      <4> QED
        BY <4>2, <4>3
    <3>3. page_addr % PAGE_SIZE = 0
      <4>1. LOAD_BASE % PAGE_SIZE = 0 /\ IMAGE_SIZE % PAGE_SIZE = 0
        BY BootAssumption DEF BootAssumption
      <4>2. LOAD_BASE \in Nat /\ IMAGE_SIZE \in Nat /\ pmm_stack_top \in Nat
        BY <1>1, Constants
      <4>3. (LOAD_BASE + IMAGE_SIZE + pmm_stack_top * PAGE_SIZE) % PAGE_SIZE = 0
        BY <4>1, <4>2, SumAligned
      <4> QED
        BY <1>1, <4>3 DEF FirstFrame
    <3> HIDE DEF end
    <3> QED
      BY <1>1, <1>4, <3>1, <3>2, <3>3, PageFits
  <2>2. CASE end >= WORD
    <3> HIDE DEF end
    <3>1. PAGE_SIZE <= PMM_MAX_SIZE
      BY Constants DEF PMM_MAX_SIZE
    <3>2. length <= end - WORD
      BY <1>2, <1>4, <2>2, WrapsBelow
    <3> QED
      BY <1>1, <1>4, <3>1, <3>2, Constants
  <2> QED
    BY <1>4, <2>1, <2>2, Constants
<1>6. FirstFrame <= page_addr
  BY <1>1, Constants
<1>7. page_addr + PAGE_SIZE <= e.base + e.length
  <2>1. page_addr \in Nat /\ PAGE_SIZE \in Nat /\ LOAD_BASE \in Nat
    BY <1>1, Constants
  <2> HIDE DEF e
  <2> QED
    BY <1>3, <1>5, <2>1
<1> QED
  BY <1>2, <1>6, <1>7 DEF FreeRam

\* Frames move between the stack and the holders; init_pmm adds free RAM.
LEMMA RamInvStep == Inv /\ RamInv /\ [Next]_vars => RamInv'
<1> SUFFICES ASSUME Inv, RamInv, [Next]_vars PROVE RamInv'
  OBVIOUS
<1>1. /\ \A f \in FreeFrames \cup held : FreeRam(f)
      /\ pmm_stack_top \in 0..PAGE_MAX_SIZE
      /\ pmm_stack \in [1..PAGE_MAX_SIZE -> 0..WORD - 1]
  BY DEF RamInv, FramesAreFreeRam, FreeRam, Inv, TypeOK
<1>2. UNCHANGED mmap
  BY DEF Next, Boot, ScanEntry, PushFrame, RegionDone, InitDone, TakeFrame, ReturnFrame,
         bootVars, vars
<1>3. InEntry'
  BY <1>2 DEF RamInv, InEntry, Next, Boot, ScanEntry, PushFrame, RegionDone, InitDone,
              TakeFrame, ReturnFrame, Panic, bootVars, vars
<1>4. SUFFICES \A f \in FreeFrames' \cup held' : FreeRam(f)
  BY <1>2, <1>3 DEF RamInv, FramesAreFreeRam, FreeRam
<1>5. ASSUME NEW g, pmm_free_page(g)
      PROVE  FreeFrames' \subseteq FreeFrames \cup {g}
  <2>1. pmm_stack_top < PAGE_MAX_SIZE /\ pmm_stack_top' = pmm_stack_top + 1
    BY <1>1, <1>5, Constants DEF pmm_free_page, StackFull
  <2>2. pmm_stack' = [pmm_stack EXCEPT ![pmm_stack_top + 1] = g]
    BY <1>5 DEF pmm_free_page
  <2>3. \A i \in 1..pmm_stack_top' :
            i \in 1..PAGE_MAX_SIZE /\ (i \in 1..pmm_stack_top \/ i = pmm_stack_top + 1)
    BY <1>1, <2>1, Constants
  <2>4. \A i \in 1..pmm_stack_top' :
            pmm_stack'[i] = g \/ (i \in 1..pmm_stack_top /\ pmm_stack'[i] = pmm_stack[i])
    BY <1>1, <2>2, <2>3
  <2> QED
    BY <2>4 DEF FreeFrames
<1>6. CASE PushFrame
  <2>1. FreeRam(page_addr) /\ UNCHANGED held
    BY <1>6, PushedFrameIsRam DEF RamInv, PushFrame
  <2>2. FreeFrames' \subseteq FreeFrames \cup {page_addr}
    <3>1. CASE pmm_free_page(page_addr)
      BY <1>5, <3>1
    <3>2. CASE Panic
      BY <3>2 DEF Panic, pmmVars, FreeFrames
    <3> QED
      BY <1>6, <3>1, <3>2 DEF PushFrame
  <2> QED
    BY <1>1, <2>1, <2>2
<1>7. CASE TakeFrame
  <2>1. CASE OutOfMemory /\ Panic /\ UNCHANGED held
    BY <1>1, <2>1 DEF Panic, pmmVars, FreeFrames
  <2>2. ASSUME NEW g \in FreeFrames, pmm_alloc_page(g), held' = held \cup {g}
        PROVE  \A f \in FreeFrames' \cup held' : FreeRam(f)
    <3>1. FreeFrames' \subseteq FreeFrames
      <4>1. pmm_stack_top' = pmm_stack_top - 1 /\ pmm_stack' = pmm_stack
        BY <2>2 DEF pmm_alloc_page
      <4>2. \A i \in 1..pmm_stack_top' : i \in 1..pmm_stack_top
        BY <1>1, <4>1, Constants
      <4> QED
        BY <4>1, <4>2 DEF FreeFrames
    <3> QED
      BY <1>1, <2>2, <3>1
  <2> QED
    BY <1>7, <2>1, <2>2 DEF TakeFrame
<1>8. ASSUME NEW g \in held, ReturnFrame(g)
      PROVE  \A f \in FreeFrames' \cup held' : FreeRam(f)
  <2>1. held' \subseteq held /\ FreeFrames' \subseteq FreeFrames \cup {g}
    BY <1>5, <1>8 DEF ReturnFrame, Panic, pmmVars, FreeFrames
  <2> QED
    BY <1>1, <2>1
<1>9. CASE ScanEntry \/ RegionDone \/ InitDone \/ UNCHANGED vars
  BY <1>1, <1>9 DEF ScanEntry, RegionDone, InitDone, vars, pmmVars, FreeFrames
<1> QED
  BY <1>6, <1>7, <1>8, <1>9 DEF Next, Boot

\* Every frame the kernel ever hands out is available memory that no part of
\* the kernel image occupies.
THEOREM FramesAreMemory == Spec => []FramesAreFreeRam
<1>1. Init => RamInv
  <2> SUFFICES ASSUME Init PROVE RamInv
    OBVIOUS
  <2>1. FreeFrames \cup held = {}
    BY DEF Init, FreeFrames
  <2> QED
    BY <2>1 DEF RamInv, FramesAreFreeRam, InEntry, Init
<1>2. Inv /\ RamInv /\ [Next]_vars => RamInv'
  BY RamInvStep
<1>3. RamInv => FramesAreFreeRam
  BY DEF RamInv
<1> QED
  BY <1>1, <1>2, <1>3, Invariance, PTL DEF Spec

-----------------------------------------------------------------------------
(* init_pmm comes to its end. *)

\* What is left to do: the entries of the memory map and, within the one that
\* is being read, the frames up to PMM_MAX_SIZE.
EntriesLeft(entry) == Len(mmap) + 1 - entry
RegionLeft(at, addr) ==
    IF at = "scan" THEN PMM_MAX_SIZE + PAGE_SIZE + 2
    ELSE IF at = "push" THEN PMM_MAX_SIZE + PAGE_SIZE + 1 - addr ELSE 0

\* Either there are fewer entries, or the same and less of the region.
Counted(entry, at, addr) ==
    /\ EntriesLeft(entry) \in Nat
    /\ RegionLeft(at, addr) \in Nat
LessLeft ==
    \/ EntriesLeft(map_entry') < EntriesLeft(map_entry)
    \/ /\ map_entry' = map_entry
       /\ RegionLeft(pc', page_addr') < RegionLeft(pc, page_addr)

\* A step of init_pmm's loops leaves less to do, so no memory map makes them
\* run forever.
BootAdvances ==
    [][Boot => /\ Counted(map_entry, pc, page_addr)
               /\ Counted(map_entry', pc', page_addr')
               /\ LessLeft]_vars

\* What is left is counted in natural numbers.
LEMMA LeftIsNat ==
    ASSUME NEW entry \in 1..Len(mmap) + 1, NEW at,
           NEW addr \in 0..PMM_MAX_SIZE + PAGE_SIZE, mmap \in MemoryMaps
    PROVE  Counted(entry, at, addr)
<1> DEFINE n == Len(mmap)
<1>1. n \in Nat
  BY MapEntries
<1>2. entry \in 1..n + 1
  OBVIOUS
<1> HIDE DEF n
<1>3. n + 1 - entry \in Nat
  BY <1>1, <1>2
<1>4. EntriesLeft(entry) \in Nat
  BY <1>3 DEF EntriesLeft, n
<1>5. RegionLeft(at, addr) \in Nat
  BY Constants DEF RegionLeft
<1> QED
  BY <1>4, <1>5 DEF Counted

\* The outer loop goes to the next entry.
LEMMA NextEntryIsLess ==
    ASSUME Inv, map_entry' = map_entry + 1
    PROVE  LessLeft
<1> DEFINE n == Len(mmap)
<1>1. mmap \in MemoryMaps /\ map_entry \in 1..n + 1
  BY DEF Inv, TypeOK
<1>2. n \in Nat /\ map_entry \in Nat
  BY <1>1, MapEntries
<1> HIDE DEF n
<1>3. n + 1 - (map_entry + 1) < n + 1 - map_entry
  BY <1>2
<1>4. EntriesLeft(map_entry') < EntriesLeft(map_entry)
  BY <1>3 DEF EntriesLeft, n
<1> QED
  BY <1>4 DEF LessLeft

\* From scanning to pushing to the end of the region: less is left each time.
LEMMA RegionShrinks ==
    ASSUME NEW a \in Nat, NEW b \in Nat
    PROVE  /\ RegionLeft("push", b) < RegionLeft("scan", a)
           /\ RegionLeft("booted", b) < RegionLeft("scan", a)
           /\ RegionLeft("push", a + PAGE_SIZE) < RegionLeft("push", a)
           /\ a <= PMM_MAX_SIZE => RegionLeft("panic", b) < RegionLeft("push", a)
<1>1. PMM_MAX_SIZE \in Nat /\ PAGE_SIZE \in Nat \ {0}
  BY Constants
<1> QED
  BY <1>1 DEF RegionLeft

\* init_pmm terminates for every memory map: each step of its two loops
\* counts down (BootTerminates, but for the fairness).
THEOREM InitPmmCountsDown == Spec => BootAdvances
<1>1. Inv => Counted(map_entry, pc, page_addr)
  BY LeftIsNat DEF Inv, TypeOK
<1>2. ASSUME Inv, Inv', Boot PROVE LessLeft
  <2>1. page_addr \in Nat /\ page_addr' \in Nat
    BY <1>2, Constants DEF Inv, TypeOK, PMM_MAX_SIZE
  <2>2. CASE ScanEntry
    <3>1. CASE UsableEntry(mmap[map_entry])
      <4>1. map_entry' = map_entry /\ pc = "scan" /\ pc' = "push"
        BY <2>2, <3>1 DEF ScanEntry
      <4> QED
        BY <2>1, <4>1, RegionShrinks DEF LessLeft
    <3>2. CASE ~UsableEntry(mmap[map_entry])
      <4>1. map_entry' = map_entry + 1
        BY <2>2, <3>2 DEF ScanEntry
      <4> QED
        BY <1>2, <4>1, NextEntryIsLess
    <3> QED
      BY <3>1, <3>2
  <2>3. CASE PushFrame
    <3>1. map_entry' = map_entry /\ pc = "push" /\ page_addr <= PMM_MAX_SIZE
      BY <2>3 DEF PushFrame, InRegion
    <3>2. (page_addr' = page_addr + PAGE_SIZE /\ pc' = "push") \/ pc' = "panic"
      BY <2>3, <3>1 DEF PushFrame, Panic
    <3> QED
      BY <2>1, <3>1, <3>2, RegionShrinks DEF LessLeft
  <2>4. CASE RegionDone
    <3>1. map_entry' = map_entry + 1
      BY <2>4 DEF RegionDone
    <3> QED
      BY <1>2, <3>1, NextEntryIsLess
  <2>5. CASE InitDone
    <3>1. map_entry' = map_entry /\ pc = "scan" /\ pc' = "booted"
      BY <2>5 DEF InitDone, bootVars
    <3> QED
      BY <2>1, <3>1, RegionShrinks DEF LessLeft
  <2> QED
    BY <1>2, <2>2, <2>3, <2>4, <2>5 DEF Boot
<1>3. Boot => UNCHANGED mmap
  BY DEF Boot, ScanEntry, PushFrame, RegionDone, InitDone, bootVars
<1>4. ASSUME Inv', UNCHANGED mmap PROVE Counted(map_entry', pc', page_addr')
  <2>1. /\ mmap \in MemoryMaps /\ map_entry' \in 1..Len(mmap) + 1
        /\ page_addr' \in 0..PMM_MAX_SIZE + PAGE_SIZE
    BY <1>4 DEF Inv, TypeOK, PMM_MAX_SIZE
  <2> QED
    BY <2>1, LeftIsNat
<1>5. Inv /\ Inv' /\ [Next]_vars =>
        [Boot => /\ Counted(map_entry, pc, page_addr)
                 /\ Counted(map_entry', pc', page_addr')
                 /\ LessLeft]_vars
  BY <1>1, <1>2, <1>3, <1>4
<1> QED
  BY <1>5, Invariance, PTL DEF Spec, BootAdvances
=============================================================================
