-------------------------- MODULE PageTablesProofs --------------------------
(***************************************************************************)
(* Facts about the frame stack and the page tables, of any shape, which    *)
(* the proofs of Vmm and of Heap share: what each operation of pmm.c and   *)
(* vmm.c does to what the tables say.                                      *)
(***************************************************************************)
EXTENDS PageTables, FiniteSetTheorems, TLAPS

-----------------------------------------------------------------------------
(* What the operations rely on and keep. *)

Dir == 0..PGD_SIZE - 1
Slots == 0..PTE_SIZE - 1

\* The entries of the directory that init_vmm fills with pte_kern.
First == PGD_INDEX(PAGE_OFFSET)
DirectDir == First..First + PTE_COUNT - 1

\* The pages outside the direct map.
Mappable ==
    {va \in 0..WORD - 1 :
        va % PAGE_SIZE = 0 /\ va \notin PAGE_OFFSET..PAGE_OFFSET + PMM_MAX_SIZE - 1}

\* The free stack holds frames, each once.
StackOfFrames ==
    /\ pmm_stack \in [1..PAGE_MAX_SIZE -> Frames \cup {0}]
    /\ pmm_stack_top \in 0..PAGE_MAX_SIZE
    /\ \A i \in 1..pmm_stack_top : pmm_stack[i] \in Frames
    /\ \A i, j \in 1..pmm_stack_top : pmm_stack[i] = pmm_stack[j] => i = j

\* A table hangs in one place of the directory, pte_kern where init_vmm put it.
Directory ==
    /\ pgd \in [Dir -> KernTables \cup Frames \cup {0}]
    /\ \A i \in Dir : pgd[i] \in KernTables => i \in DirectDir
    /\ \A i \in DirectDir : pgd[i] = KernTable(i - First)
    /\ \A i, j \in Dir : pgd[i] = pgd[j] /\ pgd[i] # 0 => i = j

\* map and unmap have never written into pte_kern.
TablesKept ==
    /\ pte \in [KernTables \cup Frames -> [Slots -> (0..WORD - 1) \cup Frames]]
    /\ \A j \in 0..PTE_COUNT - 1 : \A k \in Slots :
          pte[KernTable(j)][k] = DirectFrame(j * PTE_SIZE + k)

-----------------------------------------------------------------------------
\* Quotient and remainder, and that they are the only ones.
LEMMA Division ==
    ASSUME NEW a \in Nat, NEW n \in Nat \ {0}
    PROVE  a \div n \in Nat /\ a % n \in 0..n - 1 /\ a = n * (a \div n) + (a % n)
OBVIOUS

LEMMA Quotient ==
    ASSUME NEW n \in Nat \ {0}, NEW q \in Nat, NEW r \in 0..n - 1
    PROVE  (n * q + r) \div n = q /\ (n * q + r) % n = r
<1> DEFINE a == n * q + r
           p == a \div n
           m == n * p
           k == n * q
<1>1. a \in Nat /\ k \in Nat
  OBVIOUS
<1>2. p \in Nat /\ a % n \in 0..n - 1 /\ a = m + (a % n)
  BY <1>1, Division
<1>3. p < q => m + n <= k
  <2>1. p < q => n * (p + 1) <= n * q
    BY <1>2
  <2>2. n * (p + 1) = m + n
    BY <1>2
  <2> QED
    BY <2>1, <2>2
<1>4. q < p => k + n <= m
  <2>1. q < p => n * (q + 1) <= n * p
    BY <1>2
  <2>2. n * (q + 1) = k + n
    OBVIOUS
  <2> QED
    BY <2>1, <2>2
<1>5. m \in Nat /\ a = k + r
  BY <1>2
<1> HIDE DEF a, p, m, k
<1>6. p = q
  BY <1>1, <1>2, <1>3, <1>4, <1>5
<1>7. a % n = r
  BY <1>1, <1>2, <1>5, <1>6 DEF m, k
<1> QED
  BY <1>6, <1>7 DEF a, p

\* The constants are naturals.
LEMMA TableConstants ==
    /\ PAGE_SIZE \in Nat \ {0} /\ PAGE_MAX_SIZE \in Nat \ {0}
    /\ PTE_SIZE \in Nat \ {0} /\ PGD_SIZE \in Nat \ {0} /\ PTE_COUNT \in Nat \ {0}
    /\ PAGE_MAX_SIZE = PTE_COUNT * PTE_SIZE
    /\ PAGE_OFFSET \in Nat /\ PTE_KERN \in Nat \ {0} /\ FIRST_FRAME \in Nat
    /\ FRAME_COUNT \in 1..PAGE_MAX_SIZE /\ WORD \in Nat /\ PMM_MAX_SIZE \in Nat
    /\ POWER_ON \in 0..WORD - 1
BY PageAssumption, TableAssumption DEF PageAssumption, TableAssumption, WORD, PMM_MAX_SIZE

\* Multiplying keeps the order.
LEMMA Monotone ==
    ASSUME NEW n \in Nat, NEW a \in Nat, NEW b \in Nat, a <= b
    PROVE  n * a \in Nat /\ n * b \in Nat /\ n * a <= n * b
OBVIOUS

\* The page of entry s of the table of entry d of the directory.
PageAt(d, s) == PAGE_SIZE * (PTE_SIZE * d + s)

LEMMA PageIndexes ==
    ASSUME NEW d \in Nat, NEW s \in Slots
    PROVE  PGD_INDEX(PageAt(d, s)) = d /\ PTE_INDEX(PageAt(d, s)) = s
<1> DEFINE q == PTE_SIZE * d + s
<1>1. q \in Nat /\ s \in 0..PTE_SIZE - 1
  BY TableConstants DEF Slots
<1>2. q \div PTE_SIZE = d /\ q % PTE_SIZE = s
  BY <1>1, TableConstants, Quotient
<1> HIDE DEF q
<1>3. (PAGE_SIZE * q + 0) \div PAGE_SIZE = q /\ PAGE_SIZE * q + 0 = PAGE_SIZE * q
  <2>1. 0 \in 0..PAGE_SIZE - 1
    BY TableConstants
  <2> QED
    BY <1>1, <2>1, TableConstants, Quotient
<1> QED
  BY <1>2, <1>3 DEF PageAt, PGD_INDEX, PTE_INDEX, q

\* Every page-aligned address is such a page.
LEMMA PageForm ==
    ASSUME NEW va \in Nat, va % PAGE_SIZE = 0
    PROVE  /\ PGD_INDEX(va) \in Nat /\ PTE_INDEX(va) \in Slots
           /\ va = PageAt(PGD_INDEX(va), PTE_INDEX(va))
<1> DEFINE q == va \div PAGE_SIZE
<1>1. q \in Nat /\ va = PAGE_SIZE * q + 0
  BY TableConstants, Division
<1>2. /\ q \div PTE_SIZE \in Nat /\ q % PTE_SIZE \in 0..PTE_SIZE - 1
      /\ q = PTE_SIZE * (q \div PTE_SIZE) + (q % PTE_SIZE)
  <2> HIDE DEF q
  <2> QED
    BY <1>1, TableConstants, Division
<1>3. PGD_INDEX(va) = q \div PTE_SIZE /\ PTE_INDEX(va) = q % PTE_SIZE
  BY DEF PGD_INDEX, PTE_INDEX
<1> HIDE DEF q
<1>4. va = PAGE_SIZE * q
  BY <1>1, TableConstants
<1> QED
  BY <1>2, <1>3, <1>4 DEF PageAt, Slots

\* Pages lie in the order of their entries.
LEMMA PageOrder ==
    ASSUME NEW d \in Nat, NEW e \in Nat, NEW s \in Slots, d < e
    PROVE  PageAt(d, s) < PageAt(e, 0)
<1> DEFINE a == PTE_SIZE * d
           b == PTE_SIZE * e
<1>1. a \in Nat /\ b \in Nat /\ a + PTE_SIZE <= b
  <2>1. PTE_SIZE * (d + 1) <= b
    BY TableConstants, Monotone
  <2>2. PTE_SIZE * (d + 1) = a + PTE_SIZE
    BY TableConstants
  <2> QED
    BY <2>1, <2>2, TableConstants
<1>2. s \in Nat /\ s < PTE_SIZE
  BY TableConstants DEF Slots
<1> HIDE DEF a, b
<1>3. a + s \in Nat /\ (a + s) + 1 <= b + 0 /\ b + 0 \in Nat
  BY <1>1, <1>2, TableConstants
<1>4. PAGE_SIZE * ((a + s) + 1) <= PAGE_SIZE * (b + 0)
  BY <1>3, TableConstants, Monotone
<1>5. PAGE_SIZE * ((a + s) + 1) = PAGE_SIZE * (a + s) + PAGE_SIZE
  BY <1>3, TableConstants
<1>6. PAGE_SIZE * (a + s) \in Nat /\ PAGE_SIZE * (b + 0) \in Nat
  BY <1>3, TableConstants
<1> DEFINE x == PAGE_SIZE * (a + s)
           y == PAGE_SIZE * (b + 0)
<1>7. x < y
  <2> HIDE DEF x, y
  <2> QED
    BY <1>4, <1>5, <1>6, TableConstants DEF x, y
<1> QED
  BY <1>7 DEF PageAt, a, b

\* The direct map is PTE_COUNT whole tables, and the address space PGD_SIZE.
LEMMA DirectWindow ==
    /\ First \in Nat /\ First + PTE_COUNT < PGD_SIZE /\ DirectDir \subseteq Dir
    /\ PAGE_OFFSET = PageAt(First, 0)
    /\ PAGE_OFFSET + PMM_MAX_SIZE = PageAt(First + PTE_COUNT, 0)
    /\ WORD = PageAt(PGD_SIZE, 0)
<1> DEFINE n == PTE_SIZE * PAGE_SIZE
           f == PAGE_OFFSET \div n
<1>1. n \in Nat \ {0} /\ PAGE_OFFSET % n = 0 /\ PAGE_OFFSET + PMM_MAX_SIZE < WORD
  BY TableConstants, TableAssumption DEF TableAssumption
<1>2. f \in Nat /\ PAGE_OFFSET = n * f + 0
  <2> HIDE DEF n
  <2> QED
    BY <1>1, TableConstants, Division
<1>3. \A d \in Nat : PageAt(d, 0) = n * d
  BY TableConstants DEF PageAt
<1>4. PAGE_OFFSET = PageAt(f, 0)
  <2>1. n * f \in Nat
    BY <1>1, <1>2
  <2> HIDE DEF n, f
  <2> QED
    BY <1>2, <1>3, <2>1
<1>5. First = f
  <2>1. 0 \in Slots
    BY TableConstants DEF Slots
  <2> HIDE DEF f
  <2> QED
    BY <1>2, <1>4, <2>1, PageIndexes DEF First
<1> HIDE DEF f
<1>6. PMM_MAX_SIZE = n * PTE_COUNT /\ WORD = n * PGD_SIZE
  BY TableConstants DEF PMM_MAX_SIZE, WORD
<1>7. n * f + n * PTE_COUNT = n * (f + PTE_COUNT)
  BY <1>2, TableConstants
<1> HIDE DEF n
<1>8. PAGE_OFFSET + PMM_MAX_SIZE = n * (f + PTE_COUNT)
  BY <1>1, <1>2, <1>6, <1>7, TableConstants
<1>9. f + PTE_COUNT < PGD_SIZE
  <2> SUFFICES ASSUME PGD_SIZE <= f + PTE_COUNT PROVE FALSE
    BY <1>2, TableConstants
  <2>1. n * PGD_SIZE <= n * (f + PTE_COUNT)
    BY <1>1, <1>2, TableConstants, Monotone
  <2> QED
    BY <1>1, <1>6, <1>8, <2>1, TableConstants
<1>10. DirectDir \subseteq Dir
  BY <1>2, <1>5, <1>9, TableConstants DEF DirectDir, Dir
<1> QED
  BY <1>2, <1>3, <1>4, <1>5, <1>6, <1>8, <1>9, <1>10, TableConstants

\* A mappable page: its entries are its own, and not in pte_kern.
LEMMA MappablePage ==
    ASSUME NEW va \in Mappable
    PROVE  /\ PGD_INDEX(va) \in Dir \ DirectDir /\ PTE_INDEX(va) \in Slots
           /\ \A vb \in Mappable :
                 PGD_INDEX(va) = PGD_INDEX(vb) /\ PTE_INDEX(va) = PTE_INDEX(vb) => va = vb
<1>1. \A v \in Mappable :
        /\ v \in Nat /\ v < WORD /\ v % PAGE_SIZE = 0
        /\ ~(PAGE_OFFSET <= v /\ v < PAGE_OFFSET + PMM_MAX_SIZE)
  BY TableConstants DEF Mappable
<1>2. \A v \in Mappable :
        /\ PGD_INDEX(v) \in Nat /\ PTE_INDEX(v) \in Slots
        /\ v = PageAt(PGD_INDEX(v), PTE_INDEX(v))
  BY <1>1, PageForm
<1> DEFINE d == PGD_INDEX(va)
           s == PTE_INDEX(va)
<1>3. d \in Nat /\ s \in Slots /\ va = PageAt(d, s) /\ va \in Nat
  BY <1>1, <1>2
<1> HIDE DEF d, s
<1>4. 0 \in Slots /\ \A e \in Nat : PageAt(e, 0) \in Nat /\ PageAt(e, s) >= PageAt(e, 0)
  BY <1>3, TableConstants DEF Slots, PageAt
<1>5. d < PGD_SIZE
  <2> SUFFICES ASSUME PGD_SIZE <= d PROVE FALSE
    BY <1>3, TableConstants
  <2>1. PGD_SIZE < d => PageAt(PGD_SIZE, 0) < PageAt(d, 0)
    BY <1>3, <1>4, TableConstants, PageOrder
  <2> QED
    <3>1. WORD \in Nat /\ WORD = PageAt(PGD_SIZE, 0) /\ PGD_SIZE \in Nat
      BY DirectWindow, TableConstants, Zenon
    <3>2. PageAt(d, 0) \in Nat /\ va >= PageAt(d, 0) /\ va < WORD
      <4>1. va < WORD
        BY <1>1, Zenon
      <4>2. PageAt(d, 0) \in Nat /\ PageAt(d, s) >= PageAt(d, 0)
        BY <1>3, <1>4, Zenon
      <4> QED
        BY <1>3, <4>1, <4>2, Zenon
    <3> DEFINE base == PageAt(d, 0)
    <3>3. CASE d = PGD_SIZE
      <4>1. base \in Nat /\ va >= base /\ va < base /\ va \in Nat
        BY <1>3, <3>1, <3>2, <3>3, Zenon
      <4> HIDE DEF base
      <4> QED
        BY <4>1
    <3>4. CASE PGD_SIZE < d
      <4>1. WORD < base /\ base \in Nat /\ va >= base /\ va < WORD /\ va \in Nat /\ WORD \in Nat
        BY <1>3, <2>1, <3>1, <3>2, <3>4, Zenon
      <4> DEFINE w == WORD
      <4>2. w < base /\ base \in Nat /\ va >= base /\ va < w /\ va \in Nat /\ w \in Nat
        BY <4>1, Zenon
      <4> HIDE DEF base, w
      <4> QED
        BY <4>2
    <3> QED
      BY <1>3, <3>1, <3>3, <3>4
<1>6. d \notin DirectDir
  <2> SUFFICES ASSUME First <= d, d < First + PTE_COUNT PROVE FALSE
    BY <1>3, DirectWindow, TableConstants DEF DirectDir
  <2>1. First < d => PageAt(First, 0) < PageAt(d, 0)
    BY <1>3, <1>4, DirectWindow, PageOrder
  <2>2. PageAt(d, s) < PageAt(First + PTE_COUNT, 0)
    BY <1>3, DirectWindow, TableConstants, PageOrder
  <2>3. PAGE_OFFSET <= va
    BY <1>3, <1>4, <2>1, DirectWindow, TableConstants
  <2> QED
    BY <1>1, <1>3, <2>2, <2>3, DirectWindow
<1> QED
  BY <1>2, <1>3, <1>5, <1>6, TableConstants DEF Dir, d, s

\* Where the direct map translates a frame.
LEMMA DirectPage ==
    ASSUME NEW i \in 0..PAGE_MAX_SIZE - 1
    PROVE  \E j \in 0..PTE_COUNT - 1, k \in Slots :
              /\ i = j * PTE_SIZE + k
              /\ PGD_INDEX(PAGE_OFFSET + DirectFrame(i)) = First + j
              /\ PTE_INDEX(PAGE_OFFSET + DirectFrame(i)) = k
<1> DEFINE j == i \div PTE_SIZE
           k == i % PTE_SIZE
<1>1. j \in Nat /\ k \in Slots /\ i = PTE_SIZE * j + k /\ i \in Nat
  <2>1. i \in Nat
    BY TableConstants
  <2> QED
    BY <2>1, TableConstants, Division DEF Slots
<1> HIDE DEF j, k
<1>2. k \in Nat
  BY <1>1, TableConstants DEF Slots
<1>3. j < PTE_COUNT
  <2> SUFFICES ASSUME PTE_COUNT <= j PROVE FALSE
    BY <1>1, TableConstants
  <2>1. PTE_SIZE * PTE_COUNT <= PTE_SIZE * j /\ PTE_SIZE * j \in Nat
    BY <1>1, TableConstants, Monotone
  <2>2. PTE_SIZE * PTE_COUNT = PAGE_MAX_SIZE
    BY TableConstants
  <2> DEFINE m == PTE_SIZE * j
  <2>3. PAGE_MAX_SIZE <= m /\ m \in Nat /\ i = m + k
    BY <1>1, <2>1, <2>2
  <2> HIDE DEF m
  <2> QED
    BY <1>2, <2>3, TableConstants
<1>4. PAGE_OFFSET + DirectFrame(i) = PageAt(First + j, k)
  <2>1. PAGE_OFFSET = PAGE_SIZE * (PTE_SIZE * First)
    BY DirectWindow, TableConstants DEF PageAt
  <2>2. DirectFrame(i) = PAGE_SIZE * (PTE_SIZE * j + k)
    BY <1>1, <1>2, TableConstants DEF DirectFrame
  <2>3. PageAt(First + j, k) = PAGE_SIZE * (PTE_SIZE * First) + PAGE_SIZE * (PTE_SIZE * j + k)
    BY <1>1, <1>2, DirectWindow, TableConstants DEF PageAt
  <2> QED
    BY <2>1, <2>2, <2>3
<1>5. PGD_INDEX(PAGE_OFFSET + DirectFrame(i)) = First + j
      /\ PTE_INDEX(PAGE_OFFSET + DirectFrame(i)) = k
  <2>1. First + j \in Nat
    BY <1>1, DirectWindow
  <2> QED
    BY <1>1, <1>4, <2>1, PageIndexes
<1>6. i = j * PTE_SIZE + k /\ j \in 0..PTE_COUNT - 1
  BY <1>1, <1>2, <1>3, TableConstants
<1> QED
  BY <1>1, <1>5, <1>6

-----------------------------------------------------------------------------
(* Frames. *)

\* Frames are not 0 and not in pte_kern, and there are FRAME_COUNT of them.
LEMMA FrameFacts ==
    /\ Frames \subseteq Nat \ {0} /\ KernTables \subseteq Nat \ {0}
    /\ Frames \cap KernTables = {} /\ IsFiniteSet(Frames)
    /\ \A i, j \in 0..FRAME_COUNT - 1 :
          FIRST_FRAME + i * PAGE_SIZE = FIRST_FRAME + j * PAGE_SIZE => i = j
    /\ \A i, j \in 0..PTE_COUNT - 1 : KernTable(i) = KernTable(j) => i = j
<1>1. \A i \in Nat : i * PAGE_SIZE \in Nat
  BY TableConstants
<1>2. \A i \in 0..PTE_COUNT - 1 :
        /\ KernTable(i) \in Nat /\ KernTable(i) # 0
        /\ KernTable(i) < KernTable(PTE_COUNT)
  <2> TAKE i \in 0..PTE_COUNT - 1
  <2> DEFINE a == i * PAGE_SIZE
             b == PTE_COUNT * PAGE_SIZE
  <2>1. a \in Nat /\ b \in Nat /\ a < b
    BY TableConstants
  <2>2. KernTable(i) = PTE_KERN + a /\ KernTable(PTE_COUNT) = PTE_KERN + b
    BY DEF KernTable
  <2> HIDE DEF a, b
  <2> QED
    BY <2>1, <2>2, TableConstants
<1>3. KernTable(PTE_COUNT) \in Nat /\ KernTable(PTE_COUNT) <= FIRST_FRAME /\ KernTable(PTE_COUNT) # 0
  BY <1>1, TableConstants, TableAssumption DEF TableAssumption, KernTable
<1>4. \A f \in Frames : f \in Nat /\ f >= FIRST_FRAME
  BY <1>1, TableConstants DEF Frames
<1>5. \A t \in KernTables : t \in Nat /\ t # 0 /\ t < FIRST_FRAME
  BY <1>2, <1>3, TableConstants DEF KernTables
<1>6. Frames \subseteq Nat \ {0} /\ KernTables \subseteq Nat \ {0} /\ Frames \cap KernTables = {}
  BY <1>3, <1>4, <1>5, TableConstants
<1>7. \A i, j \in Nat : i * PAGE_SIZE = j * PAGE_SIZE => i = j
  BY TableConstants
<1>8. \A i, j \in Nat :
        /\ FIRST_FRAME + i * PAGE_SIZE = FIRST_FRAME + j * PAGE_SIZE => i = j
        /\ KernTable(i) = KernTable(j) => i = j
  <2> TAKE i, j \in Nat
  <2> DEFINE a == i * PAGE_SIZE
             b == j * PAGE_SIZE
  <2>1. a \in Nat /\ b \in Nat /\ (a = b => i = j)
    BY <1>1, <1>7
  <2> HIDE DEF a, b
  <2>2. /\ FIRST_FRAME + a = FIRST_FRAME + b => i = j
        /\ PTE_KERN + a = PTE_KERN + b => i = j
    BY <2>1, TableConstants
  <2> QED
    BY <2>2 DEF a, b, KernTable
<1>9. IsFiniteSet(Frames)
  <2> DEFINE last == FIRST_FRAME + FRAME_COUNT * PAGE_SIZE
  <2>1. last \in Nat
    BY <1>1, TableConstants
  <2>2. \A i \in 0..FRAME_COUNT - 1 : FIRST_FRAME + i * PAGE_SIZE <= last
    <3> TAKE i \in 0..FRAME_COUNT - 1
    <3>1. i * PAGE_SIZE <= FRAME_COUNT * PAGE_SIZE
      BY TableConstants
    <3> QED
      BY <1>1, <3>1, TableConstants
  <2>3. Frames \subseteq 0..last
    BY <1>4, <2>1, <2>2 DEF Frames
  <2> HIDE DEF last
  <2>4. IsFiniteSet(0..last)
    BY <2>1, FS_Interval
  <2> QED
    BY <2>3, <2>4, FS_Subset
<1> QED
  BY <1>6, <1>8, <1>9, TableConstants

\* pmm_alloc_page takes the topmost frame off the stack.
LEMMA Popped ==
    ASSUME StackOfFrames, NEW page, pmm_alloc_page(page)
    PROVE  /\ StackOfFrames' /\ page \in FreeFrames /\ page \in Frames
           /\ FreeFrames' = FreeFrames \ {page}
           /\ pmm_stack_top' = pmm_stack_top - 1
<1>1. /\ pmm_stack_top \in 1..PAGE_MAX_SIZE /\ page = pmm_stack[pmm_stack_top]
      /\ pmm_stack_top' = pmm_stack_top - 1 /\ pmm_stack' = pmm_stack
  BY TableConstants DEF StackOfFrames, pmm_alloc_page, OutOfMemory
<1>2. StackOfFrames'
  <2>1. pmm_stack_top' \in 0..PAGE_MAX_SIZE /\ 1..pmm_stack_top' \subseteq 1..pmm_stack_top
    BY <1>1, TableConstants
  <2> QED
    BY <1>1, <2>1 DEF StackOfFrames
<1>7. page \in FreeFrames /\ page \in Frames
  <2>1. pmm_stack_top \in 1..pmm_stack_top
    BY <1>1, TableConstants
  <2> QED
    BY <1>1, <2>1 DEF StackOfFrames, FreeFrames
<1>3. FreeFrames' = {pmm_stack[i] : i \in 1..pmm_stack_top - 1}
  BY <1>1 DEF FreeFrames
<1>4. \A i \in 1..pmm_stack_top - 1 : pmm_stack[i] # page
  BY <1>1, TableConstants DEF StackOfFrames
<1>5. 1..pmm_stack_top = (1..pmm_stack_top - 1) \cup {pmm_stack_top}
  BY <1>1, TableConstants
<1>6. FreeFrames' = FreeFrames \ {page}
  BY <1>1, <1>3, <1>4, <1>5 DEF FreeFrames
<1> QED
  BY <1>1, <1>2, <1>6, <1>7

\* pmm_free_page puts a frame on top that was not on the stack.
LEMMA Pushed ==
    ASSUME StackOfFrames, NEW page \in Frames, page \notin FreeFrames, pmm_free_page(page)
    PROVE  /\ StackOfFrames' /\ FreeFrames' = FreeFrames \cup {page}
           /\ pmm_stack_top' = pmm_stack_top + 1
<1> DEFINE n == pmm_stack_top
<1>1. /\ n \in Nat /\ n + 1 \in 1..PAGE_MAX_SIZE /\ pmm_stack_top' = n + 1
      /\ pmm_stack' = [pmm_stack EXCEPT ![n + 1] = page]
      /\ pmm_stack \in [1..PAGE_MAX_SIZE -> Frames \cup {0}]
  BY TableConstants DEF StackOfFrames, pmm_free_page, StackFull
<1>2. \A i \in 1..n : pmm_stack'[i] = pmm_stack[i] /\ pmm_stack[i] \in Frames /\ pmm_stack[i] # page
  <2>1. \A i \in 1..n : pmm_stack[i] \in Frames
    BY DEF StackOfFrames
  <2>2. \A i \in 1..n : pmm_stack[i] # page
    BY DEF FreeFrames
  <2> HIDE DEF n
  <2>3. \A i \in 1..n : i \in 1..PAGE_MAX_SIZE /\ i # n + 1
    BY <1>1, TableConstants
  <2>4. \A i \in 1..n : pmm_stack'[i] = pmm_stack[i]
    BY <1>1, <2>3
  <2> QED
    BY <2>1, <2>2, <2>4
<1>3. pmm_stack'[n + 1] = page /\ pmm_stack' \in [1..PAGE_MAX_SIZE -> Frames \cup {0}]
  BY <1>1
<1>4. 1..n + 1 = (1..n) \cup {n + 1}
  BY <1>1
<1>5. \A i, j \in 1..n : pmm_stack[i] = pmm_stack[j] => i = j
  BY DEF StackOfFrames
<1>6. FreeFrames' = {pmm_stack'[i] : i \in 1..n + 1} /\ FreeFrames = {pmm_stack[i] : i \in 1..n}
  BY <1>1 DEF FreeFrames
<1> HIDE DEF n
<1>7. FreeFrames' = FreeFrames \cup {page}
  BY <1>2, <1>3, <1>4, <1>6
<1>8. /\ \A i \in 1..n + 1 : pmm_stack'[i] \in Frames
      /\ \A i, j \in 1..n + 1 : pmm_stack'[i] = pmm_stack'[j] => i = j
      /\ n + 1 \in 0..PAGE_MAX_SIZE
  BY <1>1, <1>2, <1>3, <1>4, <1>5, TableConstants
<1> QED
  BY <1>1, <1>3, <1>7, <1>8 DEF StackOfFrames, n

\* Where a page is mapped, in words of the two indexes.
LEMMA MappedWalk ==
    ASSUME Directory, NEW va \in Mappable, pgd[PGD_INDEX(va)] # 0
    PROVE  /\ pgd[PGD_INDEX(va)] \in Frames /\ PGD_INDEX(va) \in Dir
           /\ PTE_INDEX(va) \in Slots
           /\ Walk(va) = pte[pgd[PGD_INDEX(va)]][PTE_INDEX(va)]
<1>1. PGD_INDEX(va) \in Dir \ DirectDir /\ PTE_INDEX(va) \in Slots
  BY MappablePage
<1> QED
  BY <1>1 DEF Directory, Walk

\* Writing the entry of a page that has a table changes that page alone.
LEMMA EntryWritten ==
    ASSUME Directory, TablesKept, NEW va \in Mappable, NEW pa \in Frames \cup {0},
           pgd[PGD_INDEX(va)] # 0, pgd' = pgd,
           pte' = [pte EXCEPT ![pgd[PGD_INDEX(va)]][PTE_INDEX(va)] = pa]
    PROVE  /\ Directory' /\ TablesKept'
           /\ \A vb \in Mappable : Walk(vb)' = IF vb = va THEN pa ELSE Walk(vb)
<1> DEFINE table == pgd[PGD_INDEX(va)]
           slot == PTE_INDEX(va)
           Words == (0..WORD - 1) \cup Frames
<1>1. table \in Frames /\ table \notin KernTables /\ slot \in Slots
  BY MappedWalk, FrameFacts
<1>2. Directory'
  BY DEF Directory
<1>3. pte \in [KernTables \cup Frames -> [Slots -> Words]]
  BY DEF TablesKept
<1>4. pa \in Words
  <2>1. 0 \in 0..WORD - 1
    BY TableConstants
  <2> QED
    BY <2>1
<1>5. pte' = [pte EXCEPT ![table] = [pte[table] EXCEPT ![slot] = pa]]
  OBVIOUS
<1>6. [pte[table] EXCEPT ![slot] = pa] \in [Slots -> Words]
  <2> HIDE DEF table, slot, Words
  <2> QED
    BY <1>1, <1>3, <1>4
<1>7. /\ pte' \in [KernTables \cup Frames -> [Slots -> Words]]
      /\ \A t \in (KernTables \cup Frames) \ {table} : pte'[t] = pte[t]
      /\ \A k \in Slots : pte'[table][k] = IF k = slot THEN pa ELSE pte[table][k]
  <2> HIDE DEF table, slot, Words
  <2> QED
    BY <1>1, <1>3, <1>4, <1>5, <1>6
<1>8. TablesKept'
  <2>1. \A j \in 0..PTE_COUNT - 1 : KernTable(j) \in (KernTables \cup Frames) \ {table}
    BY <1>1 DEF KernTables
  <2>2. \A j \in 0..PTE_COUNT - 1 : \A k \in Slots :
           pte'[KernTable(j)][k] = DirectFrame(j * PTE_SIZE + k)
    <3> HIDE DEF table
    <3> QED
      BY <1>7, <2>1 DEF TablesKept
  <2> QED
    BY <1>7, <2>2 DEF TablesKept
<1>9. ASSUME NEW vb \in Mappable
      PROVE  Walk(vb)' = IF vb = va THEN pa ELSE Walk(vb)
  <2> DEFINE other == pgd[PGD_INDEX(vb)]
  <2>1. Walk(vb)' = IF other = 0 THEN 0 ELSE pte'[other][PTE_INDEX(vb)]
    BY DEF Walk
  <2>2. Walk(vb) = IF other = 0 THEN 0 ELSE pte[other][PTE_INDEX(vb)]
    BY DEF Walk
  <2>3. other # 0 => other \in Frames /\ PTE_INDEX(vb) \in Slots
    BY MappedWalk
  <2>4. other = table /\ PTE_INDEX(vb) = slot => vb = va
    <3>1. PGD_INDEX(va) \in Dir /\ PGD_INDEX(vb) \in Dir
      BY MappablePage
    <3>2. other = table => PGD_INDEX(vb) = PGD_INDEX(va)
      BY <3>1 DEF Directory
    <3> QED
      BY <3>2, MappablePage
  <2>5. vb = va => other = table /\ PTE_INDEX(vb) = slot /\ other # 0
    OBVIOUS
  <2> HIDE DEF other, table, slot
  <2> QED
    BY <1>7, <2>1, <2>2, <2>3, <2>4, <2>5
<1> QED
  BY <1>2, <1>8, <1>9

\* A new table makes one page appear and leaves the others as they were.
LEMMA TableAdded ==
    ASSUME Directory, TablesKept, NEW va \in Mappable, NEW pa \in Frames,
           NeedsTable(va), NEW table \in Frames, table \notin Tables,
           pgd' = [pgd EXCEPT ![PGD_INDEX(va)] = table],
           pte' = [pte EXCEPT ![table] = NewTable(table, va, pa)]
    PROVE  /\ Directory' /\ TablesKept' /\ Tables' = Tables \cup {table}
           /\ \A vb \in Mappable : Walk(vb)' = IF vb = va THEN pa ELSE Walk(vb)
<1> DEFINE d == PGD_INDEX(va)
           slot == PTE_INDEX(va)
           Words == (0..WORD - 1) \cup Frames
<1>1. d \in Dir /\ d \notin DirectDir /\ slot \in Slots /\ pgd[d] = 0
  BY MappablePage DEF NeedsTable
<1>2. table # 0 /\ table \notin KernTables
  BY FrameFacts
<1>3. pgd \in [Dir -> KernTables \cup Frames \cup {0}] /\ pte \in [KernTables \cup Frames -> [Slots -> Words]]
  BY DEF Directory, TablesKept
<1>4. \A i \in Dir : pgd[i] # table
  BY <1>2, <1>3 DEF Tables
<1>5. /\ pgd' \in [Dir -> KernTables \cup Frames \cup {0}]
      /\ pgd'[d] = table /\ \A i \in Dir \ {d} : pgd'[i] = pgd[i]
  <2>1. pgd' = [pgd EXCEPT ![d] = table]
    OBVIOUS
  <2> HIDE DEF d
  <2> QED
    BY <1>1, <1>3, <2>1
<1>6. Directory'
  <2>1. \A i \in Dir : pgd'[i] \in KernTables => i \in DirectDir
    <3> HIDE DEF d
    <3> QED
      BY <1>2, <1>5 DEF Directory
  <2>2. \A i \in DirectDir : pgd'[i] = KernTable(i - First)
    <3> HIDE DEF d
    <3> QED
      BY <1>1, <1>5, DirectWindow DEF Directory
  <2>3. \A i, j \in Dir : pgd'[i] = pgd'[j] /\ pgd'[i] # 0 => i = j
    <3> HIDE DEF d
    <3> QED
      BY <1>4, <1>5 DEF Directory
  <2> QED
    BY <1>5, <2>1, <2>2, <2>3 DEF Directory
<1>7. Tables' = Tables \cup {table}
  <2>1. DOMAIN pgd = Dir /\ DOMAIN pgd' = Dir
    BY <1>3, <1>5
  <2>2. {pgd'[i] : i \in Dir} \ {0} = ({pgd[i] : i \in Dir} \ {0}) \cup {table}
    <3> HIDE DEF d
    <3> QED
      BY <1>1, <1>2, <1>5
  <2> QED
    BY <1>2, <2>1, <2>2 DEF Tables
<1>8. /\ pte' \in [KernTables \cup Frames -> [Slots -> Words]]
      /\ \A t \in (KernTables \cup Frames) \ {table} : pte'[t] = pte[t]
      /\ \A k \in Slots : pte'[table][k] = IF k = slot THEN pa ELSE 0
  <2> DEFINE new == [k \in Slots |-> IF k = slot THEN pa ELSE 0]
  <2>1. DOMAIN pte[table] = Slots
    BY <1>3
  <2>2. NewTable(table, va, pa) = new
    BY <2>1 DEF NewTable
  <2>3. 0 \in Words /\ pa \in Words
    BY TableConstants
  <2> HIDE DEF Words, slot
  <2>4. new \in [Slots -> Words] /\ \A k \in Slots : new[k] = IF k = slot THEN pa ELSE 0
    BY <2>3
  <2> HIDE DEF new
  <2>5. pte' = [pte EXCEPT ![table] = new]
    BY <2>2
  <2> QED
    BY <1>3, <2>4, <2>5
<1>9. TablesKept'
  <2>1. \A j \in 0..PTE_COUNT - 1 : KernTable(j) \in (KernTables \cup Frames) \ {table}
    BY <1>2 DEF KernTables
  <2>2. \A j \in 0..PTE_COUNT - 1 : \A k \in Slots :
           pte'[KernTable(j)][k] = DirectFrame(j * PTE_SIZE + k)
    BY <1>8, <2>1 DEF TablesKept
  <2> QED
    BY <1>8, <2>2 DEF TablesKept
<1>10. ASSUME NEW vb \in Mappable
       PROVE  Walk(vb)' = IF vb = va THEN pa ELSE Walk(vb)
  <2> DEFINE e == PGD_INDEX(vb)
             k == PTE_INDEX(vb)
  <2>1. e \in Dir /\ k \in Slots /\ (vb = va <=> e = d /\ k = slot)
    BY MappablePage
  <2>2. Walk(vb)' = IF pgd'[e] = 0 THEN 0 ELSE pte'[pgd'[e]][k]
    BY DEF Walk
  <2>3. Walk(vb) = IF pgd[e] = 0 THEN 0 ELSE pte[pgd[e]][k]
    BY DEF Walk
  <2> HIDE DEF e, k, d, slot
  <2>4. CASE e = d
    BY <1>1, <1>2, <1>5, <1>8, <2>1, <2>2, <2>3, <2>4
  <2>5. CASE e # d
    <3>1. pgd'[e] = pgd[e] /\ pgd[e] # table
      BY <1>4, <1>5, <2>1, <2>5
    <3>2. pgd[e] # 0 => pgd[e] \in (KernTables \cup Frames) \ {table}
      BY <1>3, <2>1, <3>1
    <3> QED
      BY <1>8, <2>1, <2>2, <2>3, <2>5, <3>1, <3>2
  <2> QED
    BY <2>4, <2>5
<1> QED
  BY <1>6, <1>7, <1>9, <1>10

\* Walk and Tables depend on the tables alone.
LEMMA TablesUnchanged ==
    ASSUME Directory, TablesKept, UNCHANGED tableVars
    PROVE  Directory' /\ TablesKept' /\ Tables' = Tables /\ \A va : Walk(va)' = Walk(va)
BY DEF tableVars, Directory, TablesKept, Tables, Walk

-----------------------------------------------------------------------------
(* The initial state. *)

\* What init_pmm and init_vmm leave behind: no page is mapped.
LEMMA Booted ==
    ASSUME InitPmm, init_vmm
    PROVE  /\ StackOfFrames /\ Directory /\ TablesKept
           /\ Tables = {} /\ FreeFrames = Frames /\ pmm_stack_top = FRAME_COUNT
           /\ \A va \in Mappable : Walk(va) = 0
<1>1. 0 \in Slots /\ PAGE_SIZE \in Nat /\ FRAME_COUNT \in 1..PAGE_MAX_SIZE
  BY TableConstants DEF Slots
<1>2. /\ \A i \in 1..FRAME_COUNT : pmm_stack[i] = FIRST_FRAME + (i - 1) * PAGE_SIZE
      /\ \A i \in 1..FRAME_COUNT : pmm_stack[i] \in Frames
      /\ pmm_stack_top = FRAME_COUNT
      /\ pmm_stack \in [1..PAGE_MAX_SIZE -> Frames \cup {0}]
  <2>1. /\ pmm_stack = [i \in 1..PAGE_MAX_SIZE |->
              IF i <= FRAME_COUNT THEN FIRST_FRAME + (i - 1) * PAGE_SIZE ELSE 0]
        /\ pmm_stack_top = FRAME_COUNT
    BY DEF InitPmm, StackFilled
  <2>2. \A i \in 1..FRAME_COUNT : i - 1 \in 0..FRAME_COUNT - 1 /\ i \in 1..PAGE_MAX_SIZE
    BY <1>1, TableConstants
  <2>3. \A i \in 1..FRAME_COUNT : FIRST_FRAME + (i - 1) * PAGE_SIZE \in Frames
    BY <2>2 DEF Frames
  <2>4. \A i \in 1..PAGE_MAX_SIZE : i <= FRAME_COUNT => i \in 1..FRAME_COUNT
    BY TableConstants
  <2>5. \A i \in 1..FRAME_COUNT : i <= FRAME_COUNT
    BY TableConstants
  <2>6. \A i \in 1..FRAME_COUNT : pmm_stack[i] = FIRST_FRAME + (i - 1) * PAGE_SIZE
    BY <2>1, <2>2, <2>5
  <2>7. pmm_stack \in [1..PAGE_MAX_SIZE -> Frames \cup {0}]
    BY <2>1, <2>3, <2>4
  <2> QED
    BY <2>1, <2>3, <2>6, <2>7
<1>3. StackOfFrames
  <2>1. \A i, j \in 1..FRAME_COUNT : pmm_stack[i] = pmm_stack[j] => i = j
    <3> SUFFICES ASSUME NEW i \in 1..FRAME_COUNT, NEW j \in 1..FRAME_COUNT,
                        pmm_stack[i] = pmm_stack[j]
                 PROVE  i = j
      OBVIOUS
    <3>1. i - 1 \in 0..FRAME_COUNT - 1 /\ j - 1 \in 0..FRAME_COUNT - 1
      BY TableConstants
    <3>2. i - 1 = j - 1
      BY <1>2, <3>1, FrameFacts
    <3> QED
      BY <3>2, TableConstants
  <2> QED
    BY <1>1, <1>2, <2>1, TableConstants DEF StackOfFrames
<1>4. /\ pgd = [i \in Dir |-> IF i \in DirectDir THEN KernTable(i - First) ELSE 0]
      /\ pte = [t \in KernTables \cup Frames |->
                  [k \in Slots |->
                     IF t \in KernTables
                     THEN DirectFrame(((t - PTE_KERN) \div PAGE_SIZE) * PTE_SIZE + k)
                     ELSE POWER_ON]]
  BY DEF init_vmm, Dir, Slots, DirectDir, First
<1>5. \A i \in DirectDir : i \in Dir /\ i - First \in 0..PTE_COUNT - 1 /\ KernTable(i - First) \in KernTables
  <2>1. \A i \in DirectDir : i \in Dir /\ i - First \in 0..PTE_COUNT - 1
    BY DirectWindow, TableConstants DEF DirectDir
  <2> QED
    BY <2>1 DEF KernTables
<1>6. Directory
  <2>1. pgd \in [Dir -> KernTables \cup Frames \cup {0}]
    BY <1>4, <1>5
  <2>2. \A i \in Dir : pgd[i] \in KernTables => i \in DirectDir
    BY <1>4, FrameFacts
  <2>3. \A i, j \in Dir : pgd[i] = pgd[j] /\ pgd[i] # 0 => i = j
    <3> SUFFICES ASSUME NEW i \in Dir, NEW j \in Dir, pgd[i] = pgd[j], pgd[i] # 0
                 PROVE  i = j
      OBVIOUS
    <3>1. i \in DirectDir /\ j \in DirectDir /\ KernTable(i - First) = KernTable(j - First)
      BY <1>4
    <3>2. i - First = j - First
      BY <1>5, <3>1, FrameFacts
    <3> QED
      BY <3>2, DirectWindow DEF Dir
  <2> QED
    BY <1>4, <1>5, <2>1, <2>2, <2>3 DEF Directory
<1>7. Tables = {}
  <2>1. DOMAIN pgd = Dir /\ \A i \in Dir : pgd[i] \in KernTables \cup {0}
    BY <1>4, <1>5
  <2> QED
    BY <2>1 DEF Tables
<1>8. FreeFrames = Frames
  <2>1. \A f \in Frames : \E i \in 1..FRAME_COUNT : pmm_stack[i] = f
    <3> TAKE f \in Frames
    <3>1. PICK i \in 0..FRAME_COUNT - 1 : f = FIRST_FRAME + i * PAGE_SIZE
      BY DEF Frames
    <3>2. i + 1 \in 1..FRAME_COUNT /\ (i + 1) - 1 = i
      BY TableConstants
    <3> QED
      BY <1>2, <3>1, <3>2
  <2> QED
    BY <1>2, <2>1 DEF FreeFrames
<1>10. \A j \in 0..PTE_COUNT - 1 : \A k \in Slots :
         /\ pte[KernTable(j)][k] = DirectFrame(j * PTE_SIZE + k)
         /\ DirectFrame(j * PTE_SIZE + k) \in 0..WORD - 1
  <2> SUFFICES ASSUME NEW j \in 0..PTE_COUNT - 1, NEW k \in Slots
               PROVE  /\ pte[KernTable(j)][k] = DirectFrame(j * PTE_SIZE + k)
                      /\ DirectFrame(j * PTE_SIZE + k) \in 0..WORD - 1
    OBVIOUS
  <2>1. ((KernTable(j) - PTE_KERN) \div PAGE_SIZE) = j /\ KernTable(j) \in KernTables
    <3>1. PAGE_SIZE * j \in Nat /\ KernTable(j) = PTE_KERN + PAGE_SIZE * j
      BY TableConstants DEF KernTable
    <3>2. KernTable(j) - PTE_KERN = PAGE_SIZE * j + 0
      BY <3>1, TableConstants
    <3>3. 0 \in 0..PAGE_SIZE - 1 /\ j \in Nat
      BY TableConstants
    <3>4. (PAGE_SIZE * j + 0) \div PAGE_SIZE = j
      BY <3>3, TableConstants, Quotient
    <3> QED
      BY <3>2, <3>4 DEF KernTables
  <2>2. j * PTE_SIZE + k \in Nat /\ j * PTE_SIZE + k < PAGE_MAX_SIZE
    <3> DEFINE a == PTE_SIZE * j
    <3>1. PTE_SIZE * (j + 1) <= PTE_SIZE * PTE_COUNT
      BY TableConstants, Monotone
    <3>2. PTE_SIZE * (j + 1) = a + PTE_SIZE /\ j * PTE_SIZE = a /\ a \in Nat
      BY TableConstants
    <3>3. PTE_SIZE * PTE_COUNT = PAGE_MAX_SIZE
      BY TableConstants
    <3>4. k \in Nat /\ k < PTE_SIZE
      BY TableConstants DEF Slots
    <3> HIDE DEF a
    <3> QED
      BY <3>1, <3>2, <3>3, <3>4, TableConstants
  <2>3. DirectFrame(j * PTE_SIZE + k) \in 0..WORD - 1
    <3> DEFINE n == j * PTE_SIZE + k
    <3>1. n \in Nat /\ n < PAGE_MAX_SIZE
      BY <2>2
    <3> HIDE DEF n
    <3>2. PAGE_SIZE * n <= PAGE_SIZE * PAGE_MAX_SIZE /\ PAGE_SIZE * n \in Nat
      BY <3>1, TableConstants, Monotone
    <3>3. PAGE_SIZE * PAGE_MAX_SIZE = PMM_MAX_SIZE /\ PAGE_SIZE * n = DirectFrame(n)
      BY <3>1, TableConstants DEF PMM_MAX_SIZE, DirectFrame
    <3>4. PAGE_OFFSET + PMM_MAX_SIZE < WORD
      BY TableAssumption DEF TableAssumption
    <3>5. DirectFrame(n) \in 0..WORD - 1
      BY <3>2, <3>3, <3>4, TableConstants
    <3> QED
      BY <3>5 DEF n
  <2> QED
    BY <1>4, <2>1, <2>3
<1>11. TablesKept
  <2> DEFINE Words == (0..WORD - 1) \cup Frames
  <2>1. \A t \in KernTables \cup Frames : pte[t] \in [Slots -> Words]
    <3> TAKE t \in KernTables \cup Frames
    <3>1. CASE t \in KernTables
      <4>1. PICK j \in 0..PTE_COUNT - 1 : t = KernTable(j)
        BY <3>1 DEF KernTables
      <4>2. \A k \in Slots : pte[t][k] \in Words
        BY <1>10, <4>1
      <4>3. DOMAIN pte[t] = Slots /\ pte[t] = [k \in Slots |-> pte[t][k]]
        BY <1>4
      <4> HIDE DEF Words
      <4> QED
        BY <4>2, <4>3
    <3>2. CASE t \notin KernTables
      <4>1. pte[t] = [k \in Slots |-> POWER_ON] /\ POWER_ON \in Words
        BY <1>4, <3>2, TableConstants
      <4> HIDE DEF Words
      <4> QED
        BY <4>1
    <3> QED
      BY <3>1, <3>2
  <2>2. pte = [t \in KernTables \cup Frames |-> pte[t]]
    BY <1>4
  <2>3. pte \in [KernTables \cup Frames -> [Slots -> Words]]
    <3> HIDE DEF Words
    <3> QED
      BY <2>1, <2>2
  <2> QED
    BY <1>10, <2>3 DEF TablesKept
<1>12. \A va \in Mappable : Walk(va) = 0
  <2>1. \A va \in Mappable : pgd[PGD_INDEX(va)] = 0
    BY <1>4, MappablePage
  <2> QED
    BY <2>1 DEF Walk
<1> QED
  BY <1>2, <1>3, <1>6, <1>7, <1>8, <1>11, <1>12

-----------------------------------------------------------------------------
(* What the direct map is for. *)

\* All frames lie below PMM_MAX_SIZE, as pmm.h asks for.
RamSupported == \A f \in Frames : f < PMM_MAX_SIZE

\* The direct map translates as init_vmm made it.
LEMMA DirectMapKept ==
    ASSUME Directory, TablesKept, NEW i \in 1..PAGE_MAX_SIZE - 1
    PROVE  Walk(PAGE_OFFSET + DirectFrame(i)) = DirectFrame(i)
<1>1. PICK j \in 0..PTE_COUNT - 1, k \in Slots :
        /\ i = j * PTE_SIZE + k
        /\ PGD_INDEX(PAGE_OFFSET + DirectFrame(i)) = First + j
        /\ PTE_INDEX(PAGE_OFFSET + DirectFrame(i)) = k
  <2>1. i \in 0..PAGE_MAX_SIZE - 1
    BY TableConstants
  <2> QED
    BY <2>1, DirectPage
<1>2. First + j \in DirectDir /\ (First + j) - First = j
  BY DirectWindow, TableConstants DEF DirectDir
<1>3. pgd[First + j] = KernTable(j)
  BY <1>2 DEF Directory
<1>4. KernTable(j) # 0
  BY FrameFacts DEF KernTables
<1>5. pte[KernTable(j)][k] = DirectFrame(i)
  BY <1>1 DEF TablesKept
<1> QED
  BY <1>1, <1>3, <1>4, <1>5 DEF Walk

\* A frame below PMM_MAX_SIZE can be written through the direct map.
LEMMA FrameReachable ==
    ASSUME Directory, TablesKept, NEW t \in Frames, t < PMM_MAX_SIZE
    PROVE  Reachable(t)
<1>1. PICK n \in 0..FRAME_COUNT - 1 : t = FIRST_FRAME + n * PAGE_SIZE
  BY DEF Frames
<1> DEFINE f == FIRST_FRAME \div PAGE_SIZE
           i == f + n
<1>2. f \in Nat /\ FIRST_FRAME = PAGE_SIZE * f
  <2>1. FIRST_FRAME % PAGE_SIZE = 0
    BY TableAssumption DEF TableAssumption
  <2>2. f \in Nat /\ FIRST_FRAME = PAGE_SIZE * f + (FIRST_FRAME % PAGE_SIZE)
    BY TableConstants, Division
  <2>3. PAGE_SIZE * f \in Nat
    BY <2>2, TableConstants
  <2> HIDE DEF f
  <2> QED
    BY <2>1, <2>2, <2>3
<1>3. i \in Nat /\ t = PAGE_SIZE * i /\ t = DirectFrame(i)
  <2> HIDE DEF f
  <2> QED
    BY <1>1, <1>2, TableConstants DEF DirectFrame
<1> HIDE DEF i
<1>4. i # 0
  BY <1>3, FrameFacts, TableConstants
<1>5. i < PAGE_MAX_SIZE
  <2> SUFFICES ASSUME PAGE_MAX_SIZE <= i PROVE FALSE
    BY <1>3, TableConstants
  <2>1. PAGE_SIZE * PAGE_MAX_SIZE <= PAGE_SIZE * i
    BY <1>3, TableConstants, Monotone
  <2>2. PAGE_SIZE * PAGE_MAX_SIZE = PMM_MAX_SIZE
    BY TableConstants DEF PMM_MAX_SIZE
  <2>3. t < PMM_MAX_SIZE /\ t \in Nat
    BY FrameFacts
  <2> QED
    BY <1>3, <2>1, <2>2, <2>3, TableConstants
<1>6. i \in 1..PAGE_MAX_SIZE - 1
  BY <1>3, <1>4, <1>5, TableConstants
<1>7. Walk(PAGE_OFFSET + t) = t
  BY <1>3, <1>6, DirectMapKept
<1>8. PAGE_OFFSET + t = t + PAGE_OFFSET
  BY TableConstants, FrameFacts
<1> QED
  BY <1>7, <1>8 DEF Reachable

\* With supported memory that is every frame.
LEMMA FramesReachable ==
    ASSUME RamSupported, Directory, TablesKept, NEW t \in Frames
    PROVE  Reachable(t)
BY FrameReachable DEF RamSupported
=============================================================================
