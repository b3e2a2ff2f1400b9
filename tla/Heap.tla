-------------------------------- MODULE Heap --------------------------------
(***************************************************************************)
(* The kernel heap (src/mm/heap.c) on top of the frame stack and the page  *)
(* tables.  kmalloc() walks the intrusive list of chunks for the first one *)
(* that fits and splits it, or appends a chunk and grows the heap page by  *)
(* page; kfree() merges a chunk with its free neighbours and, when the     *)
(* result is the last chunk, unlinks it and gives whole pages back.        *)
(*                                                                         *)
(* Every loop iteration and every call of pmm.c and vmm.c is a step, in    *)
(* the order of the code; no interrupt is enabled while the heap is used.  *)
(* The client is any code that calls kmalloc with a size of Sizes and      *)
(* kfree with a pointer it got and did not free yet.  What it writes into  *)
(* its blocks is not modelled, so the model is exact up to the first state *)
(* in which a block overlaps something else.                               *)
(***************************************************************************)
EXTENDS PageTables, FiniteSets

CONSTANTS
    HEAP_START, \* first address of the heap (0xE0000000)
    HDR,        \* sizeof(header_t), 12 bytes
    Sizes       \* the sizes the client asks for

ASSUME HeapAssumption ==
    /\ HEAP_START \in Nat /\ HEAP_START % PAGE_SIZE = 0
    /\ PAGE_OFFSET + PMM_MAX_SIZE <= HEAP_START /\ HEAP_START < WORD
    /\ WORD <= 2 * HEAP_START
    /\ HDR \in Nat \ {0}
    /\ Sizes \subseteq 0..WORD - 1

VARIABLES
    hdr,        \* the headers: a function from the addresses of the chunks
    heap_first, \* first chunk of the list, 0 for an empty list
    heap_max,   \* end of the mapped part of the heap
    pc,         \* where kmalloc or kfree is, "idle" between calls
    len,        \* kmalloc: len, header included
    cur,        \* cur_header, then chunk_start; in kfree the freed chunk
    prev,       \* kmalloc: prev_header
    page,       \* alloc_chunk: the frame that is about to be mapped
    live        \* the client's blocks: a function from pointers to sizes

listVars == <<hdr, heap_first>>
regVars == <<len, cur, prev, page>>
vars == <<pmmVars, tableVars, listVars, heap_max, pc, regVars, live>>

\* uint32_t arithmetic, and the 31-bit length field.
Add(a, b) == (a + b) % WORD
Sub(a, b) == (a - b) % WORD
LengthField(n) == n % (WORD \div 2)

\* A header can be read and written: all of its bytes are mapped.
HeaderMapped(c) == \A a \in c..c + HDR - 1 : Walk(a % WORD) # 0

\* The code may follow these pointers: each is a header, and mapped.  When one
\* is not a header, what the code does next is anybody's guess ("wild").
Touch(S) == \A c \in S : c \in DOMAIN hdr /\ HeaderMapped(c)
StopOnBadTouch(S) ==
    /\ ~Touch(S)
    /\ pc' = IF S \subseteq DOMAIN hdr THEN "fault" ELSE "wild"
    /\ UNCHANGED <<pmmVars, tableVars, listVars, heap_max, regVars, live>>
-----------------------------------------------------------------------------
\* init_heap() after init_pmm() and init_vmm().
Init ==
    /\ InitPmm
    /\ init_vmm
    /\ hdr = << >> /\ heap_first = 0 /\ heap_max = HEAP_START
    /\ pc = "idle" /\ len = 0 /\ cur = 0 /\ prev = 0 /\ page = 0
    /\ live = << >>

\* kmalloc or kfree is over, the registers are dead.
Return == pc' = "idle" /\ len' = 0 /\ cur' = 0 /\ prev' = 0 /\ page' = 0

Put(f, x, v) == [y \in DOMAIN f \cup {x} |-> IF y = x THEN v ELSE f[y]]
Without(f, x) == [y \in DOMAIN f \ {x} |-> f[y]]

\* kmalloc returns the address behind the header of chunk c.
Hand(c) == live' = Put(live, Add(c, HDR), Sub(len, HDR))
-----------------------------------------------------------------------------
(* kmalloc *)

Kmalloc(n) ==
    /\ pc = "idle"
    /\ len' = Add(n, HDR)
    /\ cur' = heap_first /\ prev' = 0
    /\ pc' = "walk"
    /\ UNCHANGED <<pmmVars, tableVars, listVars, heap_max, page, live>>

Fits(c) == ~hdr[c].allocated /\ hdr[c].length >= len

\* Where the rest of a split chunk starts.  Fault: a header too early.
RestStart_Short(c) == Add(c, Sub(len, HDR))
RestStart(c) == Add(c, len)

\* split_chunk: the rest becomes a free chunk when a header and something
\* more fits in it.  The chunk behind it keeps its back link.
split_chunk(c) ==
    LET old == hdr[c]
        used == [old EXCEPT !.allocated = TRUE]
        new == RestStart(c)
    IN  IF Sub(old.length, len) > HDR
        THEN Put([hdr EXCEPT ![c] = [used EXCEPT !.next = new, !.length = len]], new,
                 [prev |-> c, next |-> old.next, allocated |-> FALSE,
                  length |-> Sub(old.length, len)])
        ELSE [hdr EXCEPT ![c] = used]

WalkFit ==
    /\ pc = "walk" /\ cur # 0 /\ Touch({cur})
    /\ Fits(cur)
    /\ hdr' = split_chunk(cur)
    /\ Hand(cur)
    /\ Return
    /\ UNCHANGED <<pmmVars, tableVars, heap_first, heap_max>>

\* Fault: the walk does not advance.
WalkNext_Stays ==
    /\ pc = "walk" /\ cur # 0 /\ Touch({cur}) /\ ~Fits(cur)
    /\ prev' = cur
    /\ UNCHANGED <<pmmVars, tableVars, listVars, heap_max, pc, len, cur, page, live>>

WalkNext ==
    /\ pc = "walk" /\ cur # 0
    /\ \/ /\ Touch({cur}) /\ ~Fits(cur)
          /\ prev' = cur /\ cur' = hdr[cur].next
          /\ UNCHANGED <<pmmVars, tableVars, listVars, heap_max, pc, len, page, live>>
       \/ StopOnBadTouch({cur})

\* Nothing fits: the new chunk starts where the last one ends.
WalkEnd ==
    /\ pc = "walk" /\ cur = 0
    /\ IF prev # 0
       THEN cur' = Add(prev, hdr[prev].length) /\ UNCHANGED heap_first
       ELSE cur' = HEAP_START /\ heap_first' = HEAP_START
    /\ pc' = "grow"
    /\ UNCHANGED <<pmmVars, tableVars, hdr, heap_max, len, prev, page, live>>

\* Fault: only the start of the chunk is compared with heap_max.
NeedsPage_ForStart == cur >= heap_max

\* alloc_chunk: the loop's condition and its body, call by call.
NeedsPage == Add(cur, len) > heap_max

GrowFrame ==
    /\ pc = "grow" /\ NeedsPage
    /\ \/ pmm_alloc_page(page') /\ pc' = "map"
       \/ OutOfMemory /\ pc' = "panic" /\ UNCHANGED <<pmmVars, page>>
    /\ UNCHANGED <<tableVars, listVars, heap_max, len, cur, prev, live>>

GrowMap ==
    /\ pc = "map"
    /\ \/ /\ map(heap_max, page)
          /\ heap_max' = Add(heap_max, PAGE_SIZE)
          /\ pc' = "grow" /\ page' = 0
       \/ /\ MapOutOfMemory(heap_max) /\ pc' = "panic"
          /\ UNCHANGED <<pmmVars, tableVars, heap_max, page>>
       \/ /\ MapUnreachable(heap_max) /\ pc' = "fault"
          /\ UNCHANGED <<pmmVars, tableVars, heap_max, page>>
    /\ UNCHANGED <<listVars, len, cur, prev, live>>

\* The chunk is big enough: write its header and link it behind the last one.
GrowDone ==
    /\ pc = "grow" /\ ~NeedsPage
    /\ IF HeaderMapped(cur)
       THEN LET new == [prev |-> prev, next |-> 0, allocated |-> TRUE,
                        length |-> LengthField(len)]
            IN  /\ hdr' = Put(IF prev = 0 THEN hdr
                              ELSE [hdr EXCEPT ![prev].next = cur], cur, new)
                /\ Hand(cur)
                /\ Return
       ELSE pc' = "fault" /\ UNCHANGED <<hdr, regVars, live>>
    /\ UNCHANGED <<pmmVars, tableVars, heap_first, heap_max>>
-----------------------------------------------------------------------------
(* kfree *)

\* Fault: the chunk behind b keeps its back link to b.
Absorb_StaleBackLink(h, a, b) ==
    Without([h EXCEPT ![a].length = LengthField(h[a].length + h[b].length),
                      ![a].next = h[b].next], b)

\* Chunk b, which follows a in the list h, becomes part of a.
Absorb(h, a, b) ==
    LET longer == [h EXCEPT ![a].length = LengthField(h[a].length + h[b].length),
                            ![a].next = h[b].next]
        linked == IF h[b].next = 0 THEN longer
                  ELSE [longer EXCEPT ![h[b].next].prev = a]
    IN  Without(linked, b)

\* glue_chunk, first half: merge with the next chunk when that is free.
GluesNext(c) == hdr[c].next # 0 /\ ~hdr[hdr[c].next].allocated
Glued(c) ==
    LET freed == [hdr EXCEPT ![c].allocated = FALSE]
    IN  IF GluesNext(c) THEN Absorb(freed, c, hdr[c].next) ELSE freed

\* Fault: no merging with the chunk before.
GluesPrev_Never(c) == hdr[c].prev # 0 /\ hdr[c].prev = c

\* Fault: the chunk before may be in use.
GluesPrev_Used(c) == hdr[c].prev # 0

\* glue_chunk, second half: merge into the chunk the back link names when
\* that one is free.
GluesPrev(c) == hdr[c].prev # 0 /\ ~hdr[hdr[c].prev].allocated
GluedBoth(c) == IF GluesPrev(c) THEN Absorb(Glued(c), hdr[c].prev, c) ELSE Glued(c)
FreedChunk(c) == IF GluesPrev(c) THEN hdr[c].prev ELSE c

\* Fault: the chunk before keeps its next.
Unlinked_KeepsNext(h, c) == Without(h, c)

\* free_chunk unlinks the last chunk c of the list h.
Unlinked(h, c) ==
    IF h[c].prev = 0 THEN Without(h, c)
    ELSE Without([h EXCEPT ![h[c].prev].next = 0], c)

\* The headers kfree(c) follows, as far as it gets.
Near(c) == {c} \cup ({hdr[c].next, hdr[c].prev} \ {0})
Far(c) ==
    (IF GluesNext(c) THEN {hdr[hdr[c].next].next} \ {0} ELSE {})
    \cup (IF GluesPrev(c) /\ Glued(c)[c].next = 0 THEN {hdr[hdr[c].prev].prev} \ {0} ELSE {})

Kfree(p) ==
    LET c == Sub(p, HDR)
    IN  /\ pc = "idle" /\ p \in DOMAIN live
        /\ \/ /\ Touch(Near(c)) /\ Touch(Far(c))
              /\ LET h == GluedBoth(c)
                     chunk == FreedChunk(c)
                 IN  IF h[chunk].next # 0
                     THEN hdr' = h /\ UNCHANGED <<heap_first, pc, cur>>
                     ELSE /\ hdr' = Unlinked(h, chunk)
                          /\ heap_first' = IF h[chunk].prev = 0 THEN 0 ELSE heap_first
                          /\ cur' = chunk /\ pc' = "shrink"
              /\ live' = Without(live, p)
              /\ UNCHANGED <<pmmVars, tableVars, heap_max, len, prev, page>>
           \/ StopOnBadTouch(Near(c))
           \/ Touch(Near(c)) /\ StopOnBadTouch(Far(c))

\* free_chunk's loop: give back every page that lies behind the chunk's start.
\* Fault: the page it starts in goes too.
FreesPage_Shared == heap_max > cur
FreesPage == Sub(heap_max, PAGE_SIZE) >= cur

\* Fault: the page is unmapped, its frame is not given back.
ShrinkPage_Leaks ==
    /\ pc = "shrink" /\ FreesPage
    /\ heap_max' = Sub(heap_max, PAGE_SIZE)
    /\ unmap(heap_max')
    /\ UNCHANGED <<pmmVars, listVars, pc, regVars, live>>

ShrinkPage ==
    /\ pc = "shrink" /\ FreesPage
    /\ heap_max' = Sub(heap_max, PAGE_SIZE)
    /\ unmap(heap_max')
    /\ \E frame \in 0..WORD - 1 :
          /\ get_mapping(heap_max', frame)
          /\ \/ pmm_free_page(frame) /\ UNCHANGED pc
             \/ StackFull /\ pc' = "panic" /\ UNCHANGED pmmVars
    /\ UNCHANGED <<listVars, regVars, live>>

ShrinkDone ==
    /\ pc = "shrink" /\ ~FreesPage
    /\ Return
    /\ UNCHANGED <<pmmVars, tableVars, listVars, heap_max, live>>
-----------------------------------------------------------------------------
\* One step of the call that is running.
Step ==
    \/ WalkFit \/ WalkNext \/ WalkEnd
    \/ GrowFrame \/ GrowMap \/ GrowDone
    \/ ShrinkPage \/ ShrinkDone

Next ==
    \/ \E n \in Sizes : Kmalloc(n)
    \/ \E p \in DOMAIN live : Kfree(p)
    \/ Step

\* The kernel runs on one CPU with interrupts off: a call that can take a
\* step takes it.
Spec == Init /\ [][Next]_vars /\ WF_vars(Step)
-----------------------------------------------------------------------------
(* Properties *)

HeapPages == {HEAP_START + i * PAGE_SIZE : i \in 0..((WORD - HEAP_START) \div PAGE_SIZE) - 1}
MappedFrames == {Walk(va) : va \in HeapPages} \ {0}
Stopped == pc \in {"panic", "fault", "wild"}

\* Every variable has its type.
TypeOK ==
    /\ pmm_stack \in [1..PAGE_MAX_SIZE -> 0..WORD - 1]
    /\ pmm_stack_top \in 0..PAGE_MAX_SIZE
    /\ pgd \in [0..PGD_SIZE - 1 -> 0..WORD - 1]
    /\ pte \in [KernTables \cup Frames -> [0..PTE_SIZE - 1 -> 0..WORD - 1]]
    /\ DOMAIN hdr \subseteq 0..WORD - 1
    /\ \A c \in DOMAIN hdr :
          hdr[c] \in [prev : 0..WORD - 1, next : 0..WORD - 1,
                     allocated : BOOLEAN, length : 0..(WORD \div 2) - 1]
    /\ {heap_first, heap_max, len, cur, prev, page} \subseteq 0..WORD - 1
    /\ pc \in {"idle", "walk", "grow", "map", "shrink", "panic", "fault", "wild"}
    /\ DOMAIN live \subseteq 0..WORD - 1
    /\ \A p \in DOMAIN live : live[p] \in 0..WORD - 1

\* README: a page is only given back when no memory block uses it any more.
\* Every byte of every block the client holds stays mapped (free_chunk).
BlocksStayMapped ==
    \A p \in DOMAIN live : \A a \in p..p + live[p] - 1 : Walk(a % WORD) # 0

\* heap.c: alloc_chunk allocates pages until the new memory holds len bytes.
\* A block handed out ends at or before heap_max.
BlocksInHeap ==
    \A p \in DOMAIN live : HEAP_START + HDR <= p /\ p + live[p] <= heap_max

\* Two blocks never overlap, nor does one overlap the other's header, over any
\* sequence of splits, merges and page returns.
BlocksDisjoint ==
    \A p, q \in DOMAIN live :
        p = q \/ p + live[p] + HDR <= q \/ q + live[q] + HDR <= p

\* Exactly the blocks the client holds are allocated chunks, big enough.
AllocatedAreLive ==
    /\ \A p \in DOMAIN live :
          /\ p - HDR \in DOMAIN hdr /\ hdr[p - HDR].allocated
          /\ live[p] + HDR <= hdr[p - HDR].length
    /\ \A c \in DOMAIN hdr : hdr[c].allocated => c + HDR \in DOMAIN live

\* What a client relies on: its blocks are its own.
BlocksSound == BlocksInHeap /\ BlocksDisjoint /\ AllocatedAreLive

\* The list covers the heap without a gap: it starts at HEAP_START, each chunk
\* ends where the next one begins, and the last one ends before heap_max.
ListCoversHeap ==
    /\ DOMAIN hdr # {} => heap_first = HEAP_START /\ HEAP_START \in DOMAIN hdr
    /\ \A c \in DOMAIN hdr :
          IF hdr[c].next = 0 THEN c + hdr[c].length <= heap_max
          ELSE hdr[c].next = c + hdr[c].length /\ hdr[c].next \in DOMAIN hdr

\* Between calls no two free chunks are neighbours and the last chunk is in
\* use: kfree merged what can be merged.
FullyMerged ==
    pc = "idle" =>
        \A c \in DOMAIN hdr :
            ~hdr[c].allocated => hdr[c].next # 0 /\ hdr[hdr[c].next].allocated

\* What the next call relies on: the list is the heap, and merged.
ListSound == ListCoversHeap /\ FullyMerged

\* Between calls the heap keeps no page behind its last chunk: kfree returned
\* every page that no chunk uses, all of them once nothing is allocated.
HeapEnd == IF DOMAIN hdr = {} THEN HEAP_START
           ELSE LET last == CHOOSE c \in DOMAIN hdr : hdr[c].next = 0
                IN  last + hdr[last].length
PagesReturned == pc = "idle" => heap_max - PAGE_SIZE < HeapEnd

\* The pages mapped in the heap's part of the address space are exactly those
\* below heap_max, each to a frame of its own.
HeapMapped ==
    /\ \A va \in HeapPages : Walk(va) # 0 <=> va < heap_max
    /\ \A v, w \in HeapPages : Walk(v) = Walk(w) /\ Walk(v) # 0 => v = w

\* No frame is lost and none has two uses: each is free, mapped in the heap, a
\* page table, or on its way from pmm_alloc_page to map.
InFlight == IF pc = "map" THEN {page} ELSE {}
FramesPartitioned ==
    ~Stopped =>
        /\ FreeFrames \cup MappedFrames \cup Tables \cup InFlight = Frames
        /\ pmm_stack_top + Cardinality(MappedFrames) + Cardinality(Tables)
              + Cardinality(InFlight) = FRAME_COUNT

\* heap.c takes and returns pages as it moves heap_max, neither more nor fewer.
PagesAccounted == TypeOK /\ PagesReturned /\ HeapMapped /\ FramesPartitioned

\* The code only follows pointers to mapped headers, and only the frames'
\* running out stops it.
OnlyOutOfMemoryStops ==
    /\ pc \notin {"fault", "wild"}
    /\ pc = "panic" => OutOfMemory

\* A block is left alone while its client holds it, whatever calls run: its
\* chunk stays in the list, in use and of the same length (no split, merge or
\* unlinking ever takes it for a free one), and the bytes of the chunk, header
\* included, keep their frames.
BlocksAreStable ==
    [][ \A p \in DOMAIN live \cap DOMAIN live' :
            LET c == p - HDR
            IN  /\ c \in DOMAIN hdr' /\ hdr'[c].allocated
                /\ hdr'[c].length = hdr[c].length
                /\ \A a \in c..c + hdr[c].length - 1 : Walk(a % WORD)' = Walk(a % WORD)
      ]_vars

\* Every call of kmalloc and kfree ends: the list has no cycle, and the page
\* loops of alloc_chunk and free_chunk come to their end.
CallsReturn == pc # "idle" ~> (pc = "idle" \/ Stopped)
=============================================================================
