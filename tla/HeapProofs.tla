----------------------------- MODULE HeapProofs -----------------------------
(***************************************************************************)
(* Proofs about the heap for every careful client, every page size, number *)
(* of frames and set of sizes: the chunk list stays well formed over any   *)
(* sequence of calls, so blocks never overlap and stay within the mapped   *)
(* part of the heap.                                                       *)
(*                                                                         *)
(* The invariant is about the list only.  It holds whatever the page       *)
(* tables contain, because the code never derives a list pointer from      *)
(* them; what bounds the heap is the number of frames on the stack.        *)
(***************************************************************************)
EXTENDS HeapClient, TLAPS

Header == [prev : Nat, next : Nat, allocated : BOOLEAN, length : Nat]

\* The chunks of the list h tile the heap from HEAP_START to an end that is
\* at most max.  No walk along the list is needed to say so: each chunk ends
\* where the next one starts, no two overlap, and only the last has no next.
Tiled(h, max) ==
    /\ \A c \in DOMAIN h :
          /\ c \in Nat /\ HEAP_START <= c
          /\ h[c] \in Header /\ h[c].length > 0 /\ c + h[c].length <= max
    /\ \A c, d \in DOMAIN h : c < d => c + h[c].length <= d
    /\ \A c \in DOMAIN h :
          IF h[c].next = 0 THEN \A d \in DOMAIN h : d <= c
          ELSE h[c].next = c + h[c].length /\ h[c].next \in DOMAIN h
    /\ DOMAIN h # {} => HEAP_START \in DOMAIN h

\* A free chunk is followed by a chunk in use, and its back link is right and
\* names one in use.  The chunk x is excepted: kfree is working on it.
Isolated(h, x) ==
    \A c \in DOMAIN h \ {x} :
        ~h[c].allocated =>
            /\ h[c].next # 0 /\ (h[h[c].next].allocated \/ h[c].next = x)
            /\ IF h[c].prev = 0 THEN c = HEAP_START
               ELSE /\ h[c].prev \in DOMAIN h /\ h[h[c].prev].next = c
                    /\ h[h[c].prev].allocated \/ h[c].prev = x

\* The back link of chunk c is right.  The chunk it names is in use.
LinkTrue(h, c) ==
    IF h[c].prev = 0 THEN c = HEAP_START
    ELSE h[c].prev \in DOMAIN h /\ h[h[c].prev].next = c
PrevUsed(h, c) == h[c].prev # 0 => h[h[c].prev].allocated
NextUsed(h, c) == h[c].next # 0 => h[h[c].next].allocated

\* The chunks in use are the client's blocks, and large enough for them.
Owned(h, blocks) ==
    /\ \A p \in DOMAIN blocks :
          /\ p \in Nat /\ p - HDR \in DOMAIN h /\ h[p - HDR].allocated
          /\ blocks[p] \in Nat /\ blocks[p] + HDR <= h[p - HDR].length
    /\ \A c \in DOMAIN h : h[c].allocated => c + HDR \in DOMAIN blocks

\* The list h while kfree works on the chunk c it freed.
Loose(h, c, max, blocks) ==
    /\ Tiled(h, max) /\ Isolated(h, c) /\ Owned(h, blocks)
    /\ c \in DOMAIN h /\ ~h[c].allocated /\ LinkTrue(h, c)
-----------------------------------------------------------------------------
(* Arithmetic. *)

\* The constants as the proofs use them.
LEMMA Constants ==
    /\ PAGE_SIZE \in Nat \ {0} /\ FRAME_COUNT \in Nat /\ HDR \in Nat \ {0}
    /\ WORD \in Nat \ {0} /\ WORD \div 2 \in Nat
    /\ HEAP_START \in Nat /\ PAGE_SIZE <= HEAP_START /\ HEAP_START < WORD
    /\ WORD <= 2 * HEAP_START /\ HEAP_START > 0
    /\ PAGE_SIZE * FRAME_COUNT \in Nat
    /\ Sizes \subseteq Nat
    /\ \A n \in Sizes : HEAP_START + PAGE_SIZE * FRAME_COUNT + n + HDR < WORD
<1>1. /\ PAGE_SIZE \in Nat \ {0} /\ PAGE_MAX_SIZE \in Nat \ {0} /\ FRAME_COUNT \in Nat
      /\ PTE_SIZE \in Nat \ {0} /\ PGD_SIZE \in Nat \ {0}
      /\ HDR \in Nat \ {0} /\ HEAP_START \in Nat /\ PAGE_OFFSET \in Nat
      /\ PAGE_OFFSET + PMM_MAX_SIZE <= HEAP_START /\ HEAP_START < WORD
      /\ WORD <= 2 * HEAP_START /\ Sizes \subseteq 0..WORD - 1
  BY PageAssumption, TableAssumption, HeapAssumption
     DEF PageAssumption, TableAssumption, HeapAssumption
<1>2. PMM_MAX_SIZE \in Nat /\ PAGE_SIZE <= PMM_MAX_SIZE
  BY <1>1 DEF PMM_MAX_SIZE
<1>3. PGD_SIZE * PTE_SIZE \in Nat \ {0}
  BY <1>1
<1>4. WORD \in Nat \ {0}
  BY <1>1, <1>3 DEF WORD
<1>5. PAGE_SIZE * FRAME_COUNT \in Nat
  BY <1>1
<1>6. Sizes \subseteq Nat
  BY <1>1, <1>4
<1>7. WORD \div 2 \in Nat
  BY <1>4
<1> QED
  BY <1>1, <1>2, <1>4, <1>5, <1>6, <1>7, SmallSizes DEF SmallSizes

\* Sums and differences that stay in the address space do not wrap.
LEMMA AddSmall ==
    ASSUME NEW a \in Nat, NEW b \in Nat, a + b < WORD
    PROVE  Add(a, b) = a + b
<1> DEFINE x == a + b
<1>1. x \in Nat /\ x < WORD
  OBVIOUS
<1> HIDE DEF x
<1>2. x % WORD = x
  BY <1>1, Constants
<1> QED
  BY <1>2 DEF Add, x

LEMMA SubSmall ==
    ASSUME NEW a \in Nat, NEW b \in Nat, b <= a, a < WORD
    PROVE  Sub(a, b) = a - b
<1> DEFINE x == a - b
<1>1. x \in Nat /\ x < WORD
  BY Constants
<1> HIDE DEF x
<1>2. x % WORD = x
  BY <1>1, Constants
<1> QED
  BY <1>2 DEF Sub, x

\* The length of a chunk inside the heap fits in the 31-bit field.
LEMMA LengthFits ==
    ASSUME NEW n \in Nat, HEAP_START + n < WORD
    PROVE  LengthField(n) = n
<1>1. WORD \div 2 \in Nat /\ WORD <= 2 * (WORD \div 2) + 1
  BY Constants
<1>2. n < WORD \div 2
  BY <1>1, Constants
<1> DEFINE m == WORD \div 2
<1>3. m \in Nat /\ n < m
  BY <1>1, <1>2
<1> HIDE DEF m
<1>4. n % m = n
  BY <1>3
<1> QED
  BY <1>4 DEF LengthField, m
-----------------------------------------------------------------------------
(* The list operations keep the tiling. *)

\* What Absorb does, field by field.
LEMMA AbsorbFacts ==
    ASSUME NEW h, NEW max \in Nat, max < WORD, Tiled(h, max),
           NEW a \in DOMAIN h, NEW b \in DOMAIN h, h[a].next = b,
           NEW r, r = Absorb(h, a, b)
    PROVE  /\ a < b /\ a + h[a].length = b
           /\ h[b].next # 0 => b < h[b].next /\ h[b].next \in DOMAIN h
           /\ DOMAIN r = DOMAIN h \ {b}
           /\ \A d \in DOMAIN r :
                 /\ r[d] \in Header
                 /\ r[d].allocated = h[d].allocated
                 /\ r[d].next = (IF d = a THEN h[b].next ELSE h[d].next)
                 /\ r[d].length = (IF d = a THEN h[a].length + h[b].length ELSE h[d].length)
                 /\ r[d].prev = (IF d = h[b].next THEN a ELSE h[d].prev)
<1> DEFINE n == h[b].next
           sum == h[a].length + h[b].length
           longer == [h EXCEPT ![a].length = sum, ![a].next = n]
           linked == IF n = 0 THEN longer ELSE [longer EXCEPT ![n].prev = a]
<1>1. \A c \in DOMAIN h : c \in Nat /\ HEAP_START <= c /\ h[c] \in Header /\ h[c].length > 0
                         /\ c + h[c].length <= max
  BY DEF Tiled
<1>2. \A c \in DOMAIN h : h[c].prev \in Nat /\ h[c].next \in Nat /\ h[c].length \in Nat
                         /\ h[c].allocated \in BOOLEAN
  BY <1>1 DEF Header
<1>3. b \in Nat /\ b # 0 /\ a \in Nat /\ a # 0
  BY <1>1, Constants
<1>4. a + h[a].length = b /\ a < b
  BY <1>1, <1>2, <1>3 DEF Tiled
<1>5. n # 0 => n \in DOMAIN h /\ n = b + h[b].length /\ b < n
  BY <1>1, <1>2, <1>3 DEF Tiled
<1>6. LengthField(h[a].length + h[b].length) = sum
  <2>1. sum \in Nat /\ a + sum = b + h[b].length /\ b + h[b].length <= max
    BY <1>1, <1>2, <1>3, <1>4
  <2>2. HEAP_START + sum < WORD
    BY <1>1, <2>1, <1>3, Constants
  <2> HIDE DEF sum
  <2>3. LengthField(sum) = sum
    BY <2>1, <2>2, LengthFits
  <2> QED
    BY <2>3 DEF sum
<1>7. sum \in Nat /\ n \in Nat
  BY <1>2
<1>8. r = [d \in DOMAIN h \ {b} |-> linked[d]]
  BY <1>6 DEF Absorb, Without
<1> HIDE DEF sum, n
<1>9. /\ DOMAIN longer = DOMAIN h
      /\ \A d \in DOMAIN h \ {a} : longer[d] = h[d]
      /\ longer[a] = [h[a] EXCEPT !.length = sum, !.next = n]
  OBVIOUS
<1>10. \A d \in DOMAIN h :
          /\ longer[d] \in Header
          /\ longer[d].allocated = h[d].allocated
          /\ longer[d].prev = h[d].prev
          /\ longer[d].next = (IF d = a THEN n ELSE h[d].next)
          /\ longer[d].length = (IF d = a THEN sum ELSE h[d].length)
  <2>1. /\ longer[a].length = sum /\ longer[a].next = n
        /\ longer[a].allocated = h[a].allocated /\ longer[a].prev = h[a].prev
    BY <1>1, <1>9 DEF Header
  <2>2. longer[a] \in Header
    BY <1>1, <1>7, <1>9 DEF Header
  <2> HIDE DEF longer
  <2> TAKE d \in DOMAIN h
  <2>3. CASE d = a
    BY <2>1, <2>2, <2>3
  <2>4. CASE d # a
    <3>1. longer[d] = h[d]
      BY <1>9, <2>4
    <3> QED
      BY <1>1, <2>4, <3>1
  <2> QED
    BY <2>3, <2>4
<1> HIDE DEF longer
<1>11. \A d \in DOMAIN h :
          /\ linked[d] \in Header
          /\ linked[d].allocated = longer[d].allocated
          /\ linked[d].next = longer[d].next
          /\ linked[d].length = longer[d].length
          /\ linked[d].prev = (IF d = n THEN a ELSE longer[d].prev)
  <2>1. CASE n = 0
    <3>1. \A d \in DOMAIN h : d # n
      BY <1>1, Constants, <2>1
    <3> QED
      BY <2>1, <3>1, <1>10
  <2>2. CASE n # 0
    <3>1. linked = [longer EXCEPT ![n].prev = a]
      BY <2>2
    <3>2. n \in DOMAIN longer
      BY <2>2, <1>5, <1>9
    <3> HIDE DEF linked
    <3> TAKE d \in DOMAIN h
    <3>3. CASE d = n
      <4>1. linked[d] = [longer[d] EXCEPT !.prev = a]
        BY <3>1, <3>2, <3>3
      <4> QED
        BY <4>1, <3>3, <1>10, <1>3 DEF Header
    <3>4. CASE d # n
      <4>1. linked[d] = longer[d]
        BY <3>1, <3>4, <1>9
      <4> QED
        BY <4>1, <3>4, <1>10
    <3> QED
      BY <3>3, <3>4
  <2> QED
    BY <2>1, <2>2
<1> HIDE DEF linked
<1>12. DOMAIN r = DOMAIN h \ {b} /\ \A d \in DOMAIN r : d \in DOMAIN h /\ r[d] = linked[d]
  BY <1>8
<1>13. /\ a < b /\ a + h[a].length = b
       /\ h[b].next # 0 => b < h[b].next /\ h[b].next \in DOMAIN h
  BY <1>4, <1>5 DEF n
<1> QED
  BY <1>10, <1>11, <1>12, <1>13 DEF n, sum

LEMMA AbsorbTiled ==
    ASSUME NEW h, NEW max \in Nat, max < WORD, Tiled(h, max),
           NEW a \in DOMAIN h, NEW b \in DOMAIN h, h[a].next = b,
           NEW r, r = Absorb(h, a, b)
    PROVE  Tiled(r, max)
<1>1. \A c \in DOMAIN h : c \in Nat /\ HEAP_START <= c /\ h[c] \in Header /\ h[c].length > 0
                         /\ c + h[c].length <= max
                         /\ h[c].length \in Nat /\ h[c].next \in Nat
  BY DEF Tiled, Header
<1>2. /\ a < b /\ a + h[a].length = b
      /\ h[b].next # 0 => b < h[b].next /\ h[b].next \in DOMAIN h
      /\ DOMAIN r = DOMAIN h \ {b}
      /\ \A d \in DOMAIN r :
            /\ r[d] \in Header
            /\ r[d].next = (IF d = a THEN h[b].next ELSE h[d].next)
            /\ r[d].length = (IF d = a THEN h[a].length + h[b].length ELSE h[d].length)
  BY AbsorbFacts
<1>3. \A c, d \in DOMAIN h : c < d => c + h[c].length <= d
  BY DEF Tiled
<1>4. \A c \in DOMAIN h :
         IF h[c].next = 0 THEN \A d \in DOMAIN h : d <= c
         ELSE h[c].next = c + h[c].length /\ h[c].next \in DOMAIN h
  BY DEF Tiled
<1>5. ASSUME NEW c \in DOMAIN r
      PROVE  /\ c \in Nat /\ HEAP_START <= c
             /\ r[c] \in Header /\ r[c].length > 0 /\ c + r[c].length <= max
  BY <1>1, <1>2
<1>6. ASSUME NEW c \in DOMAIN r, NEW d \in DOMAIN r, c < d
      PROVE  c + r[c].length <= d
  <2>1. CASE c = a
    <3>1. b < d
      BY <1>1, <1>2, <1>3, <1>6, <2>1
    <3>2. b + h[b].length <= d
      BY <3>1, <1>2, <1>3
    <3> QED
      BY <1>1, <1>2, <2>1, <3>2
  <2>2. CASE c # a
    BY <1>2, <1>3, <1>6, <2>2
  <2> QED
    BY <2>1, <2>2
<1>7. ASSUME NEW c \in DOMAIN r
      PROVE  IF r[c].next = 0 THEN \A d \in DOMAIN r : d <= c
             ELSE r[c].next = c + r[c].length /\ r[c].next \in DOMAIN r
  <2>1. CASE c = a /\ h[b].next = 0
    <3>1. \A d \in DOMAIN r : d # b /\ d <= b
      BY <1>2, <1>4, <2>1
    <3>2. \A d \in DOMAIN r : ~(a < d)
      BY <3>1, <1>1, <1>2, <1>3
    <3> QED
      BY <3>2, <1>1, <1>2, <2>1
  <2>2. CASE c = a /\ h[b].next # 0
    <3>1. h[b].next = b + h[b].length /\ h[b].next \in DOMAIN r /\ h[b].next # 0
      BY <1>1, <1>2, <1>4, <2>2
    <3>2. r[c].next = h[b].next /\ r[c].length = h[a].length + h[b].length
      BY <1>2, <2>2
    <3> QED
      BY <1>1, <1>2, <2>2, <3>1, <3>2
  <2>3. CASE c # a
    <3>1. c \in DOMAIN h /\ c # b /\ r[c].next = h[c].next /\ r[c].length = h[c].length
      BY <1>2, <2>3
    <3>2. h[c].next # b
      <4> SUFFICES ASSUME h[c].next = b PROVE FALSE
        OBVIOUS
      <4>1. c + h[c].length = b
        BY <1>1, <1>2, <1>4, <3>1
      <4>2. c < a \/ a < c
        BY <1>1, <2>3, <3>1
      <4> QED
        BY <1>1, <1>2, <1>3, <3>1, <4>1, <4>2
    <3> QED
      BY <1>2, <1>4, <3>1, <3>2
  <2> QED
    BY <2>1, <2>2, <2>3
<1>8. DOMAIN r # {} => HEAP_START \in DOMAIN r
  <2>1. HEAP_START \in DOMAIN h
    BY DEF Tiled
  <2>2. HEAP_START # b
    BY <1>1, <1>2, Constants
  <2> QED
    BY <1>2, <2>1, <2>2
<1> QED
  BY <1>5, <1>6, <1>7, <1>8 DEF Tiled

\* What a tiled list gives about each chunk, in the form the proofs use.
LEMMA Chunks ==
    ASSUME NEW h, NEW max \in Nat, Tiled(h, max)
    PROVE  /\ \A c \in DOMAIN h :
                 /\ c \in Nat /\ c # 0 /\ HEAP_START <= c
                 /\ h[c] \in Header /\ h[c].length \in Nat /\ h[c].length > 0
                 /\ h[c].next \in Nat /\ h[c].prev \in Nat /\ h[c].allocated \in BOOLEAN
                 /\ c + h[c].length <= max
           /\ \A c, d \in DOMAIN h : c < d => c + h[c].length <= d
           /\ \A c \in DOMAIN h : h[c].next = 0 => \A d \in DOMAIN h : d <= c
           /\ \A c \in DOMAIN h : h[c].next # 0 =>
                 h[c].next = c + h[c].length /\ h[c].next \in DOMAIN h /\ c < h[c].next
           /\ \A c, d \in DOMAIN h : h[c].next # 0 /\ h[c].next = h[d].next => c = d
<1>1. \A c \in DOMAIN h :
                 /\ c \in Nat /\ c # 0 /\ HEAP_START <= c
                 /\ h[c] \in Header /\ h[c].length \in Nat /\ h[c].length > 0
                 /\ h[c].next \in Nat /\ h[c].prev \in Nat /\ h[c].allocated \in BOOLEAN
                 /\ c + h[c].length <= max
  <2>1. \A c \in DOMAIN h : c \in Nat /\ c # 0 /\ HEAP_START <= c /\ h[c] \in Header
                           /\ h[c].length > 0 /\ c + h[c].length <= max
    BY Constants DEF Tiled
  <2> QED
    BY <2>1 DEF Header
<1>2. \A c, d \in DOMAIN h : c < d => c + h[c].length <= d
  BY DEF Tiled
<1>3. \A c \in DOMAIN h : h[c].next = 0 => \A d \in DOMAIN h : d <= c
  BY DEF Tiled
<1>4. \A c \in DOMAIN h : h[c].next # 0 =>
                 h[c].next = c + h[c].length /\ h[c].next \in DOMAIN h /\ c < h[c].next
  <2>1. \A c \in DOMAIN h : h[c].next # 0 =>
                 h[c].next = c + h[c].length /\ h[c].next \in DOMAIN h
    BY DEF Tiled
  <2> QED
    BY <1>1, <2>1
<1>5. ASSUME NEW c \in DOMAIN h, NEW d \in DOMAIN h, h[c].next # 0, h[c].next = h[d].next, c < d
      PROVE  FALSE
  BY <1>1, <1>2, <1>4, <1>5
<1>6. \A c, d \in DOMAIN h : h[c].next # 0 /\ h[c].next = h[d].next => c = d
  <2> SUFFICES ASSUME NEW c \in DOMAIN h, NEW d \in DOMAIN h,
                      h[c].next # 0, h[c].next = h[d].next, c # d
               PROVE  FALSE
    OBVIOUS
  <2>1. c < d \/ d < c
    BY <1>1
  <2> QED
    BY <1>5, <2>1
<1> QED
  BY <1>1, <1>2, <1>3, <1>4, <1>6

\* Merging keeps the free chunks isolated: chunk x is a when kfree merges with
\* the next chunk, and b when it merges into the chunk before.
LEMMA AbsorbIsolated ==
    ASSUME NEW h, NEW max \in Nat, max < WORD, Tiled(h, max),
           NEW a \in DOMAIN h, NEW b \in DOMAIN h, h[a].next = b,
           ~h[a].allocated, ~h[b].allocated,
           NEW x \in {a, b}, Isolated(h, x), LinkTrue(h, a),
           NEW r, r = Absorb(h, a, b)
    PROVE  /\ Isolated(r, a) /\ LinkTrue(r, a)
           /\ r[a].prev = h[a].prev
           /\ PrevUsed(h, a) => PrevUsed(r, a)
<1>1. /\ a < b
      /\ h[b].next # 0 => b < h[b].next /\ h[b].next \in DOMAIN h
      /\ DOMAIN r = DOMAIN h \ {b}
      /\ \A d \in DOMAIN r :
            /\ r[d].allocated = h[d].allocated
            /\ r[d].next = (IF d = a THEN h[b].next ELSE h[d].next)
            /\ r[d].prev = (IF d = h[b].next THEN a ELSE h[d].prev)
  BY AbsorbFacts
<1>2. /\ \A c \in DOMAIN h : c \in Nat /\ c # 0 /\ h[c].next \in Nat /\ h[c].prev \in Nat
      /\ \A c \in DOMAIN h : h[c].next # 0 => h[c].next \in DOMAIN h /\ c < h[c].next
      /\ \A c, d \in DOMAIN h : h[c].next # 0 /\ h[c].next = h[d].next => c = d
  BY Chunks
<1>3. a \in DOMAIN r /\ a # h[b].next
  BY <1>1, <1>2
<1>4. r[a].prev = h[a].prev /\ r[a].next = h[b].next
  BY <1>1, <1>3
<1>5. h[a].prev # 0 =>
         /\ h[a].prev \in DOMAIN r /\ h[a].prev # a
         /\ r[h[a].prev].next = a /\ r[h[a].prev].allocated = h[h[a].prev].allocated
  <2> SUFFICES ASSUME h[a].prev # 0
               PROVE  /\ h[a].prev \in DOMAIN r /\ h[a].prev # a
                      /\ r[h[a].prev].next = a
                      /\ r[h[a].prev].allocated = h[h[a].prev].allocated
    OBVIOUS
  <2>1. h[a].prev \in DOMAIN h /\ h[h[a].prev].next = a
    BY DEF LinkTrue
  <2>2. h[a].prev < a
    BY <2>1, <1>2
  <2>3. h[a].prev \in DOMAIN r /\ h[a].prev # a
    BY <1>1, <1>2, <2>1, <2>2
  <2> QED
    BY <1>1, <2>1, <2>3
<1>6. LinkTrue(r, a)
  BY <1>4, <1>5 DEF LinkTrue
<1>7. PrevUsed(h, a) => PrevUsed(r, a)
  BY <1>4, <1>5 DEF PrevUsed
<1>8. ASSUME NEW d \in DOMAIN r, d # a, ~r[d].allocated
      PROVE  /\ r[d].next # 0 /\ (r[r[d].next].allocated \/ r[d].next = a)
             /\ IF r[d].prev = 0 THEN d = HEAP_START
                ELSE /\ r[d].prev \in DOMAIN r /\ r[r[d].prev].next = d
                     /\ r[r[d].prev].allocated \/ r[d].prev = a
  <2>1. d \in DOMAIN h /\ d # b /\ ~h[d].allocated /\ d # x
    BY <1>1, <1>8
  <2>2. /\ h[d].next # 0 /\ (h[h[d].next].allocated \/ h[d].next = x)
        /\ IF h[d].prev = 0 THEN d = HEAP_START
           ELSE /\ h[d].prev \in DOMAIN h /\ h[h[d].prev].next = d
                /\ h[h[d].prev].allocated \/ h[d].prev = x
    BY <2>1 DEF Isolated
  <2>3. r[d].next = h[d].next /\ h[d].next # b
    BY <1>1, <1>2, <1>8, <2>1, <2>2
  <2>4. r[d].next # 0 /\ r[d].next \in DOMAIN r
    BY <1>1, <1>2, <2>1, <2>2, <2>3
  <2>5. r[r[d].next].allocated \/ r[d].next = a
    BY <1>1, <2>2, <2>3, <2>4
  <2>6. CASE d = h[b].next
    <3>1. r[d].prev = a /\ r[a].next = d
      BY <1>1, <1>4, <2>6
    <3> QED
      BY <1>2, <1>3, <2>4, <2>5, <3>1
  <2>7. CASE d # h[b].next
    <3>1. r[d].prev = h[d].prev
      BY <1>1, <2>7
    <3>2. h[d].prev # 0 => h[d].prev # b /\ h[d].prev # a /\ h[d].prev \in DOMAIN r
      BY <1>1, <2>1, <2>2, <2>7
    <3>3. h[d].prev # 0 => r[h[d].prev].next = d /\ r[h[d].prev].allocated
      BY <1>1, <2>2, <3>2
    <3> QED
      BY <2>2, <2>4, <2>5, <3>1, <3>2, <3>3
  <2> QED
    BY <2>6, <2>7
<1>9. Isolated(r, a)
  BY <1>8 DEF Isolated
<1> QED
  BY <1>4, <1>6, <1>7, <1>9

\* Merging two free chunks does not concern the blocks.
LEMMA AbsorbOwned ==
    ASSUME NEW h, NEW max \in Nat, max < WORD, Tiled(h, max),
           NEW a \in DOMAIN h, NEW b \in DOMAIN h, h[a].next = b,
           ~h[a].allocated, ~h[b].allocated,
           NEW blocks, Owned(h, blocks),
           NEW r, r = Absorb(h, a, b)
    PROVE  Owned(r, blocks)
<1>1. /\ DOMAIN r = DOMAIN h \ {b}
      /\ \A d \in DOMAIN r :
            /\ r[d].allocated = h[d].allocated
            /\ r[d].length = (IF d = a THEN h[a].length + h[b].length ELSE h[d].length)
  BY AbsorbFacts
<1> QED
  BY <1>1 DEF Owned

\* One field of a header is written, the others keep their values.
LEMMA SetNext ==
    ASSUME NEW x \in Header, NEW n \in Nat, NEW y, y = [x EXCEPT !.next = n]
    PROVE  /\ y \in Header /\ y.next = n
           /\ y.allocated = x.allocated /\ y.length = x.length /\ y.prev = x.prev
  BY DEF Header

LEMMA SetFree ==
    ASSUME NEW x \in Header, NEW y, y = [x EXCEPT !.allocated = FALSE]
    PROVE  /\ y \in Header /\ ~y.allocated
           /\ y.next = x.next /\ y.length = x.length /\ y.prev = x.prev
  BY DEF Header

\* Unlinking the last chunk c, which is free: what is left ends where it began.
LEMMA UnlinkedGood ==
    ASSUME NEW h, NEW max \in Nat, Tiled(h, max),
           NEW c \in DOMAIN h, h[c].next = 0, ~h[c].allocated,
           Isolated(h, c), LinkTrue(h, c), PrevUsed(h, c),
           NEW blocks, Owned(h, blocks),
           NEW r, r = Unlinked(h, c)
    PROVE  /\ Tiled(r, c) /\ Isolated(r, 0) /\ Owned(r, blocks)
           /\ h[c].prev = 0 => DOMAIN r = {}
           /\ DOMAIN r \subseteq DOMAIN h
<1>1. /\ \A d \in DOMAIN h :
            /\ d \in Nat /\ d # 0 /\ HEAP_START <= d
            /\ h[d] \in Header /\ h[d].length \in Nat /\ h[d].length > 0
            /\ h[d].next \in Nat /\ h[d].prev \in Nat
      /\ \A d, e \in DOMAIN h : d < e => d + h[d].length <= e
      /\ \A d \in DOMAIN h : h[d].next = 0 => \A e \in DOMAIN h : e <= d
      /\ \A d \in DOMAIN h : h[d].next # 0 =>
            h[d].next = d + h[d].length /\ h[d].next \in DOMAIN h /\ d < h[d].next
  BY Chunks
<1>2. /\ DOMAIN r = DOMAIN h \ {c}
      /\ \A d \in DOMAIN r :
            /\ r[d] \in Header
            /\ r[d].allocated = h[d].allocated /\ r[d].length = h[d].length
            /\ r[d].prev = h[d].prev
            /\ r[d].next = (IF d = h[c].prev THEN 0 ELSE h[d].next)
  <2>1. CASE h[c].prev = 0
    <3>1. r = [d \in DOMAIN h \ {c} |-> h[d]]
      BY <2>1 DEF Unlinked, Without
    <3> QED
      BY <1>1, <2>1, <3>1
  <2>2. CASE h[c].prev # 0
    <3> DEFINE g == [h EXCEPT ![h[c].prev].next = 0]
    <3>1. r = [d \in DOMAIN h \ {c} |-> g[d]]
      BY <2>2 DEF Unlinked, Without
    <3>2. \A d \in DOMAIN h :
             g[d] = IF d = h[c].prev THEN [h[d] EXCEPT !.next = 0] ELSE h[d]
      OBVIOUS
    <3> HIDE DEF g
    <3>3. \A d \in DOMAIN h :
            /\ g[d] \in Header
            /\ g[d].allocated = h[d].allocated /\ g[d].length = h[d].length
            /\ g[d].prev = h[d].prev
            /\ g[d].next = (IF d = h[c].prev THEN 0 ELSE h[d].next)
      <4> SUFFICES ASSUME NEW d \in DOMAIN h
                   PROVE  /\ g[d] \in Header
                          /\ g[d].allocated = h[d].allocated /\ g[d].length = h[d].length
                          /\ g[d].prev = h[d].prev
                          /\ g[d].next = (IF d = h[c].prev THEN 0 ELSE h[d].next)
        BY Zenon
      <4>1. h[d] \in Header
        BY <1>1
      <4>2. CASE d = h[c].prev
        <5>1. g[d] = [h[d] EXCEPT !.next = 0]
          BY <3>2, <4>2, Zenon
        <5> QED
          BY <4>1, <4>2, <5>1, SetNext
      <4>3. CASE d # h[c].prev
        <5>1. g[d] = h[d]
          BY <3>2, <4>3, Zenon
        <5> QED
          BY <4>1, <4>3, <5>1, Zenon
      <4> QED
        BY <4>2, <4>3
    <3>4. DOMAIN r = DOMAIN h \ {c}
      BY <3>1, Zenon
    <3>5. ASSUME NEW d \in DOMAIN r
          PROVE  /\ r[d] \in Header
                 /\ r[d].allocated = h[d].allocated /\ r[d].length = h[d].length
                 /\ r[d].prev = h[d].prev
                 /\ r[d].next = (IF d = h[c].prev THEN 0 ELSE h[d].next)
      <4>1. d \in DOMAIN h /\ d \in DOMAIN h \ {c}
        BY <3>4, Zenon
      <4>2. r[d] = g[d]
        BY <3>1, <4>1, Zenon
      <4> QED
        BY <3>3, <4>1, <4>2, Zenon
    <3> QED
      BY <3>4, <3>5, Zenon
  <2> QED
    BY <2>1, <2>2
<1>3. \A d \in DOMAIN r : d < c
  BY <1>1, <1>2
<1>4. h[c].prev = 0 => DOMAIN r = {}
  BY <1>1, <1>2, <1>3 DEF LinkTrue
<1>5. h[c].prev # 0 => h[c].prev \in DOMAIN r /\ h[h[c].prev].next = c
  <2> SUFFICES ASSUME h[c].prev # 0
               PROVE  h[c].prev \in DOMAIN r /\ h[h[c].prev].next = c
    OBVIOUS
  <2>1. h[c].prev \in DOMAIN h /\ h[h[c].prev].next = c
    BY DEF LinkTrue
  <2>2. h[c].prev # c
    BY <1>1, <2>1
  <2> QED
    BY <1>2, <2>1, <2>2
<1>6. Tiled(r, c)
  <2>1. ASSUME NEW d \in DOMAIN r
        PROVE  /\ d \in Nat /\ HEAP_START <= d
               /\ r[d] \in Header /\ r[d].length > 0 /\ d + r[d].length <= c
    BY <1>1, <1>2, <1>3
  <2>2. \A d, e \in DOMAIN r : d < e => d + r[d].length <= e
    BY <1>1, <1>2
  <2>3. ASSUME NEW d \in DOMAIN r
        PROVE  IF r[d].next = 0 THEN \A e \in DOMAIN r : e <= d
               ELSE r[d].next = d + r[d].length /\ r[d].next \in DOMAIN r
    <3>1. CASE d = h[c].prev
      <4>1. c = d + h[d].length
        BY <1>1, <1>2, <1>5, <3>1
      <4>2. ASSUME NEW e \in DOMAIN r PROVE e <= d
        BY <1>1, <1>2, <1>3, <4>1
      <4> QED
        BY <1>2, <3>1, <4>2
    <3>2. CASE d # h[c].prev
      <4>1. h[d].next # c
        <5> SUFFICES ASSUME h[d].next = c PROVE FALSE
          OBVIOUS
        <5>1. h[c].prev # 0
          BY <1>4
        <5>2. \A e, f \in DOMAIN h : h[e].next # 0 /\ h[e].next = h[f].next => e = f
          BY Chunks
        <5> QED
          BY <1>1, <1>2, <1>5, <3>2, <5>1, <5>2
      <4>2. h[d].next # 0
        BY <1>1, <1>2, <1>3
      <4> QED
        BY <1>1, <1>2, <3>2, <4>1, <4>2
    <3> QED
      BY <3>1, <3>2
  <2>4. DOMAIN r # {} => HEAP_START \in DOMAIN r
    <3> SUFFICES ASSUME DOMAIN r # {} PROVE HEAP_START \in DOMAIN r
      OBVIOUS
    <3>1. HEAP_START \in DOMAIN h
      BY <1>2 DEF Tiled
    <3>2. HEAP_START < c
      BY <1>1, <1>2, <1>3, Constants
    <3> QED
      BY <1>1, <1>2, <3>1, <3>2
  <2> QED
    BY <2>1, <2>2, <2>3, <2>4 DEF Tiled
<1>7. Isolated(r, 0)
  <2> SUFFICES ASSUME NEW d \in DOMAIN r, ~r[d].allocated
               PROVE  /\ r[d].next # 0 /\ r[r[d].next].allocated
                      /\ IF r[d].prev = 0 THEN d = HEAP_START
                         ELSE /\ r[d].prev \in DOMAIN r /\ r[r[d].prev].next = d
                              /\ r[r[d].prev].allocated
    BY DEF Isolated
  <2>1. d \in DOMAIN h \ {c} /\ ~h[d].allocated
    BY <1>2
  <2>2. /\ h[d].next # 0 /\ (h[h[d].next].allocated \/ h[d].next = c)
        /\ IF h[d].prev = 0 THEN d = HEAP_START
           ELSE /\ h[d].prev \in DOMAIN h /\ h[h[d].prev].next = d
                /\ h[h[d].prev].allocated \/ h[d].prev = c
    BY <2>1 DEF Isolated
  <2>3. d # h[c].prev
    BY <1>5, <1>1, <2>1 DEF PrevUsed
  <2>4. h[d].next # c
    <3> SUFFICES ASSUME h[d].next = c PROVE FALSE
      OBVIOUS
    <3>1. h[c].prev # 0
      BY <1>4
    <3>2. \A e, f \in DOMAIN h : h[e].next # 0 /\ h[e].next = h[f].next => e = f
      BY Chunks
    <3> QED
      BY <1>1, <1>2, <1>5, <2>3, <3>1, <3>2
  <2>5. r[d].next # 0 /\ r[r[d].next].allocated
    BY <1>1, <1>2, <2>1, <2>2, <2>3, <2>4
  <2>6. h[d].prev # 0 => h[d].prev \in DOMAIN r /\ r[h[d].prev].allocated
    BY <1>1, <1>2, <2>1, <2>2
  <2>7. h[d].prev # 0 => r[h[d].prev].next = d
    <3>1. h[d].prev # 0 => h[d].prev # h[c].prev
      BY <1>2, <1>5, <2>1, <2>2
    <3> QED
      BY <1>2, <2>2, <2>6, <3>1
  <2> QED
    BY <1>2, <2>2, <2>5, <2>6, <2>7
<1>8. Owned(r, blocks)
  BY <1>2 DEF Owned
<1> QED
  BY <1>2, <1>4, <1>6, <1>7, <1>8

\* Marking chunk c as taken for a block of n bytes keeps the client's books.
LEMMA TakeOwned ==
    ASSUME NEW h, NEW blocks, Owned(h, blocks), NEW r,
           NEW c \in Nat, NEW n \in Nat, NEW l \in Nat, n + HDR <= l,
           c \in DOMAIN r, r[c].allocated, l <= r[c].length, r[c].length \in Nat,
           \A d \in DOMAIN h : h[d].allocated =>
               d # c /\ d \in DOMAIN r /\ r[d].allocated /\ r[d].length = h[d].length,
           \A d \in DOMAIN r : r[d].allocated => d = c \/ (d \in DOMAIN h /\ h[d].allocated)
    PROVE  Owned(r, Put(blocks, c + HDR, n))
<1> DEFINE all == Put(blocks, c + HDR, n)
<1>1. DOMAIN all = DOMAIN blocks \cup {c + HDR}
      /\ \A p \in DOMAIN all : all[p] = IF p = c + HDR THEN n ELSE blocks[p]
  BY DEF Put
<1> HIDE DEF all
<1>2. ASSUME NEW p \in DOMAIN all
      PROVE  /\ p \in Nat /\ p - HDR \in DOMAIN r /\ r[p - HDR].allocated
             /\ all[p] \in Nat /\ all[p] + HDR <= r[p - HDR].length
  <2>1. CASE p = c + HDR
    <3>1. p \in Nat /\ p - HDR = c /\ HDR \in Nat
      BY <2>1, Constants
    <3> QED
      BY <1>1, <2>1, <3>1
  <2>2. CASE p # c + HDR
    BY <1>1, <2>2 DEF Owned
  <2> QED
    BY <2>1, <2>2
<1>3. ASSUME NEW d \in DOMAIN r, r[d].allocated
      PROVE  d + HDR \in DOMAIN all
  BY <1>1, <1>3 DEF Owned
<1> QED
  BY <1>2, <1>3 DEF Owned, all

\* The list h after alloc_chunk has appended a chunk of length l at c behind the chunk at q.
Appended(h, q, c, l) ==
    Put(IF q = 0 THEN h ELSE [h EXCEPT ![q].next = c], c,
        [prev |-> q, next |-> 0, allocated |-> TRUE, length |-> l])

\* Adding a chunk in use behind the last one, or as the first one.
LEMMA AppendGood ==
    ASSUME NEW h, NEW max \in Nat, Tiled(h, max), Isolated(h, 0),
           NEW blocks, Owned(h, blocks),
           NEW c \in Nat, NEW l \in Nat, NEW q \in Nat,
           l > 0, HEAP_START <= c, c + l <= max,
           IF q = 0 THEN DOMAIN h = {} /\ c = HEAP_START
           ELSE q \in DOMAIN h /\ h[q].next = 0 /\ c = q + h[q].length,
           NEW n \in Nat, n + HDR <= l,
           NEW r, r = Appended(h, q, c, l)
    PROVE  Tiled(r, max) /\ Isolated(r, 0) /\ Owned(r, Put(blocks, c + HDR, n))
<1> DEFINE new == [prev |-> q, next |-> 0, allocated |-> TRUE, length |-> l]
           g == IF q = 0 THEN h ELSE [h EXCEPT ![q].next = c]
<1>1. /\ \A d \in DOMAIN h :
            /\ d \in Nat /\ d # 0 /\ HEAP_START <= d
            /\ h[d] \in Header /\ h[d].length \in Nat /\ h[d].length > 0
            /\ h[d].next \in Nat /\ h[d].prev \in Nat
            /\ d + h[d].length <= max
      /\ \A d, e \in DOMAIN h : d < e => d + h[d].length <= e
      /\ \A d \in DOMAIN h : h[d].next = 0 => \A e \in DOMAIN h : e <= d
      /\ \A d \in DOMAIN h : h[d].next # 0 =>
            h[d].next = d + h[d].length /\ h[d].next \in DOMAIN h /\ d < h[d].next
  BY Chunks
<1>2. DOMAIN g = DOMAIN h
      /\ \A d \in DOMAIN h :
            /\ g[d] \in Header
            /\ g[d].allocated = h[d].allocated /\ g[d].length = h[d].length
            /\ g[d].prev = h[d].prev
            /\ g[d].next = (IF d = q THEN c ELSE h[d].next)
  <2>1. CASE q = 0
    BY <1>1, <2>1
  <2>2. CASE q # 0
    <3>1. DOMAIN g = DOMAIN h
          /\ \A d \in DOMAIN h : g[d] = IF d = q THEN [h[d] EXCEPT !.next = c] ELSE h[d]
      BY <2>2
    <3> HIDE DEF g
    <3>2. ASSUME NEW d \in DOMAIN h
          PROVE  /\ g[d] \in Header
                 /\ g[d].allocated = h[d].allocated /\ g[d].length = h[d].length
                 /\ g[d].prev = h[d].prev
                 /\ g[d].next = (IF d = q THEN c ELSE h[d].next)
      <4>1. h[d] \in Header
        BY <1>1
      <4>2. CASE d = q
        <5>1. g[d] = [h[d] EXCEPT !.next = c]
          BY <3>1, <4>2, Zenon
        <5> QED
          BY <4>1, <4>2, <5>1 DEF Header
      <4>3. CASE d # q
        <5>1. g[d] = h[d]
          BY <3>1, <4>3, Zenon
        <5> QED
          BY <4>1, <4>3, <5>1, Zenon
      <4> QED
        BY <4>2, <4>3
    <3> QED
      BY <3>1, <3>2, Zenon
  <2> QED
    BY <2>1, <2>2
<1>3. /\ DOMAIN r = DOMAIN h \cup {c}
      /\ \A d \in DOMAIN r : r[d] = IF d = c THEN new ELSE g[d]
  BY <1>2 DEF Put, Appended
<1> HIDE DEF g
<1>4. new \in Header /\ new.prev = q /\ new.next = 0 /\ new.allocated /\ new.length = l
  BY DEF Header
<1> HIDE DEF new
<1>5. \A d \in DOMAIN h : d < c /\ d + h[d].length <= c
  <2> SUFFICES ASSUME NEW d \in DOMAIN h PROVE d < c /\ d + h[d].length <= c
    OBVIOUS
  <2>1. q \in DOMAIN h /\ h[q].next = 0 /\ c = q + h[q].length
    OBVIOUS
  <2>2. h[q].length \in Nat /\ h[q].length > 0 /\ h[d].length \in Nat /\ d \in Nat
    BY <1>1, <2>1, Zenon
  <2>3. d <= q /\ (d < q => d + h[d].length <= q)
    BY <1>1, <2>1
  <2>4. CASE d = q
    BY <2>1, <2>2, <2>4
  <2>5. CASE d # q
    BY <2>1, <2>2, <2>3, <2>5
  <2> QED
    BY <2>4, <2>5
<1>6. c \notin DOMAIN h
  BY <1>1, <1>5
<1>7. /\ r[c] \in Header /\ r[c].prev = q /\ r[c].next = 0 /\ r[c].allocated
      /\ r[c].length = l
      /\ \A d \in DOMAIN h :
            /\ r[d] \in Header
            /\ r[d].allocated = h[d].allocated /\ r[d].length = h[d].length
            /\ r[d].prev = h[d].prev
            /\ r[d].next = (IF d = q THEN c ELSE h[d].next)
  <2>1. r[c] = new
    BY <1>3
  <2>2. \A d \in DOMAIN h : r[d] = g[d]
    BY <1>3, <1>6
  <2>3. /\ r[c] \in Header /\ r[c].prev = q /\ r[c].next = 0 /\ r[c].allocated
        /\ r[c].length = l
    BY <1>4, <2>1
  <2>4. ASSUME NEW d \in DOMAIN h
        PROVE  /\ r[d] \in Header
               /\ r[d].allocated = h[d].allocated /\ r[d].length = h[d].length
               /\ r[d].prev = h[d].prev
               /\ r[d].next = (IF d = q THEN c ELSE h[d].next)
    <3>1. r[d] = g[d]
      BY <2>2
    <3> QED
      BY <1>2, <3>1
  <2> QED
    BY <2>3, <2>4
<1>7a. /\ \A d \in DOMAIN h : d # q => r[d].next = h[d].next
       /\ q \in DOMAIN h => r[q].next = c
       /\ \A d \in DOMAIN h : r[d].length = h[d].length
  BY <1>2, <1>3, <1>6
<1>8. Tiled(r, max)
  <2>1. ASSUME NEW d \in DOMAIN r
        PROVE  /\ d \in Nat /\ HEAP_START <= d
               /\ r[d] \in Header /\ r[d].length > 0 /\ d + r[d].length <= max
    <3>1. CASE d = c
      BY <1>7, <3>1
    <3>2. CASE d \in DOMAIN h
      BY <1>1, <1>7, <3>2
    <3> QED
      BY <1>3, <3>1, <3>2
  <2>2. ASSUME NEW d \in DOMAIN r, NEW e \in DOMAIN r, d < e
        PROVE  d + r[d].length <= e
    <3>1. d \in DOMAIN h
      BY <1>1, <1>3, <1>5, <2>2
    <3>2. r[d].length = h[d].length
      BY <1>7, <3>1
    <3> QED
      BY <1>1, <1>3, <1>5, <2>2, <3>1, <3>2
  <2>3. ASSUME NEW d \in DOMAIN r
        PROVE  IF r[d].next = 0 THEN \A e \in DOMAIN r : e <= d
               ELSE r[d].next = d + r[d].length /\ r[d].next \in DOMAIN r
    <3>1. CASE d = c
      BY <1>1, <1>3, <1>5, <1>7, <3>1
    <3>2. CASE d # c /\ d = q
      <4>1. d \in DOMAIN h /\ q # 0 /\ c = q + h[q].length /\ c # 0
        BY <1>1, <1>3, <3>2, Constants
      <4>2. r[d].next = c /\ r[d].length = h[d].length
        BY <1>7a, <3>2, <4>1
      <4> QED
        BY <1>3, <3>2, <4>1, <4>2
    <3>3. CASE d # c /\ d # q
      <4>1. d \in DOMAIN h /\ q # 0 /\ h[d].next # 0
        <5>1. d \in DOMAIN h /\ q # 0
          BY <1>3, <3>3
        <5>2. q \in DOMAIN h /\ h[q].next = 0
          BY <5>1
        <5> QED
          BY <1>1, <3>3, <5>1, <5>2
      <4> QED
        <5>1. r[d].next = h[d].next /\ r[d].length = h[d].length
          <6>1. d \in DOMAIN h /\ d # q
            BY <3>3, <4>1
          <6> QED
            BY <1>7a, <6>1
        <5> QED
          <6>1. h[d].next = d + h[d].length /\ h[d].next \in DOMAIN h
            BY <1>1, <4>1
          <6> QED
            BY <1>3, <4>1, <5>1, <6>1
    <3> QED
      BY <3>1, <3>2, <3>3
  <2>4. HEAP_START \in DOMAIN r
    <3>1. DOMAIN h # {} => HEAP_START \in DOMAIN h
      BY DEF Tiled
    <3> QED
      BY <1>3, <3>1
  <2> QED
    BY <2>1, <2>2, <2>3, <2>4 DEF Tiled
<1>9. Isolated(r, 0)
  <2> SUFFICES ASSUME NEW d \in DOMAIN r, ~r[d].allocated
               PROVE  /\ r[d].next # 0 /\ r[r[d].next].allocated
                      /\ IF r[d].prev = 0 THEN d = HEAP_START
                         ELSE /\ r[d].prev \in DOMAIN r /\ r[r[d].prev].next = d
                              /\ r[r[d].prev].allocated
    BY DEF Isolated
  <2>1. d \in DOMAIN h /\ ~h[d].allocated /\ d # 0
    BY <1>1, <1>3, <1>7
  <2>2. /\ h[d].next # 0 /\ (h[h[d].next].allocated \/ h[d].next = 0)
        /\ IF h[d].prev = 0 THEN d = HEAP_START
           ELSE /\ h[d].prev \in DOMAIN h /\ h[h[d].prev].next = d
                /\ h[h[d].prev].allocated \/ h[d].prev = 0
    BY <2>1 DEF Isolated
  <2>3. d # q /\ h[d].next \in DOMAIN h
    BY <1>1, <2>1, <2>2
  <2>4. r[d].next # 0 /\ r[r[d].next].allocated
    BY <1>7, <2>1, <2>2, <2>3
  <2>5. h[d].prev # 0 => h[d].prev # q
    BY <1>1, <2>1, <2>2
  <2>6. r[d].prev = h[d].prev
    BY <1>7, <2>1
  <2>7. h[d].prev # 0 => /\ h[d].prev \in DOMAIN h /\ h[h[d].prev].next = d
                        /\ h[h[d].prev].allocated
    BY <2>2
  <2>8. h[d].prev # 0 => /\ h[d].prev \in DOMAIN r /\ r[h[d].prev].next = d
                        /\ r[h[d].prev].allocated
    BY <1>3, <1>7, <2>5, <2>7
  <2> QED
    BY <2>2, <2>4, <2>6, <2>8
<1>10. Owned(r, Put(blocks, c + HDR, n))
  <2>1. \A d \in DOMAIN h : h[d].allocated =>
           d # c /\ d \in DOMAIN r /\ r[d].allocated /\ r[d].length = h[d].length
    BY <1>3, <1>6, <1>7
  <2>2. \A d \in DOMAIN r : r[d].allocated => d = c \/ (d \in DOMAIN h /\ h[d].allocated)
    BY <1>3, <1>7
  <2>3. c \in DOMAIN r /\ r[c].allocated /\ l <= r[c].length /\ r[c].length \in Nat
    BY <1>3, <1>7
  <2>4. /\ c \in Nat /\ n \in Nat /\ l \in Nat /\ n + HDR <= l
        /\ Owned(h, blocks)
    OBVIOUS
  <2> QED
    BY ONLY <2>1, <2>2, <2>3, <2>4, TakeOwned
<1> QED
  BY <1>8, <1>9, <1>10

\* Taking a free chunk that fits, with and without a rest left over.
LEMMA SplitGood ==
    ASSUME NEW max \in Nat, max < WORD, Tiled(hdr, max), Isolated(hdr, 0),
           NEW blocks, Owned(hdr, blocks),
           NEW c \in DOMAIN hdr, ~hdr[c].allocated,
           NEW n \in Nat, len = n + HDR, len <= hdr[c].length,
           NEW r, r = split_chunk(c)
    PROVE  Tiled(r, max) /\ Isolated(r, 0) /\ Owned(r, Put(blocks, c + HDR, n))
<1> DEFINE old == hdr[c]
           used == [old EXCEPT !.allocated = TRUE]
           new == c + len
           rest == [prev |-> c, next |-> old.next, allocated |-> FALSE,
                    length |-> old.length - len]
           taken == [used EXCEPT !.next = new, !.length = len]
<1>1. /\ \A d \in DOMAIN hdr :
            /\ d \in Nat /\ d # 0 /\ HEAP_START <= d
            /\ hdr[d] \in Header /\ hdr[d].length \in Nat /\ hdr[d].length > 0
            /\ hdr[d].next \in Nat /\ hdr[d].prev \in Nat
            /\ d + hdr[d].length <= max
      /\ \A d, e \in DOMAIN hdr : d < e => d + hdr[d].length <= e
      /\ \A d \in DOMAIN hdr : hdr[d].next = 0 => \A e \in DOMAIN hdr : e <= d
      /\ \A d \in DOMAIN hdr : hdr[d].next # 0 =>
            hdr[d].next = d + hdr[d].length /\ hdr[d].next \in DOMAIN hdr
  BY Chunks
<1>2. len \in Nat /\ len > 0 /\ n + HDR <= len /\ HDR \in Nat \ {0} /\ WORD \in Nat
  BY Constants
<1>3. new \in Nat /\ c < new /\ RestStart(c) = new
  <2>1. c \in Nat /\ c + len < WORD
    BY <1>1, <1>2
  <2>2. Add(c, len) = c + len
    BY <2>1, <1>2, AddSmall
  <2> QED
    BY <1>2, <2>1, <2>2 DEF RestStart
<1>4. Sub(old.length, len) = old.length - len
  <2>1. old.length \in Nat /\ old.length < WORD
    BY <1>1, <1>2
  <2> QED
    BY <1>2, <2>1, SubSmall
<1>5. /\ old.next # 0 /\ old.next \in DOMAIN hdr /\ hdr[old.next].allocated
      /\ old.next = c + old.length /\ old.next # c
  BY <1>1 DEF Isolated
<1>6. \A d \in DOMAIN hdr : ~hdr[d].allocated =>
          /\ hdr[d].next # 0 /\ hdr[d].next \in DOMAIN hdr /\ hdr[hdr[d].next].allocated
          /\ IF hdr[d].prev = 0 THEN d = HEAP_START
             ELSE /\ hdr[d].prev \in DOMAIN hdr /\ hdr[hdr[d].prev].next = d
                  /\ hdr[hdr[d].prev].allocated
  BY <1>1 DEF Isolated
<1>7. CASE old.length - len > HDR
  <2>1. r = Put([hdr EXCEPT ![c] = taken], new, rest)
    BY <1>3, <1>4, <1>7 DEF split_chunk
  <2>2. \A d \in DOMAIN hdr : d # new
    BY <1>1, <1>2, <1>3, <1>7
  <2>3. /\ taken \in Header /\ taken.prev = old.prev /\ taken.next = new
        /\ taken.allocated /\ taken.length = len
    BY <1>1, <1>2, <1>3 DEF Header
  <2>4. /\ rest \in Header /\ rest.prev = c /\ rest.next = old.next
        /\ ~rest.allocated /\ rest.length = old.length - len
    BY <1>1, <1>2, <1>7 DEF Header
  <2>5. /\ DOMAIN r = DOMAIN hdr \cup {new}
        /\ r[new] = rest /\ r[c] = taken
        /\ \A d \in DOMAIN hdr \ {c} : r[d] = hdr[d]
    <3> HIDE DEF rest, taken, new
    <3>1. \A d \in DOMAIN hdr \cup {new} :
             r[d] = IF d = new THEN rest ELSE IF d = c THEN taken ELSE hdr[d]
      BY <2>1 DEF Put
    <3>2. DOMAIN r = DOMAIN hdr \cup {new}
      BY <2>1 DEF Put
    <3> QED
      BY <2>2, <3>1, <3>2
  <2>6. new + rest.length = old.next /\ new < old.next /\ rest.length > 0
    BY <1>1, <1>2, <1>3, <1>5, <1>7, <2>4
  <2> HIDE DEF rest, taken, new
  <2>7. Tiled(r, max)
    <3>1. ASSUME NEW d \in DOMAIN r
          PROVE  /\ d \in Nat /\ HEAP_START <= d
                 /\ r[d] \in Header /\ r[d].length > 0 /\ d + r[d].length <= max
      <4>1. CASE d = new
        BY <1>1, <1>3, <1>5, <2>4, <2>5, <2>6, <4>1, Constants
      <4>2. CASE d = c
        BY <1>1, <1>2, <2>3, <2>5, <4>2
      <4>3. CASE d \in DOMAIN hdr \ {c}
        BY <1>1, <2>5, <4>3
      <4> QED
        BY <2>5, <4>1, <4>2, <4>3
    <3>2. ASSUME NEW d \in DOMAIN r, NEW e \in DOMAIN r, d < e
          PROVE  d + r[d].length <= e
      <4>1. c + r[c].length = new
        BY <2>3, <2>5 DEF new
      <4>2. \A f \in DOMAIN hdr : c < f => old.next <= f
        BY <1>1, <1>5
      <4>3. \A f \in DOMAIN hdr : f < new => f <= c
        BY <1>1, <1>3, <1>5, <2>6, <4>2
      <4>4. CASE d = new
        BY <1>1, <1>3, <2>5, <2>6, <3>2, <4>2, <4>4
      <4>5. CASE d = c
        BY <1>1, <1>3, <2>5, <2>6, <3>2, <4>1, <4>2, <4>5
      <4>6. CASE d \in DOMAIN hdr \ {c} /\ e = new
        <5>1. d < c
          BY <1>1, <1>3, <3>2, <4>3, <4>6
        <5> QED
          BY <1>1, <1>3, <2>5, <4>6, <5>1
      <4>7. CASE d \in DOMAIN hdr \ {c} /\ e # new
        BY <1>1, <2>5, <3>2, <4>7
      <4> QED
        BY <2>5, <4>4, <4>5, <4>6, <4>7
    <3>3. ASSUME NEW d \in DOMAIN r
          PROVE  IF r[d].next = 0 THEN \A e \in DOMAIN r : e <= d
                 ELSE r[d].next = d + r[d].length /\ r[d].next \in DOMAIN r
      <4>1. CASE d = new
        BY <1>5, <2>4, <2>5, <2>6, <4>1
      <4>2. CASE d = c
        <5>1. r[d].next = new /\ r[d].length = len /\ new # 0
          BY <1>1, <1>3, <2>3, <2>5, <4>2
        <5> QED
          BY <2>5, <4>2, <5>1 DEF new
      <4>3. CASE d \in DOMAIN hdr \ {c}
        <5>1. r[d] = hdr[d]
          BY <2>5, <4>3
        <5>2. CASE hdr[d].next = 0
          <6>1. old.next <= d
            BY <1>1, <1>5, <4>3, <5>2
          <6> QED
            BY <1>1, <1>3, <2>5, <2>6, <4>3, <5>1, <5>2, <6>1
        <5>3. CASE hdr[d].next # 0
          BY <1>1, <2>5, <4>3, <5>1, <5>3
        <5> QED
          BY <5>2, <5>3
      <4> QED
        BY <2>5, <4>1, <4>2, <4>3
    <3>4. HEAP_START \in DOMAIN r
      BY <2>5 DEF Tiled
    <3> QED
      BY <3>1, <3>2, <3>3, <3>4 DEF Tiled
  <2>8. Isolated(r, 0)
    <3> SUFFICES ASSUME NEW d \in DOMAIN r, ~r[d].allocated
                 PROVE  /\ r[d].next # 0 /\ r[r[d].next].allocated
                        /\ IF r[d].prev = 0 THEN d = HEAP_START
                           ELSE /\ r[d].prev \in DOMAIN r /\ r[r[d].prev].next = d
                                /\ r[r[d].prev].allocated
      BY DEF Isolated
    <3>1. CASE d = new
      <4>1. r[d].next = old.next /\ r[d].prev = c
        BY <2>4, <2>5, <3>1
      <4>2. r[old.next] = hdr[old.next] /\ c # 0
        BY <1>1, <1>5, <2>5
      <4> QED
        BY <1>5, <2>3, <2>5, <3>1, <4>1, <4>2
    <3>2. CASE d # new
      <4>1. d \in DOMAIN hdr \ {c} /\ r[d] = hdr[d] /\ ~hdr[d].allocated
        BY <2>3, <2>5, <3>2
      <4>2. hdr[d].next # c /\ r[hdr[d].next] = hdr[hdr[d].next]
        BY <1>6, <2>5, <4>1
      <4>3. hdr[d].prev # 0 => hdr[d].prev # c /\ r[hdr[d].prev] = hdr[hdr[d].prev]
        BY <1>6, <2>5, <4>1
      <4> QED
        BY <1>6, <2>5, <4>1, <4>2, <4>3
    <3> QED
      BY <3>1, <3>2
  <2>9. \A d \in DOMAIN r : r[d].allocated => d = c \/ (d \in DOMAIN hdr /\ hdr[d].allocated)
    BY <2>4, <2>5
  <2>10. /\ \A d \in DOMAIN hdr : hdr[d].allocated =>
                d # c /\ d \in DOMAIN r /\ r[d].allocated /\ r[d].length = hdr[d].length
         /\ c \in Nat /\ c \in DOMAIN r /\ r[c].allocated
         /\ r[c].length \in Nat /\ len <= r[c].length
    BY <1>1, <1>2, <2>3, <2>5
  <2> QED
    BY <1>2, <2>7, <2>8, <2>9, <2>10, TakeOwned
<1>8. CASE ~(old.length - len > HDR)
  <2>1. r = [hdr EXCEPT ![c] = used]
    BY <1>4, <1>8 DEF split_chunk
  <2>2. /\ used \in Header /\ used.prev = old.prev /\ used.next = old.next
        /\ used.allocated /\ used.length = old.length
    BY <1>1 DEF Header
  <2> HIDE DEF used
  <2>3. /\ DOMAIN r = DOMAIN hdr /\ r[c] = used
        /\ \A d \in DOMAIN hdr \ {c} : r[d] = hdr[d]
    BY <2>1
  <2>4. \A d \in DOMAIN hdr : /\ r[d] \in Header /\ r[d].next = hdr[d].next
                              /\ r[d].prev = hdr[d].prev /\ r[d].length = hdr[d].length
                              /\ hdr[d].allocated => r[d].allocated
    BY <1>1, <2>2, <2>3
  <2>5. Tiled(r, max)
    BY <2>3, <2>4 DEF Tiled
  <2>6. Isolated(r, 0)
    <3> SUFFICES ASSUME NEW d \in DOMAIN r, ~r[d].allocated
                 PROVE  /\ r[d].next # 0 /\ r[r[d].next].allocated
                        /\ IF r[d].prev = 0 THEN d = HEAP_START
                           ELSE /\ r[d].prev \in DOMAIN r /\ r[r[d].prev].next = d
                                /\ r[r[d].prev].allocated
      BY DEF Isolated
    <3>1. d \in DOMAIN hdr /\ ~hdr[d].allocated
      BY <2>3, <2>4
    <3> QED
      BY <1>6, <2>3, <2>4, <3>1
  <2>7. \A d \in DOMAIN r : r[d].allocated => d = c \/ (d \in DOMAIN hdr /\ hdr[d].allocated)
    BY <2>3
  <2>8. /\ \A d \in DOMAIN hdr : hdr[d].allocated =>
               d # c /\ d \in DOMAIN r /\ r[d].allocated /\ r[d].length = hdr[d].length
        /\ c \in Nat /\ c \in DOMAIN r /\ r[c].allocated
        /\ r[c].length \in Nat /\ len <= r[c].length
    BY <1>1, <2>2, <2>3, <2>4
  <2> QED
    BY <1>2, <2>5, <2>6, <2>7, <2>8, TakeOwned
<1> QED
  BY <1>7, <1>8

\* The tiling depends on the lengths and the forward links only.
LEMMA SameTiling ==
    ASSUME NEW h, NEW max, Tiled(h, max), NEW r, DOMAIN r = DOMAIN h,
           \A d \in DOMAIN h : /\ r[d] \in Header /\ r[d].next = h[d].next
                               /\ r[d].length = h[d].length
    PROVE  Tiled(r, max)
BY DEF Tiled

\* The chunk list with the chunk at c marked free, as glue_chunk first writes it.
Marked(c) == [hdr EXCEPT ![c].allocated = FALSE]

\* kfree marks the chunk of a block as free.
LEMMA FreedGood ==
    ASSUME NEW max \in Nat, max < WORD, Tiled(hdr, max), Isolated(hdr, 0), Owned(hdr, live),
           NEW p \in DOMAIN live, NEW c, c = p - HDR, LinkTrue(hdr, c),
           NEW r, r = Marked(c)
    PROVE  /\ Loose(r, c, max, Without(live, p))
           /\ c \in DOMAIN hdr /\ DOMAIN r = DOMAIN hdr
           /\ \A d \in DOMAIN hdr : /\ r[d].next = hdr[d].next /\ r[d].prev = hdr[d].prev
                                    /\ r[d].length = hdr[d].length
                                    /\ d # c => r[d].allocated = hdr[d].allocated
<1>1. p \in Nat /\ c \in DOMAIN hdr /\ hdr[c].allocated
  BY DEF Owned
<1>2. \A d \in DOMAIN hdr : d \in Nat /\ hdr[d] \in Header
  BY Chunks
<1>3. DOMAIN r = DOMAIN hdr
      /\ \A d \in DOMAIN hdr : r[d] = IF d = c THEN [hdr[c] EXCEPT !.allocated = FALSE]
                                      ELSE hdr[d]
  BY DEF Marked
<1>3a. DOMAIN r = DOMAIN hdr
  BY <1>3
<1>4. ~r[c].allocated
  BY <1>1, <1>2, <1>3 DEF Header
<1>5. \A d \in DOMAIN hdr :
          /\ r[d] \in Header /\ r[d].next = hdr[d].next /\ r[d].prev = hdr[d].prev
          /\ r[d].length = hdr[d].length
  <2> SUFFICES ASSUME NEW d \in DOMAIN hdr
               PROVE  /\ r[d] \in Header /\ r[d].next = hdr[d].next
                      /\ r[d].prev = hdr[d].prev /\ r[d].length = hdr[d].length
    BY Zenon
  <2>1. hdr[d] \in Header
    BY <1>2
  <2>2. CASE d = c
    <3>1. r[d] = [hdr[d] EXCEPT !.allocated = FALSE]
      BY <1>3, <2>2, Zenon
    <3> QED
      BY <2>1, <3>1, SetFree
  <2>3. CASE d # c
    <3>1. r[d] = hdr[d]
      BY <1>3, <2>3, Zenon
    <3> QED
      BY <2>1, <3>1, Zenon
  <2> QED
    BY <2>2, <2>3
<1>6. \A d \in DOMAIN hdr : d # c => r[d].allocated = hdr[d].allocated
  BY <1>3
<1>7. Tiled(r, max)
  BY <1>3a, <1>5, SameTiling
<1>8. Isolated(r, c)
  <2> SUFFICES ASSUME NEW d \in DOMAIN r \ {c}, ~r[d].allocated
               PROVE  /\ r[d].next # 0 /\ (r[r[d].next].allocated \/ r[d].next = c)
                      /\ IF r[d].prev = 0 THEN d = HEAP_START
                         ELSE /\ r[d].prev \in DOMAIN r /\ r[r[d].prev].next = d
                              /\ r[r[d].prev].allocated \/ r[d].prev = c
    BY DEF Isolated
  <2>1. d \in DOMAIN hdr \ {0} /\ ~hdr[d].allocated
    <3>1. \A e \in DOMAIN hdr : e # 0
      BY Chunks
    <3> QED
      BY <1>3, <1>6, <3>1
  <2>2. /\ hdr[d].next # 0 /\ (hdr[hdr[d].next].allocated \/ hdr[d].next = 0)
        /\ IF hdr[d].prev = 0 THEN d = HEAP_START
           ELSE /\ hdr[d].prev \in DOMAIN hdr /\ hdr[hdr[d].prev].next = d
                /\ hdr[hdr[d].prev].allocated \/ hdr[d].prev = 0
    BY <2>1 DEF Isolated
  <2>3. hdr[d].next \in DOMAIN hdr
    BY <2>1, <2>2 DEF Tiled
  <2>4. r[d].next # 0 /\ (r[r[d].next].allocated \/ r[d].next = c)
    BY <1>3a, <1>5, <1>6, <2>1, <2>2, <2>3
  <2>5. r[d].prev = hdr[d].prev
    BY <1>3a, <1>5, <2>1
  <2>6. CASE hdr[d].prev = 0
    BY <2>2, <2>4, <2>5, <2>6
  <2>7. CASE hdr[d].prev # 0
    <3>1. hdr[d].prev \in DOMAIN hdr /\ hdr[hdr[d].prev].next = d /\ hdr[hdr[d].prev].allocated
      BY <2>2, <2>7
    <3> QED
      BY <1>3a, <1>5, <1>6, <2>4, <2>5, <2>7, <3>1
  <2> QED
    BY <2>6, <2>7
<1>9. LinkTrue(r, c)
  <2>1. r[c].prev = hdr[c].prev
    BY <1>1, <1>5
  <2>2. CASE hdr[c].prev = 0
    BY <2>1, <2>2 DEF LinkTrue
  <2>3. CASE hdr[c].prev # 0
    <3>1. hdr[c].prev \in DOMAIN hdr /\ hdr[hdr[c].prev].next = c
      BY <2>3 DEF LinkTrue
    <3>2. r[hdr[c].prev].next = c
      BY <1>5, <3>1
    <3> QED
      BY <1>3a, <2>1, <2>3, <3>1, <3>2 DEF LinkTrue
  <2> QED
    BY <2>2, <2>3
<1>10. Owned(r, Without(live, p))
  <2> DEFINE rest == Without(live, p)
  <2>1. DOMAIN rest = DOMAIN live \ {p} /\ \A q \in DOMAIN rest : rest[q] = live[q]
    BY DEF Without
  <2> HIDE DEF rest
  <2>2. ASSUME NEW q \in DOMAIN rest
        PROVE  /\ q \in Nat /\ q - HDR \in DOMAIN r /\ r[q - HDR].allocated
               /\ rest[q] \in Nat /\ rest[q] + HDR <= r[q - HDR].length
    <3>1. /\ q \in DOMAIN live /\ q \in Nat /\ q # p /\ q - HDR \in DOMAIN hdr
          /\ hdr[q - HDR].allocated /\ live[q] \in Nat
          /\ live[q] + HDR <= hdr[q - HDR].length
      BY <2>1 DEF Owned
    <3>2. q - HDR # c
      <4>1. HDR \in Nat
        BY Constants
      <4>2. \A i, j \in Nat : i # j => i - HDR # j - HDR
        BY <4>1
      <4> QED
        BY <1>1, <3>1, <4>2
    <3> QED
      BY <1>3, <1>5, <1>6, <2>1, <3>1, <3>2
  <2>3. ASSUME NEW d \in DOMAIN r, r[d].allocated
        PROVE  d + HDR \in DOMAIN rest
    <3>1. d \in DOMAIN hdr /\ d # c /\ hdr[d].allocated
      BY <1>3, <1>4, <1>6, <2>3
    <3>2. d + HDR \in DOMAIN live
      BY <3>1 DEF Owned
    <3>3. d + HDR # p
      BY <1>1, <1>2, <3>1, Constants
    <3> QED
      BY <2>1, <3>2, <3>3
  <2> QED
    BY <2>2, <2>3 DEF Owned, rest
<1> QED
  BY <1>1, <1>3, <1>4, <1>5, <1>6, <1>7, <1>8, <1>9, <1>10 DEF Loose

\* Merging the freed chunk with the free one behind it, and into the one before.
LEMMA AbsorbLoose ==
    ASSUME NEW h, NEW max \in Nat, max < WORD, NEW x, NEW blocks, Loose(h, x, max, blocks),
           NEW a \in DOMAIN h, NEW b \in DOMAIN h, h[a].next = b, x \in {a, b},
           ~h[a].allocated, ~h[b].allocated, LinkTrue(h, a),
           NEW r, r = Absorb(h, a, b)
    PROVE  Loose(r, a, max, blocks)
<1>1. Tiled(h, max) /\ Isolated(h, x) /\ Owned(h, blocks)
  BY DEF Loose
<1>2. /\ a < b
      /\ h[b].next # 0 => b < h[b].next /\ h[b].next \in DOMAIN h
      /\ DOMAIN r = DOMAIN h \ {b}
      /\ \A d \in DOMAIN r :
            /\ r[d].allocated = h[d].allocated
            /\ r[d].next = (IF d = a THEN h[b].next ELSE h[d].next)
  BY <1>1, AbsorbFacts
<1>3. Isolated(r, a) /\ LinkTrue(r, a)
  BY <1>1, AbsorbIsolated
<1>4. Tiled(r, max)
  BY <1>1, AbsorbTiled
<1>5. Owned(r, blocks)
  BY <1>1, AbsorbOwned
<1>6. a \in Nat /\ b \in Nat
  BY <1>1, Chunks
<1>7. a \in DOMAIN r /\ ~r[a].allocated
  BY <1>2, <1>6
<1> QED
  BY <1>3, <1>4, <1>5, <1>7 DEF Loose

\* The merged chunk has the one's chunk before it and the other's behind it.
LEMMA AbsorbNeighbours ==
    ASSUME NEW h, NEW max \in Nat, max < WORD, NEW x, NEW blocks, Loose(h, x, max, blocks),
           NEW a \in DOMAIN h, NEW b \in DOMAIN h, h[a].next = b, x \in {a, b},
           ~h[a].allocated, ~h[b].allocated, LinkTrue(h, a),
           NEW r, r = Absorb(h, a, b)
    PROVE  /\ r[a].prev = h[a].prev
           /\ PrevUsed(h, a) => PrevUsed(r, a)
           /\ NextUsed(h, b) => NextUsed(r, a)
           /\ DOMAIN r = DOMAIN h \ {b}
           /\ \A d \in DOMAIN r : r[d].allocated = h[d].allocated
<1>1. Tiled(h, max) /\ Isolated(h, x)
  BY DEF Loose
<1>2. /\ a < b
      /\ h[b].next # 0 => b < h[b].next /\ h[b].next \in DOMAIN h
      /\ DOMAIN r = DOMAIN h \ {b}
      /\ \A d \in DOMAIN r :
            /\ r[d].allocated = h[d].allocated
            /\ r[d].next = (IF d = a THEN h[b].next ELSE h[d].next)
  BY <1>1, AbsorbFacts
<1>3. /\ r[a].prev = h[a].prev
      /\ PrevUsed(h, a) => PrevUsed(r, a)
  BY <1>1, AbsorbIsolated
<1>4. a \in Nat /\ b \in Nat
  BY <1>1, Chunks
<1>5. r[a].next = h[b].next
  BY <1>2, <1>4
<1>6. NextUsed(h, b) => NextUsed(r, a)
  <2> SUFFICES ASSUME NextUsed(h, b), h[b].next # 0 PROVE r[h[b].next].allocated
    BY <1>5 DEF NextUsed
  <2>1. h[b].next \in DOMAIN r
    <3>1. h[b].next \in DOMAIN h /\ h[b].next # b
      BY <1>2, <1>4
    <3> QED
      BY <1>2, <3>1
  <2> QED
    BY <1>2, <2>1 DEF NextUsed
<1> QED
  BY <1>2, <1>3, <1>6

\* When both neighbours of the freed chunk are in use, the list is in order.
LEMMA Settled ==
    ASSUME NEW h, NEW max \in Nat, NEW c, NEW blocks, Loose(h, c, max, blocks),
           PrevUsed(h, c), NextUsed(h, c), h[c].next # 0
    PROVE  Isolated(h, 0)
<1>1. /\ Tiled(h, max) /\ Isolated(h, c) /\ c \in DOMAIN h /\ ~h[c].allocated
      /\ LinkTrue(h, c)
  BY DEF Loose
<1>2. /\ \A d \in DOMAIN h : d \in Nat /\ d # 0 /\ HEAP_START <= d
      /\ \A d \in DOMAIN h : h[d].next # 0 => h[d].next \in DOMAIN h /\ d < h[d].next
      /\ \A d, e \in DOMAIN h : h[d].next # 0 /\ h[d].next = h[e].next => d = e
  BY <1>1, Chunks
<1> SUFFICES ASSUME NEW d \in DOMAIN h, ~h[d].allocated
             PROVE  /\ h[d].next # 0 /\ h[h[d].next].allocated
                    /\ IF h[d].prev = 0 THEN d = HEAP_START
                       ELSE /\ h[d].prev \in DOMAIN h /\ h[h[d].prev].next = d
                            /\ h[h[d].prev].allocated
  BY DEF Isolated
<1>3. CASE d = c
  BY <1>1, <1>3 DEF LinkTrue, PrevUsed, NextUsed
<1>4. CASE d # c
  <2>1. /\ h[d].next # 0 /\ (h[h[d].next].allocated \/ h[d].next = c)
        /\ IF h[d].prev = 0 THEN d = HEAP_START
           ELSE /\ h[d].prev \in DOMAIN h /\ h[h[d].prev].next = d
                /\ h[h[d].prev].allocated \/ h[d].prev = c
    BY <1>1, <1>4 DEF Isolated
  <2>2. h[d].next # c
    <3> SUFFICES ASSUME h[d].next = c PROVE FALSE
      OBVIOUS
    <3>1. d < c /\ c # 0
      BY <1>1, <1>2
    <3>2. h[c].prev # 0
      BY <1>1, <1>2, <3>1, Constants DEF LinkTrue
    <3>3. h[c].prev \in DOMAIN h /\ h[h[c].prev].next = c /\ h[h[c].prev].allocated
      BY <1>1, <3>2 DEF LinkTrue, PrevUsed
    <3>4. h[c].prev = d
      BY <1>2, <3>1, <3>3
    <3> QED
      BY <3>3, <3>4
  <2>3. h[d].prev # 0 => h[d].prev # c
    BY <2>1 DEF NextUsed
  <2> QED
    BY <2>1, <2>2, <2>3
<1> QED
  BY <1>3, <1>4

\* glue_chunk leaves a list in order but for the chunk that is freed.
LEMMA GlueGood ==
    ASSUME NEW max \in Nat, max < WORD, Tiled(hdr, max), Isolated(hdr, 0), Owned(hdr, live),
           NEW p \in DOMAIN live, NEW c, c = p - HDR, LinkTrue(hdr, c),
           NEW h, h = GluedBoth(c), NEW k, k = FreedChunk(c)
    PROVE  Loose(h, k, max, Without(live, p)) /\ PrevUsed(h, k) /\ NextUsed(h, k)
<1> DEFINE freed == Marked(c)
           blocks == Without(live, p)
           glued == Glued(c)
           b == hdr[c].next
           a == hdr[c].prev
<1>0. freed = Marked(c) /\ blocks = Without(live, p)
  OBVIOUS
<1>5. glued = IF GluesNext(c) THEN Absorb(freed, c, b) ELSE freed
  BY DEF Glued, Marked
<1> HIDE DEF freed, blocks, glued
<1>1. /\ Loose(freed, c, max, blocks)
      /\ c \in DOMAIN hdr /\ DOMAIN freed = DOMAIN hdr
      /\ \A d \in DOMAIN hdr : /\ freed[d].next = hdr[d].next /\ freed[d].prev = hdr[d].prev
                               /\ d # c => freed[d].allocated = hdr[d].allocated
  <2>1. Loose(freed, c, max, blocks)
    BY <1>0, FreedGood
  <2>2. c \in DOMAIN hdr /\ DOMAIN freed = DOMAIN hdr
    BY <1>0, FreedGood
  <2>3. \A d \in DOMAIN hdr : /\ freed[d].next = hdr[d].next /\ freed[d].prev = hdr[d].prev
                              /\ d # c => freed[d].allocated = hdr[d].allocated
    <3> TAKE d \in DOMAIN hdr
    <3>1. freed[d].next = hdr[d].next
      BY <1>0, FreedGood
    <3>2. freed[d].prev = hdr[d].prev
      BY <1>0, FreedGood
    <3>3. d # c => freed[d].allocated = hdr[d].allocated
      BY <1>0, FreedGood
    <3> QED
      BY <3>1, <3>2, <3>3
  <2> QED
    BY <2>1, <2>2, <2>3
<1>2. /\ \A d \in DOMAIN hdr : d \in Nat /\ d # 0
      /\ \A d \in DOMAIN hdr : hdr[d].next # 0 => hdr[d].next \in DOMAIN hdr /\ d < hdr[d].next
  BY Chunks
<1>3. a # 0 => a \in DOMAIN hdr /\ hdr[a].next = c /\ a < c
  BY <1>1, <1>2 DEF LinkTrue
<1>4. b # 0 => b \in DOMAIN hdr /\ c < b
  BY <1>1, <1>2
<1>6. /\ Loose(glued, c, max, blocks) /\ NextUsed(glued, c)
      /\ glued[c].prev = a
      /\ PrevUsed(freed, c) => PrevUsed(glued, c)
      /\ a # 0 => a \in DOMAIN glued /\ glued[a].allocated = hdr[a].allocated
  <2>1. CASE GluesNext(c)
    <3>1. b \in DOMAIN hdr /\ b # c /\ ~hdr[b].allocated
      BY <1>1, <1>2, <1>4, <2>1 DEF GluesNext
    <3>2. b \in DOMAIN freed /\ ~freed[b].allocated /\ freed[c].next = b
      BY <1>1, <3>1
    <3>3. NextUsed(freed, b)
      <4>1. hdr[b].next # 0 /\ hdr[hdr[b].next].allocated
        BY <1>2, <3>1 DEF Isolated
      <4>2. hdr[b].next \in DOMAIN hdr /\ hdr[b].next # c
        BY <1>1, <1>2, <1>4, <3>1, <4>1
      <4> QED
        BY <1>1, <3>1, <4>1, <4>2 DEF NextUsed
    <3>4. glued = Absorb(freed, c, b)
      BY <1>5, <2>1
    <3>5. /\ Loose(freed, c, max, blocks) /\ c \in {c, b}
          /\ ~freed[c].allocated /\ LinkTrue(freed, c) /\ c \in DOMAIN freed
      BY <1>1 DEF Loose
    <3> HIDE DEF b, a
    <3>5a. Loose(glued, c, max, blocks)
      BY <3>2, <3>4, <3>5, AbsorbLoose
    <3>6. /\ glued[c].prev = freed[c].prev
          /\ PrevUsed(freed, c) => PrevUsed(glued, c)
          /\ NextUsed(freed, b) => NextUsed(glued, c)
          /\ DOMAIN glued = DOMAIN freed \ {b}
          /\ \A d \in DOMAIN glued : glued[d].allocated = freed[d].allocated
      BY <3>2, <3>4, <3>5, AbsorbNeighbours
    <3>7. a # 0 => a \in DOMAIN freed \ {b} /\ a # c
      BY <1>1, <1>2, <1>3, <1>4, <3>1
    <3>8. glued[c].prev = a
      BY <1>1, <3>6 DEF a
    <3>9. a # 0 => a \in DOMAIN glued /\ glued[a].allocated = hdr[a].allocated
      <4> SUFFICES ASSUME a # 0 PROVE a \in DOMAIN glued /\ glued[a].allocated = hdr[a].allocated
        OBVIOUS
      <4>1. a \in DOMAIN freed /\ a \in DOMAIN glued /\ a \in DOMAIN hdr /\ a # c
        BY <1>1, <3>6, <3>7
      <4> QED
        BY <1>1, <3>6, <4>1
    <3> QED
      BY <3>3, <3>5a, <3>6, <3>8, <3>9
  <2>2. CASE ~GluesNext(c)
    <3>1. glued = freed
      BY <1>5, <2>2
    <3>2. NextUsed(freed, c)
      BY <1>1, <1>2, <1>4, <2>2 DEF GluesNext, NextUsed
    <3>3. a # 0 => a \in DOMAIN freed /\ freed[a].allocated = hdr[a].allocated
      BY <1>1, <1>2, <1>3
    <3> QED
      BY <1>1, <3>1, <3>2, <3>3
  <2> QED
    BY <2>1, <2>2
<1>7. CASE GluesPrev(c)
  <2>1. a # 0 /\ ~hdr[a].allocated /\ h = Absorb(glued, a, c) /\ k = a
    BY <1>7 DEF GluesPrev, GluedBoth, FreedChunk, glued
  <2>2. /\ Tiled(glued, max) /\ Isolated(glued, c) /\ c \in DOMAIN glued
        /\ ~glued[c].allocated /\ LinkTrue(glued, c)
    BY <1>6 DEF Loose
  <2>3. a \in DOMAIN glued /\ ~glued[a].allocated /\ glued[a].next = c /\ a # c
    BY <1>2, <1>3, <1>6, <2>1, <2>2 DEF LinkTrue
  <2>4. /\ IF glued[a].prev = 0 THEN a = HEAP_START
           ELSE /\ glued[a].prev \in DOMAIN glued /\ glued[glued[a].prev].next = a
                /\ glued[glued[a].prev].allocated \/ glued[a].prev = c
    BY <2>2, <2>3 DEF Isolated
  <2>5. LinkTrue(glued, a)
    BY <2>4 DEF LinkTrue
  <2>6. glued[a].prev # 0 => glued[a].prev # c
    <3>1. \A d \in DOMAIN glued : d \in Nat /\ (glued[d].next # 0 => d < glued[d].next)
      BY <2>2, Chunks
    <3>2. a # 0 /\ a < c
      BY <1>3, <2>1
    <3> QED
      BY <2>2, <2>3, <2>4, <3>1, <3>2
  <2>7. PrevUsed(glued, a)
    BY <2>4, <2>6 DEF PrevUsed
  <2>8. /\ Loose(h, a, max, blocks)
        /\ PrevUsed(glued, a) => PrevUsed(h, a)
        /\ NextUsed(glued, c) => NextUsed(h, a)
    <3>1. Loose(glued, c, max, blocks) /\ c \in {a, c} /\ h = Absorb(glued, a, c)
      BY <1>6, <2>1
    <3> HIDE DEF a, b
    <3>2. Loose(h, a, max, blocks)
      <4>1. /\ a \in DOMAIN glued /\ c \in DOMAIN glued /\ glued[a].next = c
            /\ ~glued[a].allocated /\ ~glued[c].allocated /\ LinkTrue(glued, a)
        BY <2>2, <2>3, <2>5
      <4> QED
        BY <3>1, <4>1, AbsorbLoose
    <3>3. PrevUsed(glued, a) => PrevUsed(h, a)
      BY <2>2, <2>3, <2>5, <3>1, AbsorbNeighbours
    <3>4. NextUsed(glued, c) => NextUsed(h, a)
      BY <2>2, <2>3, <2>5, <3>1, AbsorbNeighbours
    <3> QED
      BY <3>2, <3>3, <3>4
  <2> QED
    BY <1>6, <2>1, <2>7, <2>8 DEF blocks
<1>8. CASE ~GluesPrev(c)
  <2>1. h = glued /\ k = c
    BY <1>8 DEF GluedBoth, FreedChunk, glued
  <2>2. PrevUsed(freed, c)
    BY <1>1, <1>2, <1>3, <1>8 DEF GluesPrev, PrevUsed
  <2> QED
    BY <1>6, <2>1, <2>2 DEF blocks
<1> QED
  BY <1>7, <1>8

\* A tiling of a part of the heap is one of every longer part.
LEMMA TiledWider ==
    ASSUME NEW h, NEW max \in Nat, Tiled(h, max), NEW more \in Nat, max <= more
    PROVE  Tiled(h, more)
<1>1. \A c \in DOMAIN h : c \in Nat /\ h[c].length \in Nat /\ c + h[c].length <= max
  BY Chunks
<1>2. \A c \in DOMAIN h : c + h[c].length <= more
  BY <1>1
<1> QED
  BY <1>2 DEF Tiled
-----------------------------------------------------------------------------
(* The inductive invariant. *)

\* The heap has not taken more pages than there were frames.  A frame on its
\* way into the heap counts for the page it will be.
Budget ==
    heap_max + PAGE_SIZE * pmm_stack_top + (IF pc = "map" THEN PAGE_SIZE ELSE 0)
        <= HEAP_START + PAGE_SIZE * FRAME_COUNT

HeapBounds ==
    /\ pmm_stack_top \in Nat /\ heap_max \in Nat
    /\ HEAP_START <= heap_max /\ heap_max < WORD
    /\ Budget

ListInOrder == Tiled(hdr, heap_max) /\ Isolated(hdr, 0) /\ Owned(hdr, live)

\* heap_first starts the list; it may be ahead of an empty one in alloc_chunk.
FirstKnown ==
    /\ DOMAIN hdr # {} => heap_first = HEAP_START
    /\ DOMAIN hdr = {} /\ pc \in {"idle", "walk", "shrink"} => heap_first = 0

\* kmalloc walks along the list: prev is the chunk before cur.
Requested == \E n \in Sizes : len = n + HDR
WalkInList ==
    pc = "walk" =>
        /\ Requested
        /\ IF prev = 0 THEN cur = heap_first
           ELSE prev \in DOMAIN hdr /\ hdr[prev].next = cur

\* alloc_chunk grows the heap behind prev, the last chunk.
GrowAtEnd ==
    pc \in {"grow", "map"} =>
        /\ Requested
        /\ cur \in Nat /\ cur <= heap_max
        /\ IF prev = 0 THEN DOMAIN hdr = {} /\ cur = HEAP_START /\ heap_first = HEAP_START
           ELSE prev \in DOMAIN hdr /\ hdr[prev].next = 0 /\ cur = prev + hdr[prev].length

\* free_chunk gives pages back behind cur, where the list now ends.
ShrinkBehindList ==
    pc = "shrink" => cur \in Nat /\ HEAP_START <= cur /\ cur <= heap_max /\ Tiled(hdr, cur)

HeapInv ==
    /\ HeapBounds /\ ListInOrder /\ FirstKnown
    /\ WalkInList /\ GrowAtEnd /\ ShrinkBehindList

\* The heap end stays in the address space, with room for any request.
LEMMA Room ==
    ASSUME HeapBounds
    PROVE  /\ heap_max <= HEAP_START + PAGE_SIZE * FRAME_COUNT
           /\ \A n \in Sizes : n \in Nat /\ heap_max + n + HDR < WORD
<1>1. PAGE_SIZE * pmm_stack_top \in Nat
  BY Constants DEF HeapBounds
<1>2. PAGE_SIZE * FRAME_COUNT \in Nat
  BY Constants
<1>3. heap_max <= HEAP_START + PAGE_SIZE * FRAME_COUNT
  <2> DEFINE t == PAGE_SIZE * pmm_stack_top
             f == PAGE_SIZE * FRAME_COUNT
  <2>1. /\ t \in Nat /\ f \in Nat /\ heap_max \in Nat /\ HEAP_START \in Nat
        /\ PAGE_SIZE \in Nat
        /\ heap_max + t + (IF pc = "map" THEN PAGE_SIZE ELSE 0) <= HEAP_START + f
    BY <1>1, <1>2, Constants DEF HeapBounds, Budget
  <2> HIDE DEF t, f
  <2>2. heap_max <= HEAP_START + f
    BY <2>1
  <2> QED
    BY <2>2 DEF f
<1> QED
  BY <1>2, <1>3, Constants DEF HeapBounds

LEMMA KmallocInv ==
    ASSUME HeapInv, NEW n \in Sizes, Kmalloc(n)
    PROVE  HeapInv'
<1>1. /\ pc = "idle" /\ pc' = "walk" /\ len' = Add(n, HDR) /\ cur' = heap_first /\ prev' = 0
      /\ hdr' = hdr /\ heap_first' = heap_first /\ heap_max' = heap_max /\ live' = live
      /\ pmm_stack_top' = pmm_stack_top
  BY DEF Kmalloc, pmmVars, listVars
<1>2. HeapBounds'
  BY <1>1 DEF HeapInv, HeapBounds, Budget
<1>3. ListInOrder'
  BY <1>1 DEF HeapInv, ListInOrder
<1>4. FirstKnown'
  BY <1>1 DEF HeapInv, FirstKnown
<1>5. len' = n + HDR
  <2>1. n \in Nat /\ HDR \in Nat /\ heap_max \in Nat /\ heap_max + n + HDR < WORD /\ WORD \in Nat
    BY Room, Constants DEF HeapInv, HeapBounds
  <2>2. n + HDR < WORD
    BY <2>1
  <2> QED
    BY <1>1, <2>1, <2>2, AddSmall
<1>6. WalkInList'
  BY <1>1, <1>5 DEF WalkInList, Requested
<1>7. GrowAtEnd' /\ ShrinkBehindList'
  BY <1>1 DEF GrowAtEnd, ShrinkBehindList
<1> QED
  BY <1>2, <1>3, <1>4, <1>6, <1>7 DEF HeapInv

\* A step that stops the machine and leaves the heap as it is.
LEMMA StopInv ==
    ASSUME HeapInv, pc' \in {"panic", "fault", "wild"},
           hdr' = hdr, heap_first' = heap_first, heap_max' = heap_max, live' = live,
           pmm_stack_top' = pmm_stack_top
    PROVE  HeapInv'
<1>1. Budget'
  <2> DEFINE t == PAGE_SIZE * pmm_stack_top
             f == PAGE_SIZE * FRAME_COUNT
  <2>1. /\ t \in Nat /\ f \in Nat /\ heap_max \in Nat /\ HEAP_START \in Nat
        /\ PAGE_SIZE \in Nat
        /\ heap_max + t + (IF pc = "map" THEN PAGE_SIZE ELSE 0) <= HEAP_START + f
    BY Constants DEF HeapInv, HeapBounds, Budget
  <2> HIDE DEF t, f
  <2>2. heap_max + t + 0 <= HEAP_START + f
    BY <2>1
  <2> QED
    BY <2>2 DEF t, f, Budget
<1>2. HeapBounds'
  BY <1>1 DEF HeapInv, HeapBounds
<1>3. ListInOrder'
  BY DEF HeapInv, ListInOrder
<1>4. FirstKnown'
  BY DEF HeapInv, FirstKnown
<1>5. WalkInList' /\ GrowAtEnd' /\ ShrinkBehindList'
  BY DEF WalkInList, GrowAtEnd, ShrinkBehindList
<1> QED
  BY <1>2, <1>3, <1>4, <1>5 DEF HeapInv

LEMMA WalkFitInv ==
    ASSUME HeapInv, WalkFit
    PROVE  HeapInv'
<1>1. /\ pc = "walk" /\ pc' = "idle" /\ cur \in DOMAIN hdr
      /\ ~hdr[cur].allocated /\ hdr[cur].length >= len
      /\ hdr' = split_chunk(cur)
      /\ live' = Put(live, Add(cur, HDR), Sub(len, HDR))
      /\ heap_first' = heap_first /\ heap_max' = heap_max /\ pmm_stack_top' = pmm_stack_top
  BY DEF WalkFit, Touch, Fits, Hand, Return, pmmVars
<1>2. PICK n \in Sizes : len = n + HDR
  BY <1>1 DEF HeapInv, WalkInList, Requested
<1>3. /\ n \in Nat /\ HDR \in Nat /\ heap_max \in Nat /\ heap_max + n + HDR < WORD
      /\ WORD \in Nat /\ heap_max < WORD
  BY Room, Constants DEF HeapInv, HeapBounds
<1>4. Tiled(hdr, heap_max) /\ Isolated(hdr, 0) /\ Owned(hdr, live)
  BY DEF HeapInv, ListInOrder
<1>5. /\ cur \in Nat /\ hdr[cur].length \in Nat /\ cur + hdr[cur].length <= heap_max
  BY <1>1, <1>3, <1>4, Chunks
<1>6. Add(cur, HDR) = cur + HDR
  <2>1. cur + HDR < WORD
    BY <1>1, <1>2, <1>3, <1>5
  <2> QED
    BY <1>3, <1>5, <2>1, AddSmall
<1>7. Sub(len, HDR) = n
  <2>1. len \in Nat /\ HDR <= len /\ len < WORD
    BY <1>2, <1>3
  <2>2. len - HDR = n
    BY <1>2, <1>3
  <2> QED
    BY <1>3, <2>1, <2>2, SubSmall
<1>8. ListInOrder'
  <2>1. len <= hdr[cur].length
    BY <1>1, <1>2, <1>3, <1>5
  <2>2. Tiled(hdr', heap_max) /\ Isolated(hdr', 0) /\ Owned(hdr', Put(live, cur + HDR, n))
    BY <1>1, <1>2, <1>3, <1>4, <2>1, SplitGood
  <2> QED
    BY <1>1, <1>6, <1>7, <2>2 DEF ListInOrder
<1>9. heap_first = HEAP_START /\ DOMAIN hdr' # {}
  <2>1. DOMAIN hdr # {} /\ heap_first = HEAP_START
    BY <1>1 DEF HeapInv, FirstKnown
  <2>2. cur \in DOMAIN split_chunk(cur)
    BY <1>1 DEF split_chunk, Put
  <2> QED
    BY <1>1, <2>1, <2>2
<1>10. HeapBounds'
  BY <1>1 DEF HeapInv, HeapBounds, Budget
<1>11. FirstKnown'
  BY <1>1, <1>9 DEF FirstKnown
<1>12. WalkInList' /\ GrowAtEnd' /\ ShrinkBehindList'
  BY <1>1 DEF WalkInList, GrowAtEnd, ShrinkBehindList
<1> QED
  BY <1>8, <1>10, <1>11, <1>12 DEF HeapInv

LEMMA WalkNextInv ==
    ASSUME HeapInv, WalkNext
    PROVE  HeapInv'
<1>1. pc = "walk"
  BY DEF WalkNext
<1>2. ASSUME StopOnBadTouch({cur})
      PROVE  HeapInv'
  BY <1>2, StopInv DEF StopOnBadTouch, pmmVars, listVars
<1>3. ASSUME Touch({cur}), prev' = cur, cur' = hdr[cur].next,
             UNCHANGED <<pmmVars, tableVars, listVars, heap_max, pc, len, page, live>>
      PROVE  HeapInv'
  <2>1. /\ hdr' = hdr /\ heap_first' = heap_first /\ heap_max' = heap_max /\ live' = live
        /\ pmm_stack_top' = pmm_stack_top /\ pc' = "walk" /\ len' = len
        /\ prev' = cur /\ cur' = hdr[cur].next
    BY <1>1, <1>3 DEF pmmVars, listVars
  <2>2. HeapBounds'
    BY <1>1, <2>1 DEF HeapInv, HeapBounds, Budget
  <2>3. ListInOrder'
    BY <2>1 DEF HeapInv, ListInOrder
  <2>4. FirstKnown'
    BY <1>1, <2>1 DEF HeapInv, FirstKnown
  <2>5. cur \in DOMAIN hdr /\ cur # 0
    BY <1>3 DEF Touch, WalkNext
  <2>6. WalkInList'
    BY <1>1, <2>1, <2>5 DEF HeapInv, WalkInList, Requested
  <2>7. GrowAtEnd' /\ ShrinkBehindList'
    BY <2>1 DEF GrowAtEnd, ShrinkBehindList
  <2> QED
    BY <2>2, <2>3, <2>4, <2>6, <2>7 DEF HeapInv
<1> QED
  BY <1>2, <1>3 DEF WalkNext

LEMMA WalkEndInv ==
    ASSUME HeapInv, WalkEnd
    PROVE  HeapInv'
<1>1. /\ pc = "walk" /\ pc' = "grow" /\ cur = 0
      /\ hdr' = hdr /\ heap_max' = heap_max /\ live' = live
      /\ pmm_stack_top' = pmm_stack_top /\ len' = len /\ prev' = prev
  BY DEF WalkEnd, pmmVars
<1>2. Tiled(hdr, heap_max)
  BY DEF HeapInv, ListInOrder
<1>3. heap_max \in Nat /\ HEAP_START \in Nat /\ HEAP_START <= heap_max /\ heap_max < WORD
      /\ HEAP_START # 0
  BY Constants DEF HeapInv, HeapBounds
<1>4. HeapBounds'
  BY <1>1 DEF HeapInv, HeapBounds, Budget
<1>5. ListInOrder'
  BY <1>1 DEF HeapInv, ListInOrder
<1>6. WalkInList' /\ ShrinkBehindList'
  BY <1>1 DEF WalkInList, ShrinkBehindList
<1>7. Requested'
  BY <1>1 DEF HeapInv, WalkInList, Requested
<1>8. CASE prev = 0
  <2>1. cur' = HEAP_START /\ heap_first' = HEAP_START
    BY <1>8 DEF WalkEnd
  <2>2. DOMAIN hdr = {}
    BY <1>1, <1>3, <1>8 DEF HeapInv, FirstKnown, WalkInList
  <2>3. FirstKnown'
    BY <1>1, <2>1 DEF FirstKnown
  <2>4. GrowAtEnd'
    BY <1>1, <1>3, <1>7, <1>8, <2>1, <2>2 DEF GrowAtEnd
  <2> QED
    BY <1>4, <1>5, <1>6, <2>3, <2>4 DEF HeapInv
<1>9. CASE prev # 0
  <2>1. cur' = Add(prev, hdr[prev].length) /\ heap_first' = heap_first
    BY <1>9 DEF WalkEnd
  <2>2. prev \in DOMAIN hdr /\ hdr[prev].next = 0
    BY <1>1, <1>9 DEF HeapInv, WalkInList
  <2>3. prev \in Nat /\ hdr[prev].length \in Nat /\ prev + hdr[prev].length <= heap_max
    BY <1>2, <1>3, <2>2, Chunks
  <2>4. Add(prev, hdr[prev].length) = prev + hdr[prev].length
    <3>1. prev + hdr[prev].length < WORD
      BY <1>3, <2>3, Constants
    <3> QED
      BY <2>3, <3>1, AddSmall
  <2>5. FirstKnown'
    BY <1>1, <2>1, <2>2 DEF HeapInv, FirstKnown
  <2>6. cur' \in Nat /\ cur' <= heap_max' /\ cur' = prev + hdr[prev].length
    BY <1>1, <2>1, <2>3, <2>4
  <2>7. GrowAtEnd'
    BY <1>1, <1>7, <1>9, <2>2, <2>6 DEF GrowAtEnd
  <2> QED
    BY <1>4, <1>5, <1>6, <2>5, <2>7 DEF HeapInv
<1> QED
  BY <1>8, <1>9

\* Taking a frame from the stack pays for a page.
LEMMA Pages ==
    \A t \in Nat : /\ PAGE_SIZE * t \in Nat
                   /\ PAGE_SIZE * (t + 1) = PAGE_SIZE * t + PAGE_SIZE
                   /\ t # 0 => PAGE_SIZE * (t - 1) = PAGE_SIZE * t - PAGE_SIZE
BY Constants

LEMMA GrowFrameInv ==
    ASSUME HeapInv, GrowFrame
    PROVE  HeapInv'
<1>1. /\ pc = "grow"
      /\ hdr' = hdr /\ heap_first' = heap_first /\ heap_max' = heap_max /\ live' = live
      /\ len' = len /\ cur' = cur /\ prev' = prev
  BY DEF GrowFrame, listVars
<1>2. CASE pc' = "panic" /\ UNCHANGED pmmVars
  BY <1>1, <1>2, StopInv DEF pmmVars
<1>3. CASE pc' = "map" /\ pmm_alloc_page(page')
  <2>1. /\ pmm_stack_top # 0 /\ pmm_stack_top' = pmm_stack_top - 1
        /\ pmm_stack_top \in Nat
    BY <1>3 DEF pmm_alloc_page, OutOfMemory, HeapInv, HeapBounds
  <2>2. Budget'
    <3> DEFINE t == PAGE_SIZE * pmm_stack_top
               u == PAGE_SIZE * pmm_stack_top'
               f == PAGE_SIZE * FRAME_COUNT
    <3>1. /\ t \in Nat /\ f \in Nat /\ u = t - PAGE_SIZE /\ heap_max \in Nat
          /\ HEAP_START \in Nat /\ PAGE_SIZE \in Nat
      BY <2>1, Pages, Constants DEF HeapInv, HeapBounds
    <3>2. heap_max + t + 0 <= HEAP_START + f
      BY <1>1 DEF HeapInv, HeapBounds, Budget
    <3> HIDE DEF t, u, f
    <3>3. heap_max + u + PAGE_SIZE <= HEAP_START + f
      BY <3>1, <3>2
    <3> QED
      BY <1>1, <1>3, <3>3 DEF u, f, Budget
  <2>3. HeapBounds'
    BY <1>1, <2>1, <2>2 DEF HeapInv, HeapBounds
  <2>4. ListInOrder'
    BY <1>1 DEF HeapInv, ListInOrder
  <2>5. FirstKnown'
    BY <1>1, <1>3 DEF HeapInv, FirstKnown
  <2>6. GrowAtEnd'
    BY <1>1, <1>3 DEF HeapInv, GrowAtEnd, Requested
  <2>7. WalkInList' /\ ShrinkBehindList'
    BY <1>3 DEF WalkInList, ShrinkBehindList
  <2> QED
    BY <2>3, <2>4, <2>5, <2>6, <2>7 DEF HeapInv
<1> QED
  BY <1>2, <1>3 DEF GrowFrame

LEMMA GrowMapInv ==
    ASSUME HeapInv, GrowMap
    PROVE  HeapInv'
<1>1. /\ pc = "map"
      /\ hdr' = hdr /\ heap_first' = heap_first /\ live' = live
      /\ len' = len /\ cur' = cur /\ prev' = prev
  BY DEF GrowMap, listVars
<1>2. CASE pc' \in {"panic", "fault"} /\ UNCHANGED <<pmmVars, tableVars, heap_max, page>>
  BY <1>1, <1>2, StopInv DEF pmmVars
<1>3. CASE map(heap_max, page) /\ heap_max' = Add(heap_max, PAGE_SIZE) /\ pc' = "grow"
  <2>1. pmm_stack_top \in Nat
    BY DEF HeapInv, HeapBounds
  <2>2. pmm_stack_top' \in Nat /\ pmm_stack_top' <= pmm_stack_top
    BY <1>3, <2>1 DEF map, MapInTable, MapNewTable, pmm_alloc_page, OutOfMemory, pmmVars
  <2> DEFINE t == PAGE_SIZE * pmm_stack_top
             u == PAGE_SIZE * pmm_stack_top'
             f == PAGE_SIZE * FRAME_COUNT
  <2>3. t \in Nat /\ u \in Nat /\ u <= t
    <3>1. pmm_stack_top' = pmm_stack_top \/ pmm_stack_top' = pmm_stack_top - 1
      BY <1>3, <2>1 DEF map, MapInTable, MapNewTable, pmm_alloc_page, OutOfMemory, pmmVars
    <3>2. pmm_stack_top' = pmm_stack_top - 1 => pmm_stack_top # 0
      BY <2>1, <2>2
    <3> QED
      BY <2>1, <3>1, <3>2, Pages, Constants
  <2>4. /\ f \in Nat /\ heap_max \in Nat /\ HEAP_START \in Nat /\ PAGE_SIZE \in Nat
        /\ WORD \in Nat /\ HEAP_START <= heap_max
        /\ heap_max + t + PAGE_SIZE <= HEAP_START + f
    BY <1>1, Constants DEF HeapInv, HeapBounds, Budget
  <2>5. HEAP_START + f < WORD
    <3>1. PICK n \in Sizes : len = n + HDR
      BY <1>1 DEF HeapInv, GrowAtEnd, Requested
    <3>2. n \in Nat /\ HDR \in Nat /\ HEAP_START + f + n + HDR < WORD
      BY Constants
    <3> HIDE DEF f
    <3> QED
      BY <2>4, <3>2
  <2> HIDE DEF t, u, f
  <2>6. heap_max + PAGE_SIZE < WORD /\ heap_max + PAGE_SIZE + u + 0 <= HEAP_START + f
    BY <2>3, <2>4, <2>5
  <2>7. heap_max' = heap_max + PAGE_SIZE
    BY <1>3, <2>4, <2>6, AddSmall
  <2>8. Budget'
    BY <1>3, <2>6, <2>7 DEF u, f, Budget
  <2>9. HeapBounds'
    BY <2>2, <2>4, <2>6, <2>7, <2>8 DEF HeapBounds
  <2>10. ListInOrder'
    <3>1. heap_max <= heap_max' /\ heap_max' \in Nat
      BY <2>4, <2>7
    <3>2. Tiled(hdr, heap_max')
      BY <2>4, <3>1, TiledWider DEF HeapInv, ListInOrder
    <3> QED
      BY <1>1, <3>2 DEF HeapInv, ListInOrder
  <2>11. FirstKnown'
    BY <1>1, <1>3 DEF HeapInv, FirstKnown
  <2>12. GrowAtEnd'
    <3>1. cur \in Nat /\ cur <= heap_max
      BY <1>1 DEF HeapInv, GrowAtEnd
    <3>2. cur <= heap_max'
      BY <2>4, <2>7, <3>1
    <3> QED
      BY <1>1, <1>3, <3>2 DEF HeapInv, GrowAtEnd, Requested
  <2>13. WalkInList' /\ ShrinkBehindList'
    BY <1>3 DEF WalkInList, ShrinkBehindList
  <2> QED
    BY <2>9, <2>10, <2>11, <2>12, <2>13 DEF HeapInv
<1> QED
  BY <1>2, <1>3 DEF GrowMap

LEMMA GrowDoneInv ==
    ASSUME HeapInv, GrowDone
    PROVE  HeapInv'
<1>1. /\ pc = "grow" /\ ~(Add(cur, len) > heap_max)
      /\ heap_first' = heap_first /\ heap_max' = heap_max /\ pmm_stack_top' = pmm_stack_top
  BY DEF GrowDone, NeedsPage, pmmVars
<1>2. CASE ~HeaderMapped(cur)
  BY <1>1, <1>2, StopInv DEF GrowDone
<1>3. CASE HeaderMapped(cur)
  <2>1. /\ pc' = "idle"
        /\ hdr' = Put(IF prev = 0 THEN hdr ELSE [hdr EXCEPT ![prev].next = cur], cur,
                      [prev |-> prev, next |-> 0, allocated |-> TRUE,
                       length |-> LengthField(len)])
        /\ live' = Put(live, Add(cur, HDR), Sub(len, HDR))
    BY <1>3 DEF GrowDone, Hand, Return
  <2>2. PICK n \in Sizes : len = n + HDR
    BY <1>1 DEF HeapInv, GrowAtEnd, Requested
  <2>3. /\ n \in Nat /\ HDR \in Nat \ {0} /\ heap_max \in Nat /\ heap_max + n + HDR < WORD
        /\ WORD \in Nat /\ heap_max < WORD /\ HEAP_START \in Nat /\ HEAP_START <= heap_max
    BY Room, Constants DEF HeapInv, HeapBounds
  <2>4. /\ cur \in Nat /\ cur <= heap_max
        /\ IF prev = 0 THEN DOMAIN hdr = {} /\ cur = HEAP_START /\ heap_first = HEAP_START
           ELSE prev \in DOMAIN hdr /\ hdr[prev].next = 0 /\ cur = prev + hdr[prev].length
    BY <1>1 DEF HeapInv, GrowAtEnd
  <2>5. Tiled(hdr, heap_max) /\ Isolated(hdr, 0) /\ Owned(hdr, live)
    BY DEF HeapInv, ListInOrder
  <2>6. HEAP_START <= cur /\ prev \in Nat
    <3>1. \A d \in DOMAIN hdr : d \in Nat /\ HEAP_START <= d /\ hdr[d].length \in Nat
      BY <2>3, <2>5, Chunks
    <3> QED
      BY <2>3, <2>4, <3>1
  <2>7. len \in Nat /\ len > 0 /\ n + HDR <= len
    BY <2>2, <2>3
  <2>8. cur + len <= heap_max
    <3>1. cur + len < WORD
      BY <2>2, <2>3, <2>4
    <3>2. Add(cur, len) = cur + len
      BY <2>4, <2>7, <3>1, AddSmall
    <3> QED
      BY <1>1, <2>3, <2>4, <2>7, <3>2
  <2>9. LengthField(len) = len
    <3>1. HEAP_START + len < WORD
      BY <2>2, <2>3
    <3> QED
      BY <2>7, <3>1, LengthFits
  <2>10. Add(cur, HDR) = cur + HDR /\ Sub(len, HDR) = n
    <3>1. cur + HDR < WORD
      BY <2>2, <2>3, <2>4
    <3>2. HDR <= len /\ len < WORD /\ len - HDR = n
      BY <2>2, <2>3
    <3> QED
      BY <2>3, <2>4, <2>7, <3>1, <3>2, AddSmall, SubSmall
  <2>11. Tiled(hdr', heap_max) /\ Isolated(hdr', 0) /\ Owned(hdr', Put(live, cur + HDR, n))
    <3>1. hdr' = Appended(hdr, prev, cur, len)
      BY <2>1, <2>9 DEF Appended
    <3>2. IF prev = 0 THEN DOMAIN hdr = {} /\ cur = HEAP_START
          ELSE prev \in DOMAIN hdr /\ hdr[prev].next = 0 /\ cur = prev + hdr[prev].length
      BY <2>4
    <3> QED
      BY <2>3, <2>4, <2>5, <2>6, <2>7, <2>8, <3>1, <3>2, AppendGood
  <2>12. ListInOrder'
    BY <1>1, <2>1, <2>10, <2>11 DEF ListInOrder
  <2>13. HeapBounds'
    BY <1>1, <2>1 DEF HeapInv, HeapBounds, Budget
  <2>14. FirstKnown'
    <3>1. heap_first = HEAP_START
      BY <2>4 DEF HeapInv, FirstKnown
    <3>2. cur \in DOMAIN hdr'
      BY <2>1 DEF Put
    <3> QED
      BY <1>1, <3>1, <3>2 DEF FirstKnown
  <2>15. WalkInList' /\ GrowAtEnd' /\ ShrinkBehindList'
    BY <2>1 DEF WalkInList, GrowAtEnd, ShrinkBehindList
  <2> QED
    BY <2>12, <2>13, <2>14, <2>15 DEF HeapInv
<1> QED
  BY <1>2, <1>3

LEMMA ShrinkPageInv ==
    ASSUME HeapInv, ShrinkPage
    PROVE  HeapInv'
<1>1. /\ pc = "shrink" /\ Sub(heap_max, PAGE_SIZE) >= cur
      /\ heap_max' = Sub(heap_max, PAGE_SIZE)
      /\ hdr' = hdr /\ heap_first' = heap_first /\ live' = live /\ cur' = cur
  BY DEF ShrinkPage, FreesPage, listVars, regVars
<1>2. /\ heap_max \in Nat /\ HEAP_START \in Nat /\ PAGE_SIZE \in Nat /\ WORD \in Nat
      /\ PAGE_SIZE <= HEAP_START /\ HEAP_START <= heap_max /\ heap_max < WORD
      /\ cur \in Nat /\ HEAP_START <= cur /\ pmm_stack_top \in Nat
      /\ Tiled(hdr, cur) /\ Isolated(hdr, 0) /\ Owned(hdr, live)
  BY <1>1, Constants DEF HeapInv, HeapBounds, ShrinkBehindList, ListInOrder
<1>3. heap_max' = heap_max - PAGE_SIZE
  <2>1. PAGE_SIZE <= heap_max
    BY <1>2
  <2> QED
    BY <1>1, <1>2, <2>1, SubSmall
<1>4. heap_max' \in Nat /\ cur <= heap_max' /\ HEAP_START <= heap_max' /\ heap_max' < WORD
  BY <1>1, <1>2, <1>3
<1>5. \/ pmm_stack_top' = pmm_stack_top + 1 /\ pc' = "shrink"
      \/ pmm_stack_top' = pmm_stack_top /\ pc' = "panic"
  BY <1>1 DEF ShrinkPage, pmm_free_page, pmmVars
<1>6. Budget'
  <2> DEFINE t == PAGE_SIZE * pmm_stack_top
             u == PAGE_SIZE * pmm_stack_top'
             f == PAGE_SIZE * FRAME_COUNT
  <2>1. t \in Nat /\ f \in Nat /\ u \in Nat /\ u <= t + PAGE_SIZE
    <3>1. pmm_stack_top' = pmm_stack_top \/ pmm_stack_top' = pmm_stack_top + 1
      BY <1>5
    <3> QED
      BY <1>2, <3>1, Pages, Constants
  <2>2. heap_max + t + 0 <= HEAP_START + f
    BY <1>1 DEF HeapInv, HeapBounds, Budget
  <2> HIDE DEF t, u, f
  <2>3. heap_max' + u + 0 <= HEAP_START + f
    BY <1>2, <1>3, <2>1, <2>2
  <2>4. pc' # "map"
    BY <1>5
  <2> QED
    BY <2>3, <2>4 DEF u, f, Budget
<1>7. HeapBounds'
  BY <1>2, <1>4, <1>5, <1>6 DEF HeapBounds
<1>8. Tiled(hdr, heap_max')
  BY <1>2, <1>4, TiledWider
<1>9. ListInOrder'
  BY <1>1, <1>2, <1>8 DEF ListInOrder
<1>10. FirstKnown'
  BY <1>1, <1>5 DEF HeapInv, FirstKnown
<1>11. ShrinkBehindList'
  BY <1>1, <1>2, <1>4 DEF ShrinkBehindList
<1>12. WalkInList' /\ GrowAtEnd'
  BY <1>5 DEF WalkInList, GrowAtEnd
<1> QED
  BY <1>7, <1>9, <1>10, <1>11, <1>12 DEF HeapInv

LEMMA ShrinkDoneInv ==
    ASSUME HeapInv, ShrinkDone
    PROVE  HeapInv'
<1>1. /\ pc = "shrink" /\ pc' = "idle"
      /\ hdr' = hdr /\ heap_first' = heap_first /\ heap_max' = heap_max /\ live' = live
      /\ pmm_stack_top' = pmm_stack_top
  BY DEF ShrinkDone, Return, listVars, pmmVars
<1>2. HeapBounds'
  BY <1>1 DEF HeapInv, HeapBounds, Budget
<1>3. ListInOrder'
  BY <1>1 DEF HeapInv, ListInOrder
<1>4. FirstKnown'
  BY <1>1 DEF HeapInv, FirstKnown
<1>5. WalkInList' /\ GrowAtEnd' /\ ShrinkBehindList'
  BY <1>1 DEF WalkInList, GrowAtEnd, ShrinkBehindList
<1> QED
  BY <1>2, <1>3, <1>4, <1>5 DEF HeapInv

LEMMA KfreeInv ==
    ASSUME HeapInv, NEW p \in DOMAIN live, CarefulKfree(p)
    PROVE  HeapInv'
<1> DEFINE c == p - HDR
           h == GluedBoth(c)
           k == FreedChunk(c)
           blocks == Without(live, p)
<1>1. /\ heap_max \in Nat /\ HDR \in Nat \ {0} /\ heap_max < WORD /\ WORD \in Nat
      /\ Tiled(hdr, heap_max) /\ Isolated(hdr, 0) /\ Owned(hdr, live)
  BY Constants DEF HeapInv, HeapBounds, ListInOrder
<1>2. p \in Nat /\ c \in DOMAIN hdr /\ live[p] \in Nat /\ live[p] + HDR <= hdr[c].length
  BY <1>1 DEF Owned
<1>3. c \in Nat /\ hdr[c].length \in Nat /\ c + hdr[c].length <= heap_max
  BY <1>1, <1>2, Chunks
<1>4. Sub(p, HDR) = c
  <2> HIDE DEF c
  <2>1. c = p - HDR
    BY DEF c
  <2>2. p < WORD /\ HDR <= p
    BY <1>1, <1>2, <1>3, <2>1
  <2> QED
    BY <1>1, <1>2, <2>1, <2>2, SubSmall
<1>5. pc = "idle" /\ BackLinkTrue(c) /\ Kfree(p)
  BY <1>4 DEF CarefulKfree, Kfree
<1>6. LinkTrue(hdr, c)
  <2>1. heap_first = HEAP_START
    BY <1>2 DEF HeapInv, FirstKnown
  <2> QED
    BY <1>5, <2>1 DEF BackLinkTrue, LinkTrue
<1>7. Loose(h, k, heap_max, blocks) /\ PrevUsed(h, k) /\ NextUsed(h, k)
  <2> HIDE DEF h, k, c
  <2>1. c = p - HDR /\ h = GluedBoth(c) /\ k = FreedChunk(c)
    BY DEF h, k, c
  <2> QED
    BY <1>1, <1>6, <2>1, GlueGood
<1>8. \/ StopOnBadTouch(Near(c))
      \/ StopOnBadTouch(Far(c))
      \/ /\ IF h[k].next # 0
            THEN hdr' = h /\ UNCHANGED <<heap_first, pc, cur>>
            ELSE /\ hdr' = Unlinked(h, k)
                 /\ heap_first' = IF h[k].prev = 0 THEN 0 ELSE heap_first
                 /\ cur' = k /\ pc' = "shrink"
         /\ live' = blocks
         /\ UNCHANGED <<pmmVars, tableVars, heap_max, len, prev, page>>
  <2> HIDE DEF c
  <2> QED
    BY <1>4, <1>5 DEF Kfree
<1> HIDE DEF c, h, k, blocks
<1>9. /\ Tiled(h, heap_max) /\ Isolated(h, k) /\ Owned(h, blocks)
      /\ k \in DOMAIN h /\ ~h[k].allocated /\ LinkTrue(h, k)
  BY <1>7 DEF Loose
<1>10. k \in Nat /\ HEAP_START <= k /\ k <= heap_max /\ k # 0
  <2>1. k + h[k].length <= heap_max /\ h[k].length \in Nat /\ k \in Nat /\ k # 0
        /\ HEAP_START <= k
    BY <1>1, <1>9, Chunks
  <2> QED
    BY <1>1, <2>1, Constants
<1>11. ASSUME NEW S, StopOnBadTouch(S)
       PROVE  HeapInv'
  BY <1>11, StopInv DEF StopOnBadTouch, pmmVars, listVars
<1>12. ASSUME h[k].next # 0, hdr' = h, live' = blocks,
              UNCHANGED <<heap_first, pc, cur>>,
              UNCHANGED <<pmmVars, tableVars, heap_max, len, prev, page>>
       PROVE  HeapInv'
  <2>1. /\ pc' = "idle" /\ heap_first' = heap_first /\ heap_max' = heap_max
        /\ pmm_stack_top' = pmm_stack_top
    BY <1>5, <1>12 DEF pmmVars
  <2>2. Isolated(h, 0)
    BY <1>1, <1>7, <1>12, Settled
  <2>3. ListInOrder'
    BY <1>9, <1>12, <2>1, <2>2 DEF ListInOrder
  <2>4. HeapBounds'
    BY <1>5, <2>1 DEF HeapInv, HeapBounds, Budget
  <2>5. FirstKnown'
    <3>1. heap_first = HEAP_START
      BY <1>2 DEF HeapInv, FirstKnown
    <3> QED
      BY <1>9, <1>12, <2>1, <3>1 DEF FirstKnown
  <2>6. WalkInList' /\ GrowAtEnd' /\ ShrinkBehindList'
    BY <2>1 DEF WalkInList, GrowAtEnd, ShrinkBehindList
  <2> QED
    BY <2>3, <2>4, <2>5, <2>6 DEF HeapInv
<1>13. ASSUME h[k].next = 0, hdr' = Unlinked(h, k), live' = blocks,
              heap_first' = (IF h[k].prev = 0 THEN 0 ELSE heap_first),
              cur' = k, pc' = "shrink",
              UNCHANGED <<pmmVars, tableVars, heap_max, len, prev, page>>
       PROVE  HeapInv'
  <2>1. heap_max' = heap_max /\ pmm_stack_top' = pmm_stack_top
    BY <1>13 DEF pmmVars
  <2>2. /\ Tiled(hdr', k) /\ Isolated(hdr', 0) /\ Owned(hdr', blocks)
        /\ h[k].prev = 0 => DOMAIN hdr' = {}
    BY <1>1, <1>7, <1>9, <1>13, UnlinkedGood
  <2>3. Tiled(hdr', heap_max)
    BY <1>1, <1>10, <2>2, TiledWider
  <2>4. ListInOrder'
    BY <1>13, <2>1, <2>2, <2>3 DEF ListInOrder
  <2>5. HeapBounds'
    BY <1>5, <1>13, <2>1 DEF HeapInv, HeapBounds, Budget
  <2>6. FirstKnown'
    <3>1. heap_first = HEAP_START
      BY <1>2 DEF HeapInv, FirstKnown
    <3>2. CASE h[k].prev = 0
      BY <1>13, <2>2, <3>2 DEF FirstKnown
    <3>3. CASE h[k].prev # 0
      <4>1. h[k].prev \in DOMAIN h /\ h[h[k].prev].next = k
        BY <1>9, <3>3 DEF LinkTrue
      <4>2. h[k].prev # k
        BY <1>10, <1>13, <4>1
      <4>3. h[k].prev \in DOMAIN hdr'
        BY <1>13, <3>3, <4>1, <4>2 DEF Unlinked, Without
      <4> QED
        BY <1>13, <3>1, <3>3, <4>3 DEF FirstKnown
    <3> QED
      BY <3>2, <3>3
  <2>7. ShrinkBehindList'
    BY <1>10, <1>13, <2>1, <2>2 DEF ShrinkBehindList
  <2>8. WalkInList' /\ GrowAtEnd'
    BY <1>13 DEF WalkInList, GrowAtEnd
  <2> QED
    BY <2>4, <2>5, <2>6, <2>7, <2>8 DEF HeapInv
<1> QED
  BY <1>8, <1>11, <1>12, <1>13

LEMMA InitInv ==
    ASSUME Init
    PROVE  HeapInv
<1>1. /\ hdr = << >> /\ heap_first = 0 /\ heap_max = HEAP_START /\ pc = "idle"
      /\ live = << >> /\ pmm_stack_top = FRAME_COUNT
  BY DEF Init, InitPmm, StackFilled
<1>2. DOMAIN hdr = {} /\ DOMAIN live = {}
  BY <1>1
<1>3. HeapBounds
  BY <1>1, Constants DEF HeapBounds, Budget
<1>4. ListInOrder
  BY <1>2 DEF ListInOrder, Tiled, Isolated, Owned
<1>5. FirstKnown
  BY <1>1, <1>2 DEF FirstKnown
<1>6. WalkInList /\ GrowAtEnd /\ ShrinkBehindList
  BY <1>1 DEF WalkInList, GrowAtEnd, ShrinkBehindList
<1> QED
  BY <1>3, <1>4, <1>5, <1>6 DEF HeapInv

\* Every step of the kernel and of a careful client keeps the invariant.
LEMMA StepInv ==
    ASSUME HeapInv, [CarefulNext]_vars
    PROVE  HeapInv'
<1>1. ASSUME NEW n \in Sizes, Kmalloc(n) PROVE HeapInv'
  BY <1>1, KmallocInv
<1>2. ASSUME NEW p \in DOMAIN live, CarefulKfree(p) PROVE HeapInv'
  BY <1>2, KfreeInv
<1>3. CASE WalkFit
  BY <1>3, WalkFitInv
<1>4. CASE WalkNext
  BY <1>4, WalkNextInv
<1>5. CASE WalkEnd
  BY <1>5, WalkEndInv
<1>6. CASE GrowFrame
  BY <1>6, GrowFrameInv
<1>7. CASE GrowMap
  BY <1>7, GrowMapInv
<1>8. CASE GrowDone
  BY <1>8, GrowDoneInv
<1>9. CASE ShrinkPage
  BY <1>9, ShrinkPageInv
<1>10. CASE ShrinkDone
  BY <1>10, ShrinkDoneInv
<1>11. CASE UNCHANGED vars
  <2>1. /\ hdr' = hdr /\ heap_first' = heap_first /\ heap_max' = heap_max /\ pc' = pc
        /\ len' = len /\ cur' = cur /\ prev' = prev /\ live' = live
        /\ pmm_stack_top' = pmm_stack_top
    BY <1>11 DEF vars, pmmVars, listVars, regVars
  <2>2. HeapBounds'
    BY <2>1 DEF HeapInv, HeapBounds, Budget
  <2>3. ListInOrder' /\ FirstKnown'
    BY <2>1 DEF HeapInv, ListInOrder, FirstKnown
  <2>4. WalkInList' /\ GrowAtEnd' /\ ShrinkBehindList'
    BY <2>1 DEF HeapInv, WalkInList, GrowAtEnd, ShrinkBehindList, Requested
  <2> QED
    BY <2>2, <2>3, <2>4 DEF HeapInv
<1> QED
  BY <1>1, <1>2, <1>3, <1>4, <1>5, <1>6, <1>7, <1>8, <1>9, <1>10, <1>11
     DEF CarefulNext, Step

\* The list is in order in every state, whatever careful clients do.
THEOREM HeapInvariant == CarefulSpec => []HeapInv
<1>1. Init => HeapInv
  BY InitInv
<1>2. HeapInv /\ [CarefulNext]_vars => HeapInv'
  BY StepInv
<1> QED
  BY <1>1, <1>2, PTL DEF CarefulSpec
-----------------------------------------------------------------------------
(* The properties. *)

\* alloc_chunk grows the heap far enough: no block handed out by kmalloc
\* reaches past heap_max, and kfree takes no page below a block's end.
THEOREM BlocksStayInHeap == CarefulSpec => []BlocksInHeap
<1>1. HeapInv => BlocksInHeap
  <2> SUFFICES ASSUME HeapInv, NEW p \in DOMAIN live
               PROVE  HEAP_START + HDR <= p /\ p + live[p] <= heap_max
    BY DEF BlocksInHeap
  <2>1. Tiled(hdr, heap_max) /\ Owned(hdr, live) /\ heap_max \in Nat
    BY DEF HeapInv, ListInOrder, HeapBounds
  <2>2. /\ p \in Nat /\ p - HDR \in DOMAIN hdr
        /\ live[p] \in Nat /\ live[p] + HDR <= hdr[p - HDR].length
    BY <2>1 DEF Owned
  <2>3. /\ HEAP_START <= p - HDR /\ hdr[p - HDR].length \in Nat
        /\ p - HDR + hdr[p - HDR].length <= heap_max
    BY <2>1, <2>2, Chunks
  <2> DEFINE l == hdr[p - HDR].length
  <2> HIDE DEF l
  <2>4. live[p] + HDR <= l /\ l \in Nat /\ p - HDR + l <= heap_max
    BY <2>2, <2>3 DEF l
  <2> QED
    BY <2>1, <2>2, <2>3, <2>4, Constants
<1> QED
  BY <1>1, HeapInvariant, PTL

\* split_chunk, glue_chunk and free_chunk never make two blocks overlap.
THEOREM BlocksNeverOverlap == CarefulSpec => []BlocksDisjoint
<1>1. HeapInv => BlocksDisjoint
  <2> SUFFICES ASSUME HeapInv PROVE BlocksDisjoint
    OBVIOUS
  <2> SUFFICES ASSUME NEW p \in DOMAIN live, NEW q \in DOMAIN live, p < q
               PROVE  p + live[p] + HDR <= q
    <3>1. \A x \in DOMAIN live : x \in Nat
      BY DEF HeapInv, ListInOrder, Owned
    <3>2. \A x, y \in DOMAIN live : x = y \/ x < y \/ y < x
      BY <3>1
    <3> QED
      BY <3>2 DEF BlocksDisjoint
  <2>1. Tiled(hdr, heap_max) /\ Owned(hdr, live) /\ heap_max \in Nat
    BY DEF HeapInv, ListInOrder, HeapBounds
  <2>2. /\ p \in Nat /\ p - HDR \in DOMAIN hdr /\ q \in Nat /\ q - HDR \in DOMAIN hdr
        /\ live[p] \in Nat /\ live[p] + HDR <= hdr[p - HDR].length
    BY <2>1 DEF Owned
  <2>3. p - HDR < q - HDR
    BY <2>2, Constants
  <2>4. p - HDR + hdr[p - HDR].length <= q - HDR /\ hdr[p - HDR].length \in Nat
    BY <2>1, <2>2, <2>3, Chunks
  <2> DEFINE l == hdr[p - HDR].length
  <2> HIDE DEF l
  <2>5. live[p] + HDR <= l /\ l \in Nat /\ p - HDR + l <= q - HDR
    BY <2>2, <2>4 DEF l
  <2> QED
    BY <2>2, <2>5, Constants
<1> QED
  BY <1>1, HeapInvariant, PTL

\* The allocated chunks are exactly the client's blocks: none is lost, and
\* none is handed out twice.
THEOREM AllocatedChunksAreLive == CarefulSpec => []AllocatedAreLive
<1>1. HeapInv => AllocatedAreLive
  BY DEF HeapInv, ListInOrder, Owned, AllocatedAreLive
<1> QED
  BY <1>1, HeapInvariant, PTL

\* The list has no gap and no chunk past heap_max.
THEOREM ListAlwaysCoversHeap == CarefulSpec => []ListCoversHeap
<1>1. HeapInv => ListCoversHeap
  <2> SUFFICES ASSUME HeapInv PROVE ListCoversHeap
    OBVIOUS
  <2>1. Tiled(hdr, heap_max) /\ heap_max \in Nat /\ FirstKnown
    BY DEF HeapInv, ListInOrder, HeapBounds
  <2>2. \A c \in DOMAIN hdr : c + hdr[c].length <= heap_max
    BY <2>1, Chunks
  <2>3. DOMAIN hdr # {} => heap_first = HEAP_START /\ HEAP_START \in DOMAIN hdr
    BY <2>1 DEF Tiled, FirstKnown
  <2>4. \A c \in DOMAIN hdr :
           hdr[c].next # 0 => hdr[c].next = c + hdr[c].length /\ hdr[c].next \in DOMAIN hdr
    BY <2>1 DEF Tiled
  <2> QED
    BY <2>2, <2>3, <2>4 DEF ListCoversHeap
<1> QED
  BY <1>1, HeapInvariant, PTL

\* kfree merges whatever can be merged: no two free neighbours, and the last
\* chunk is in use.
THEOREM AlwaysFullyMerged == CarefulSpec => []FullyMerged
<1>1. HeapInv => FullyMerged
  <2> SUFFICES ASSUME HeapInv, NEW c \in DOMAIN hdr, ~hdr[c].allocated
               PROVE  hdr[c].next # 0 /\ hdr[hdr[c].next].allocated
    BY DEF FullyMerged
  <2>1. Isolated(hdr, 0) /\ Tiled(hdr, heap_max) /\ heap_max \in Nat
    BY DEF HeapInv, ListInOrder, HeapBounds
  <2>2. c # 0
    BY <2>1, Chunks
  <2> QED
    BY <2>1, <2>2 DEF Isolated
<1> QED
  BY <1>1, HeapInvariant, PTL

\* The client's blocks are its own.
THEOREM BlocksAlwaysSound == CarefulSpec => []BlocksSound
<1>1. BlocksInHeap /\ BlocksDisjoint /\ AllocatedAreLive => BlocksSound
  BY DEF BlocksSound
<1> QED
  BY <1>1, BlocksStayInHeap, BlocksNeverOverlap, AllocatedChunksAreLive, PTL

\* The list is the heap, and merged.
THEOREM ListAlwaysSound == CarefulSpec => []ListSound
<1>1. ListCoversHeap /\ FullyMerged => ListSound
  BY DEF ListSound
<1> QED
  BY <1>1, ListAlwaysCoversHeap, AlwaysFullyMerged, PTL
-----------------------------------------------------------------------------
(* Every call comes to its end. *)

\* How far the running call is from its end: kmalloc walks, then grows; kfree
\* shrinks.  Within a phase what counts is the heap behind cur that the walk has
\* not seen, the frames that can still be taken, or the pages behind cur.
Phase(at) == IF at = "walk" THEN 2 ELSE IF at \in {"grow", "map", "shrink"} THEN 1 ELSE 0
Left(at, c, max, top) ==
    IF at = "walk" THEN IF c = 0 THEN 0 ELSE max + 1 - c
    ELSE IF at = "grow" THEN top + top
    ELSE IF at = "map" THEN top + top + 1
    ELSE IF at = "shrink" THEN max - c ELSE 0

LeftCounted == Phase(pc) \in Nat /\ Left(pc, cur, heap_max, pmm_stack_top) \in Nat
NearerEnd ==
    \/ Phase(pc') < Phase(pc)
    \/ /\ Phase(pc') = Phase(pc)
       /\ Left(pc', cur', heap_max', pmm_stack_top')
             < Left(pc, cur, heap_max, pmm_stack_top)

\* Each step of kmalloc and kfree brings the call nearer to its end, counted in
\* natural numbers: the list has no cycle, and the page loops of alloc_chunk and
\* free_chunk run out of frames or of pages.
CallsAdvance == [][Step => LeftCounted /\ LeftCounted' /\ NearerEnd]_vars

\* kmalloc's walk is at a chunk of the list, or past its end.
LEMMA WalkAtChunk ==
    ASSUME HeapInv, pc = "walk"
    PROVE  cur = 0 \/ cur \in DOMAIN hdr
<1>1. Tiled(hdr, heap_max) /\ heap_max \in Nat
  BY DEF HeapInv, ListInOrder, HeapBounds
<1>2. CASE prev = 0
  BY <1>1, <1>2 DEF HeapInv, WalkInList, FirstKnown, Tiled
<1>3. CASE prev # 0
  <2>1. prev \in DOMAIN hdr /\ hdr[prev].next = cur
    BY <1>3 DEF HeapInv, WalkInList
  <2> QED
    BY <1>1, <2>1, Chunks
<1> QED
  BY <1>2, <1>3

LEMMA LeftIsCounted == HeapInv => LeftCounted
<1> SUFFICES ASSUME HeapInv PROVE LeftCounted
  OBVIOUS
<1>1. pmm_stack_top \in Nat /\ heap_max \in Nat /\ Tiled(hdr, heap_max)
  BY DEF HeapInv, HeapBounds, ListInOrder
<1>2. pc = "walk" => cur = 0 \/ (cur \in Nat /\ cur <= heap_max)
  <2>1. \A c \in DOMAIN hdr : c \in Nat /\ hdr[c].length \in Nat /\ c + hdr[c].length <= heap_max
    BY <1>1, Chunks
  <2> QED
    BY <1>1, <2>1, WalkAtChunk
<1>3. pc = "shrink" => cur \in Nat /\ cur <= heap_max
  BY DEF HeapInv, ShrinkBehindList
<1>4. Left(pc, cur, heap_max, pmm_stack_top) \in Nat
  BY <1>1, <1>2, <1>3 DEF Left
<1>5. Phase(pc) \in Nat
  BY DEF Phase
<1> QED
  BY <1>4, <1>5 DEF LeftCounted

\* A step that ends the call, or goes on from the walk to alloc_chunk.
LEMMA NextPhase ==
    ASSUME \/ pc = "walk" /\ pc' # "walk"
           \/ pc \in {"grow", "map", "shrink"} /\ pc' \in {"idle", "panic", "fault", "wild"}
    PROVE  NearerEnd
<1>1. Phase(pc') < Phase(pc)
  BY DEF Phase
<1> QED
  BY <1>1 DEF NearerEnd

\* What each iteration of the loops leaves.
LEMMA LeftShrinks ==
    ASSUME NEW max \in Nat, NEW c \in Nat, NEW t \in Nat, NEW u \in Nat, NEW x
    PROVE  /\ c # 0 /\ c <= max => Left("walk", 0, max, t) < Left("walk", c, max, t)
           /\ c # 0 /\ c <= max /\ x \in Nat /\ c < x =>
                 Left("walk", x, max, t) < Left("walk", c, max, t)
           /\ u < t => Left("map", x, max, u) < Left("grow", x, max, t)
           /\ \A more : u <= t => Left("grow", x, more, u) < Left("map", x, max, t)
           /\ \A less \in Nat : less < max => Left("shrink", c, less, u) < Left("shrink", c, max, t)
<1>1. c # 0 /\ c <= max => Left("walk", 0, max, t) < Left("walk", c, max, t)
  BY DEF Left
<1>2. c # 0 /\ c <= max /\ x \in Nat /\ c < x =>
         Left("walk", x, max, t) < Left("walk", c, max, t)
  BY DEF Left
<1>3. u < t => Left("map", x, max, u) < Left("grow", x, max, t)
  BY DEF Left
<1>4. \A more : u <= t => Left("grow", x, more, u) < Left("map", x, max, t)
  BY DEF Left
<1>5. \A less \in Nat : less < max => Left("shrink", c, less, u) < Left("shrink", c, max, t)
  BY DEF Left
<1> QED
  BY <1>1, <1>2, <1>3, <1>4, <1>5

LEMMA WalkNextNearer ==
    ASSUME HeapInv, WalkNext
    PROVE  NearerEnd
<1>1. pc = "walk" /\ cur # 0
  BY DEF WalkNext
<1>2. CASE StopOnBadTouch({cur})
  <2>1. pc' \in {"fault", "wild"}
    BY <1>2 DEF StopOnBadTouch
  <2> QED
    BY <1>1, <2>1, NextPhase
<1>3. CASE ~StopOnBadTouch({cur})
  <2>1. /\ cur' = hdr[cur].next /\ heap_max' = heap_max /\ pc' = "walk"
        /\ pmm_stack_top' = pmm_stack_top
    BY <1>1, <1>3 DEF WalkNext, pmmVars
  <2>2. heap_max \in Nat /\ pmm_stack_top \in Nat /\ Tiled(hdr, heap_max)
    BY DEF HeapInv, HeapBounds, ListInOrder
  <2>3. cur \in DOMAIN hdr
    BY <1>1, WalkAtChunk
  <2>4. /\ cur \in Nat /\ hdr[cur].length \in Nat /\ cur + hdr[cur].length <= heap_max
        /\ hdr[cur].next \in Nat /\ (hdr[cur].next # 0 => cur < hdr[cur].next)
    BY <2>2, <2>3, Chunks
  <2>5. cur <= heap_max
    BY <2>2, <2>4
  <2> DEFINE next == hdr[cur].next
  <2>6. next \in Nat /\ (next = 0 \/ cur < next)
    BY <2>4
  <2> HIDE DEF next
  <2>7. Left("walk", next, heap_max, pmm_stack_top) < Left("walk", cur, heap_max, pmm_stack_top)
    BY <1>1, <2>2, <2>4, <2>5, <2>6, LeftShrinks
  <2>8. cur' = next
    BY <2>1 DEF next
  <2> QED
    BY <1>1, <2>1, <2>7, <2>8 DEF NearerEnd
<1> QED
  BY <1>2, <1>3

LEMMA GrowFrameNearer ==
    ASSUME HeapInv, GrowFrame
    PROVE  NearerEnd
<1>1. pc = "grow" /\ cur' = cur /\ heap_max' = heap_max
  BY DEF GrowFrame
<1>2. CASE pc' = "panic"
  BY <1>1, <1>2, NextPhase
<1>3. CASE pc' # "panic"
  <2>1. pc' = "map" /\ pmm_alloc_page(page')
    BY <1>3 DEF GrowFrame
  <2>2. pmm_stack_top \in Nat /\ heap_max \in Nat /\ cur \in Nat
    BY <1>1 DEF HeapInv, HeapBounds, GrowAtEnd
  <2>3. pmm_stack_top' \in Nat /\ pmm_stack_top' < pmm_stack_top
    BY <2>1, <2>2 DEF pmm_alloc_page, OutOfMemory
  <2>4. Left(pc', cur', heap_max', pmm_stack_top') < Left(pc, cur, heap_max, pmm_stack_top)
    BY <1>1, <2>1, <2>2, <2>3, LeftShrinks
  <2>5. Phase(pc') = Phase(pc)
    BY <1>1, <2>1 DEF Phase
  <2> QED
    BY <2>4, <2>5 DEF NearerEnd
<1> QED
  BY <1>2, <1>3

LEMMA GrowMapNearer ==
    ASSUME HeapInv, GrowMap
    PROVE  NearerEnd
<1>1. pc = "map" /\ cur' = cur
  BY DEF GrowMap
<1>2. CASE pc' \in {"panic", "fault"}
  BY <1>1, <1>2, NextPhase
<1>3. CASE pc' \notin {"panic", "fault"}
  <2>1. pc' = "grow" /\ map(heap_max, page)
    BY <1>3 DEF GrowMap
  <2>2. pmm_stack_top \in Nat /\ heap_max \in Nat /\ cur \in Nat
    BY <1>1 DEF HeapInv, HeapBounds, GrowAtEnd
  <2>3. pmm_stack_top' \in Nat /\ pmm_stack_top' <= pmm_stack_top
    BY <2>1, <2>2 DEF map, MapInTable, MapNewTable, pmm_alloc_page, OutOfMemory, pmmVars
  <2>4. Left("grow", cur, heap_max', pmm_stack_top') < Left("map", cur, heap_max, pmm_stack_top)
    BY <2>2, <2>3, LeftShrinks
  <2>5. Phase(pc') = Phase(pc)
    BY <1>1, <2>1 DEF Phase
  <2> QED
    BY <1>1, <2>1, <2>4, <2>5 DEF NearerEnd
<1> QED
  BY <1>2, <1>3

LEMMA ShrinkPageNearer ==
    ASSUME HeapInv, ShrinkPage
    PROVE  NearerEnd
<1>1. /\ pc = "shrink" /\ heap_max' = Sub(heap_max, PAGE_SIZE) /\ cur' = cur
  BY DEF ShrinkPage, regVars
<1>2. \/ pmm_stack_top' = pmm_stack_top + 1 /\ pc' = "shrink"
      \/ pc' = "panic"
  BY <1>1 DEF ShrinkPage, pmm_free_page
<1>3. /\ heap_max \in Nat /\ HEAP_START \in Nat /\ PAGE_SIZE \in Nat \ {0}
      /\ PAGE_SIZE <= HEAP_START /\ HEAP_START <= heap_max /\ heap_max < WORD
      /\ cur \in Nat /\ pmm_stack_top \in Nat
  BY <1>1, Constants DEF HeapInv, HeapBounds, ShrinkBehindList
<1>4. PAGE_SIZE <= heap_max
  BY <1>3
<1>5. heap_max' = heap_max - PAGE_SIZE
  BY <1>1, <1>3, <1>4, SubSmall
<1>6. heap_max' \in Nat /\ heap_max' < heap_max
  BY <1>3, <1>4, <1>5
<1>7. CASE pc' = "panic"
  BY <1>1, <1>7, NextPhase
<1>8. CASE pmm_stack_top' = pmm_stack_top + 1 /\ pc' = "shrink"
  <2>1. pmm_stack_top' \in Nat
    BY <1>3, <1>8
  <2>2. Left("shrink", cur, heap_max', pmm_stack_top') < Left("shrink", cur, heap_max, pmm_stack_top)
    BY <1>3, <1>6, <2>1, LeftShrinks
  <2> QED
    BY <1>1, <1>8, <2>2 DEF NearerEnd
<1> QED
  BY <1>2, <1>7, <1>8

LEMMA StepNearer ==
    ASSUME HeapInv, Step
    PROVE  NearerEnd
<1>1. CASE WalkFit
  BY <1>1, NextPhase DEF WalkFit, Return
<1>2. CASE WalkEnd
  BY <1>2, NextPhase DEF WalkEnd
<1>3. CASE GrowDone
  BY <1>3, NextPhase DEF GrowDone, Return
<1>4. CASE ShrinkDone
  BY <1>4, NextPhase DEF ShrinkDone, Return
<1> QED
  BY <1>1, <1>2, <1>3, <1>4, WalkNextNearer, GrowFrameNearer, GrowMapNearer,
     ShrinkPageNearer DEF Step

\* kmalloc and kfree cannot run forever, whatever the client asked for before:
\* every step brings the call nearer to its end (CallsReturn, but for the
\* fairness and for ENABLED).
THEOREM CallsComeToTheirEnd == CarefulSpec => CallsAdvance
<1>1. HeapInv /\ [CarefulNext]_vars => [Step => NearerEnd]_vars
  BY StepNearer
<1> QED
  BY <1>1, LeftIsCounted, HeapInvariant, PTL DEF CarefulSpec, CallsAdvance
=============================================================================
