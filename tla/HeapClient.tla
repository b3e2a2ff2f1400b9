----------------------------- MODULE HeapClient -----------------------------
(***************************************************************************)
(* The clients for which heap.c works.  Two things in the code depend on   *)
(* the caller: split_chunk leaves the chunk behind the split one with a    *)
(* back link to the wrong chunk, which kfree follows, and the sum          *)
(* start + len of alloc_chunk wraps around for huge requests.              *)
(***************************************************************************)
EXTENDS Heap

\* No request reaches past the end of the address space, even when the heap
\* has grown over all frames.
ASSUME SmallSizes ==
    \A n \in Sizes : HEAP_START + PAGE_SIZE * FRAME_COUNT + n + HDR < WORD

\* The back link of chunk c names the chunk before it in the list.
BackLinkTrue(c) ==
    IF hdr[c].prev = 0 THEN heap_first = c
    ELSE hdr[c].prev \in DOMAIN hdr /\ hdr[hdr[c].prev].next = c

\* A block is only freed while its chunk's back link is right.
CarefulKfree(p) == BackLinkTrue(Sub(p, HDR)) /\ Kfree(p)

CarefulNext ==
    \/ \E n \in Sizes : Kmalloc(n)
    \/ \E p \in DOMAIN live : CarefulKfree(p)
    \/ Step

CarefulSpec == Init /\ [][CarefulNext]_vars /\ WF_vars(Step)
=============================================================================
