------------------------------ MODULE TestHeap ------------------------------
(***************************************************************************)
(* The heap's only callers in the kernel: test_heap(), which allocates     *)
(* four blocks and frees them in the same order, and then kernel_thread(), *)
(* which allocates a task with its stack and never frees it.  Both run in  *)
(* kern_init() before interrupts are enabled.  The four sizes are any      *)
(* sizes, not only the 50, 500, 5000 and 50000 bytes of the code.          *)
(***************************************************************************)
EXTENDS HeapClient, Sequences

CONSTANT STACK_SIZE     \* the block kernel_thread asks for
ASSUME StackAssumption == STACK_SIZE \in Sizes

VARIABLES
    request,    \* the sizes test_heap asks for
    addr,       \* addr1, addr2, ...: what kmalloc returned so far
    line        \* the calls made so far

clientVars == <<request, addr, line>>

TestInit ==
    /\ Init
    /\ request \in [1..4 -> Sizes]
    /\ addr = << >>
    /\ line = 0

\* The next call of test_heap, or kernel_thread's kmalloc after its end.
Call ==
    /\ line' = line + 1
    /\ \/ line \in 0..3 /\ Kmalloc(request[line + 1])
       \/ line \in 4..7 /\ Kfree(addr[line - 3])
       \/ line = 8 /\ Kmalloc(STACK_SIZE)
    /\ UNCHANGED <<request, addr>>

\* A step of the running call; when kmalloc returns, its result is stored.
Run ==
    /\ Step
    /\ addr' = addr \o (IF DOMAIN live' = DOMAIN live THEN << >>
                        ELSE << CHOOSE p \in DOMAIN live' : p \notin DOMAIN live >>)
    /\ UNCHANGED <<request, line>>

TestNext == Call \/ Run

TestSpec == TestInit /\ [][TestNext]_<<vars, clientVars>> /\ WF_<<vars, clientVars>>(TestNext)
-----------------------------------------------------------------------------
(* Properties *)

\* Whenever the kernel frees a block the chunk's back link is right: it is a
\* client for which the heap works, without knowing of the restriction.
KernelIsCareful == CarefulSpec

\* After test_heap the heap is as init_heap left it; only page tables of the
\* heap's address range (which map() never frees) are not free any more.
TestLeavesNothing ==
    (line = 8 /\ pc = "idle") =>
        /\ heap_first = 0 /\ heap_max = HEAP_START
        /\ FreeFrames = Frames \ Tables

=============================================================================
