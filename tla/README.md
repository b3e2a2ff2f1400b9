# A verification of the 32-bit kernel

TLA+ models of the memory management and of the threads of this kernel, the
TLC configurations that check them, and TLAPS proofs.  File names below are
relative to `src/src/`.

## 1. The system

The kernel runs on one CPU.  `kern_entry` turns paging on, `kern_init`
initialises one part after the other with interrupts disabled, creates a second
thread and enables interrupts; from then on only two threads and the interrupt
path run.

| component | state | operations | talks to |
|---|---|---|---|
| physical pages, `mm/pmm.c` | `pmm_stack`, `pmm_stack_top`, `phy_page_count` | `init_pmm`, `pmm_alloc_page`, `pmm_free_page` | memory map of GRUB; asserts call `panic` |
| page tables, `mm/vmm.c` | `pgd_kern`, `pte_kern`, tables in allocated frames, the CPU's TLB | `init_vmm`, `map`, `unmap`, `get_mapping` | takes table frames from pmm, never gives them back |
| heap, `mm/heap.c` | chunk headers inside the heap, `heap_first`, `heap_max` | `kmalloc`, `kfree`, `test_heap` | pmm for frames, vmm to map them |
| tasks and scheduler, `kernel/task`, `kernel/sched` | ring of tasks, `current`, the context and stack of every task | `init_sched`, `kernel_thread`, `schedule`, `switch_to`, `kthread_exit` | heap for task and stack; called by the timer |
| interrupts, `idt/`, `drivers/timer.c` | IDT, handler table, two 8259A, IF | stubs, `irq_handler`, `isr_handler`, `timer_callback` | scheduler |
| main threads, `init/entry.c` | `flag` | `kern_init`'s loop, `thread` | printk |
| printk and console, `kernel/debug/printk.c`, `drivers/console.c` | two static buffers, cursor, video memory | `printk`, `printk_color`, `console_*` | all others, no locking |
| panic, `kernel/debug/debug.c`, `melf.c` | the ELF tables GRUB loaded | `panic`, stack trace, symbol lookup | printk |
| boot, `boot/boot.s`, `kern_entry` of `init/entry.c` | temporary page tables, two stacks, `glb_mboot_ptr` | one-time set-up | everything it leaves mapped or unmapped |
| GDT, port I/O, strings | constants | leaf functions | |

What makes each part correct, and what is hard about it:

* **pmm**: a frame is never handed out twice, never lost, and the stack never
  overflows.  The boundary at `PMM_MAX_SIZE` is the hard case.
* **vmm**: mapping a page changes that page only, as the CPU sees it through
  the TLB.  `map` allocates in the middle of its caller's allocation, and a
  new table is memory with old contents.
* **heap**: blocks never overlap, stay mapped, free chunks are merged, pages go
  back.  Only a long mix of calls reaches the interesting lists, and three
  layers change together.
* **threads**: preemption at any instruction is invisible; interrupts do not
  nest; nobody starves.  The order of "end of interrupt", `current`, and the
  change of stacks is delicate, and a new thread's first return is special.
* **main threads**: one integer is the lock for printk's buffer.
* **interrupts**: the CPU, two assembler macros, `pusha` and a C struct must
  agree word by word on what lies on the stack, at every point where an NMI or
  an exception can cut in.
* **console, printk**: arithmetic at the edges, of the screen (a tab, a wrap
  and a scroll at once) and of numbers (the smallest one, width against
  precision), for any sequence of characters.
* **boot, panic**: each address the boot code, GRUB's pointers and the stack
  trace use is valid in some of the three address spaces only.

The full list of hazards, each with its line and its properties, is in
`PROJECT.json`.

## 2. The modules

```
Pmm ──┬── PmmBoot ── MCPmmBoot            PmmBootProofs (EXTENDS PmmBoot)
      └── PageTables ──┬── PageTablesProofs
                       ├── Vmm ── MCVmm   VmmProofs (EXTENDS Vmm, PageTablesProofs)
                       │                  (Vmm implements AddressSpace)
                       └── Heap ──┬── MCHeapAny
                                  └── HeapClient ──┬── MCHeap
                                                   ├── TestHeap ── MCTestHeap
                                                   └── HeapProofs
                          HeapMemoryProofs (EXTENDS HeapProofs, PageTablesProofs, TestHeap)
Sched ──┬── MCSched                       SchedProofs (EXTENDS PingPong)
        └── PingPong ── MCPingPong
Interrupts ── MCInterrupts                StackProofs (EXTENDS Interrupts, Boot)
Boot ── MCBoot
Console ──┬── Output ── MCOutput          OutputProofs (EXTENDS Output)
Printk  ──┘                               (Console implements Terminal)
```

**Pmm** holds the stack and the two operations as actions that other modules
conjoin to their own.  **PmmBoot** adds `init_pmm`, one action per branch of
its loops, over the memory maps in `MemoryMaps`, of whose 64-bit bases and
lengths it reads the low words (`base_addr_low`, `length_low`); afterwards
`TakeFrame` and `ReturnFrame` stand for every caller of the allocator.  `pmm_stack[0]` is not
modelled because the code never uses it.

**PageTables** models `pgd_kern` and every table by its physical address, with
the page walk of the CPU (`Walk`).  An entry is the frame's address or 0; the
flags are always PRESENT|WRITE.  A table can only be written where the direct
map leads back to it (`Reachable`), as `map` computes `frame + PAGE_OFFSET`.
`get_mapping` leaves the caller's variable alone when nothing is mapped, so the
result is any word.  **Vmm** adds the TLB and callers that take, map, unmap and
give back frames.  **AddressSpace** is what vmm promises, a function from pages
to frames; `ImplementsAddressSpace` maps it to what the CPU sees.

**Heap** is `kmalloc` and `kfree` step by step.  `hdr` maps the address of each
chunk to its header; `pc`, `len`, `cur`, `prev` and `page` are the registers of
the call that runs.  A header can be touched only if all of its bytes are
mapped: otherwise the model stops in `fault` (a page fault, in which the
handler loops for ever), or in `wild` when the pointer does not name a header.
Sums are taken modulo 2^32, the length field is 31 bits wide.  `Kfree` merges
in one step, as no interrupt is enabled while the heap is used and the merge
calls nothing; the loops of `alloc_chunk` and `free_chunk` are steps.
**HeapClient** restricts the clients (see 4).  **TestHeap** is the kernel's own
client.

**Sched** has one stack of frames per task, what `switch_to` saves in
`context`, the CPU (`esp`, `regs`, `eflags`, `ip`) and the two interrupt
controllers.  A register set is one value with its owner.  An interrupt can
arrive before every step while IF is set, and so also between the `popf` and
the `ret` of `switch_to` when a thread starts.  `kept` is a history variable:
the registers a thread last had.  **PingPong** puts the two programs of
`entry.c` on top: what a thread does next is part of its registers, so that a
scheduler that mixed them up would mix up the programs.

**Interrupts** is the same path one level lower, for exceptions as well: the
stack is a sequence of words, each action pushes or pops what one instruction
(or one run of `push`es) of `idt_s.s` does, and a second exception or an NMI can
come between any two of them.  `pt_regs` is the order of the fields in
`include/idt.h`; a handler sees the words only through it (`Field`).  It starts
before `init_idt` has run, so that the order in which `kern_init` registers
handlers matters.  Each fault happens at a statement chosen at the start
(`bad`) and again whenever its handler returns there, as `isr_handler` does not
correct anything.  `saved` is history: what each interrupt interrupted.

**Console** is the array of cells at 0xB8000 with the cursor and the two CRTC
registers, one action per kind of character, each with the wrap, the `scroll`
and the `move_cursor` that follow.  **Terminal** is what it promises: a screen of
lines that a character changes in one place and that moves up by one line.
**Printk** reads a format it does not know beforehand, one character per step
(so formats share their prefixes), through the states of `vsprintf`; `number`
and one round of `skip_atoi` are operators.  An `int` wraps, as it does in what
gcc makes of this code without optimisation (the Makefile asks for none): a width
of digits, the negated width of a `*` and the counters of the padding loops may
come out negative (`Wrap`).  Only what one step writes is kept, as `out`, and how
much has been written, as `str`.  Nothing in the code looks at the end of the
buffer; the model stops there (`overrun`, bound `BUFFER`), as what the bytes
behind it do is the linker's choice.  `asked_width` and `asked_precision` are
history: the numbers as the format says them, which the code may have lost to
the wrap.
**Output** is `printk`: it formats, then writes to the console.

**Boot** has one action per stage of the boot sequence.  A stage that touches an
address that its address space does not map goes to `fault`.  Memory keeps the
words that `call` and `push ebp` write, by physical address, so that the stack
trace of `panic()` walks along real frames over two stacks and two mappings, and
reads the symbols and their names, behind the image, in each round.
`kern_stack` may be put at any of 64 places, as the linker decides.  The exclusive
or is a constant operator, so that the proofs need only what they assume of it;
`MCBoot` gives it the bitwise one.

| code | action or operator |
|---|---|
| `init_pmm` | `ScanEntry`, `PushFrame`, `RegionDone`, `InitDone` |
| `pmm_alloc_page`, `pmm_free_page` | same names |
| `init_vmm`, `map`, `unmap`, `get_mapping` | same names; `map` = `MapInTable`, `MapNewTable`, `MapOutOfMemory`, `MapUnreachable` |
| `kmalloc` | `Kmalloc`, `WalkFit`, `WalkNext`, `WalkEnd`, `GrowDone` |
| `alloc_chunk` | `GrowFrame`, `GrowMap` |
| `kfree`, `glue_chunk` | `Kfree` with `GluedBoth` |
| `free_chunk` | `Unlinked` in `Kfree`, then `ShrinkPage`, `ShrinkDone` |
| `kernel_thread`, `kthread_exit` | `kernel_thread`, `ThreadReturn` |
| irq stubs, `irq_handler`, `iret` | `TakeIrq`, `irq_handler`, `Iret` |
| `schedule`, `change_task_to`, `switch_to` | `schedule`, `switch_to`, `SwitchRet` |
| the loops of `kern_init` and `thread` | `TestFlag`, `FillBuf`, `WriteConsole`, `SetFlag` |
| `ISR_NOERRCODE`, `ISR_ERRCODE`, `isr_common_stub`, `isr_handler`, `page_fault` | `Deliver`, `Entry`, `PushRegisters`, `PushSegment`, `CallHandler`, `Handle`, `Loop`, `Unwind`, `PopRegisters`, `Iret` |
| `console_putc_color` | `Backspace`, `Tab`, `CarriageReturn`, `LineFeed`, `Printable`, `Ignored`; `scroll`, `move_cursor` = `Scrolled`, `move_cursor` in each |
| `start`, `kern_entry` | `start`, `EnablePaging`, `SwitchStack`, `UpdateMboot`, `CallKernInit` |
| `panic`, `print_stack_trace` | `Panic`, `PrintStackTrace`, `TraceFrame`, `TraceDone` |

Definitions whose comment says "Fault" are plausible mistakes in the code next
to them.  No specification uses them; for every property one of them shows that
the property would notice (`mutants` in `PROJECT.json`).

## 3. The runs

| run | what it asks | bounds | states |
|---|---|---|---|
| `pmm_boot` | `init_pmm` on eight memory maps, then any sequence of allocations and returns | 8 frames in the stack, 4-byte pages; maps of 0 to 10 frames, two beyond the supported maximum, one with memory above 2^32 | 29 thousand |
| `pmm_supported` | is every frame below `PMM_MAX_SIZE`? **No** | same | |
| `vmm` | mapping, remapping, unmapping with a TLB | 4 frames, three pages, two of them in one table | 569 thousand |
| `heap` | any careful client until memory runs out | 7 frames of 4 bytes, headers of 2 bytes, sizes 2, 5 and 9 | 156 thousand |
| `heap_stale_link` | may any client call `kfree`? **No** | same | |
| `heap_wrap` | does every block end before `heap_max`? **No**, for huge sizes | a 512-byte address space, sizes 0 and 64 | |
| `test_heap` | the kernel's own calls, for all 256 choices of sizes | sizes 0, 1, 3, 6 | 10 thousand |
| `sched` | preemption, with interrupts on both controllers | boot task and two threads; timer, keyboard and the slave's first line; two register values | 102 thousand |
| `ping_pong` | the two threads of `entry.c` | one thread, two interrupt lines | 2 thousand |
| `interrupts` | exceptions, NMIs and interrupts nested in one another, during `kern_init` and after | three exceptions, two lines, two error codes, four nested | 1.5 million |
| `output` | every format of up to six characters; any sequence of characters on the console | 18 characters, 6-bit words, a buffer of 24 bytes, three strings; 4 columns, 3 rows, tab stops of 2, 8 cells behind the screen | 1.4 million |
| `boot` | the boot sequence, and a panic before or after `init_vmm` | 16 MB of addresses, 64 places for `kern_stack`, two for GRUB's information | 3 thousand |

A property may be the conjunction of named parts, when these answer one
question: `FramesAccounted` of `PmmBoot` (nothing handed out twice, nothing lost),
`BlocksSound`, `ListSound` and `PagesAccounted` of the heap (every frame is free, a
table, on its way, or under exactly one page below `heap_max`), `TablesIntact`, `SwitchConsistent`, `PrinterAlone`,
`OnScreen`, `InterruptsSound`.  The type invariant of a module is one of the
parts.

Why the bounds are enough.  Addresses are scaled: pages of 4 bytes, tables of 4
entries, a directory of 32, so that one table holds few pages and the heap
needs two of them.  The sizes for the heap are chosen such that with its header
a block fills a page exactly (2), nearly two (5), or almost three (9), headers
straddle page boundaries, a remainder is or is not split off, and seven frames
let four blocks live and memory run out both when a page and when a table is
allocated.  The topmost frame lies at `PMM_MAX_SIZE`, where `init_pmm` can put
it, outside the direct map.  In `sched`, three tasks make a ring in which the
next is not the previous, and the second controller needs two ends of
interrupt.  In `interrupts` the exceptions are one without an error code, one
with a handler and one with an error code but without a handler; four levels
let an NMI cut into the stub of an exception inside a handler of an interrupt.
The screen of `output` is high enough that a line is neither the first nor the
last, and its cursor needs both registers.  The longest directive of `vsprintf`
that means anything (`%-+#0*.*ld`) is longer than six characters, but no two of
the flags interact except those six characters can hold.  In an `int` of 6 bits
three digits, as in `%222d`, wrap to any sign, and 32 is the argument that no
negation makes positive, as a number and as a width; in base 2 a number is
longer than the precision that goes with it.  24 bytes leave room for texts that
fit behind others and texts that do not.  In `boot` a 4 MB table
is scaled to 2 MB and 2^32 to 2^24; `PAGE_OFFSET` keeps its share of it, three
quarters, on which the wrap of the pointer arithmetic depends, and the 64 places
of `kern_stack` run through all values of the bits that `ebp` has set.

Fairness.  `init_pmm` and a running `kmalloc` or `kfree` go on because
interrupts are disabled and nothing else can run: weak fairness of the running
code.  In `Sched` the timer keeps ticking, `kern_init` reaches `enable_intr`,
and the CPU executes kernel code and accepts interrupts: weak fairness of
`Raise(0)`, `EnableIntr`, `TakeIrq` and `Kernel`; nothing is assumed of thread
code, and other interrupts may come as often as they like.  In `PingPong` a
thread that gets the CPU again and again executes its next instruction now and
then, as a time slice is 5 ms (`init_timer(200)`): strong fairness of each
thread's own steps.  In `Boot` interrupts are off or the code loops, and
`panic()` goes on: weak fairness of its steps.

Deadlock is not checked where the model really stops: after `panic`, or when
the client of `TestHeap` has made its last call.  It is checked for `Sched` and
`PingPong`.

## 4. What the violations mean

* `heap_stale_link`: `split_chunk` (`mm/heap.c:115`) inserts the rest of a
  chunk in front of its successor and leaves the successor's `prev` pointing at
  the chunk that was split.  If the successor is freed while the rest is in use
  again, `kfree` cuts the list at the wrong place and gives back pages under a
  live block.  `HeapClient` names exactly this condition (`BackLinkTrue`), and
  `test_heap` shows that the kernel's own calls never meet it.
* `heap_wrap`: `start + len` at `mm/heap.c:84` wraps around.
  `HeapClient` excludes such sizes (`SmallSizes`).
* `pmm_supported`: `init_pmm` admits the frame that starts at `PMM_MAX_SIZE`
  (`mm/pmm.c:40`), which `include/pmm.h:7` says is not supported.  `heap` shows,
  and `HeapMemoryProofs` proves, that the heap can live with it: `alloc_chunk`
  takes the frame it maps before `map` takes one for a table, so that this frame
  is never used as a table.


Four more things the models follow as the code has them, which no run asks about
because they do not disturb what the runs check:

* `vsprintf` takes the argument for a `*` but does not move past the star
  (`kernel/debug/printk.c:193` and `:208`), so the directive is printed as text
  and its argument is left for the next one (`WidthStar`, `PrecisionStar`).  The
  kernel has no such format.
* `kern_entry` computes the stack pointer as `kern_stack_top ^ ebp`
  (`init/entry.c:67`).  `ebp` is 0x3E8, as the first stack is at the address that
  is its own size (`boot/boot.s:46`), so the stack begins up to 1000 bytes above
  `kern_stack`, unless the linker happens to place it so that these bits are set
  in its end (`SwitchStack`).  It stays mapped, but that part of the stack lies
  over whatever variables the linker put behind `kern_stack` in `.bss`, so the
  frames of the first calls may overwrite them and be overwritten.  `Boot` keeps
  no variables behind the stack and says nothing of them.
* `PAGE_OFFSET` is added to a pointer to a structure of 96 bytes
  (`init/entry.c:75`), and 96 * 0xC0000000 is 0 modulo 2^32: `glb_mboot_ptr`
  stays physical (`UpdateMboot`).  `BootNeverFaults` shows that this does no
  harm: the last use comes before `init_vmm` removes the identity map.
* After `init_vmm` the trace of `panic()` reaches the frame of `kern_entry` at
  0x3E8, which is not mapped any more, and ends in `page_fault()`.  Before, it
  ends as it should (`TraceListsCallers`).

## 5. What is proved

Every theorem holds for all values of the constants that satisfy the named
assumptions, and every proof is checked to the last leaf.

**`PmmBootProofs`**, from `PageAssumption` and `BootAssumption`: the parts of
`FramesAccounted`, `OnlyOutOfMemoryPanics`, `BootedStack` and
`FramesAreFreeRam` are invariants of `PmmBoot`.  None is inductive alone.  That a push cannot
duplicate a frame depends on where `init_pmm` is in the memory map, so the
invariant adds `BootPrefix` (during the scan nothing is held and the stack is
the frames pushed so far, in order, with zeros above them) and `BootPosition` (`page_addr` is the next
frame after them, and only one region pushes).  From these two the stack's
bound, the absence of wrap-around and the final stack follow; after the scan
the frames on the stack and those held are disjoint and make up all frames.
`FramesAreFreeRam` needs `InEntry` besides (while frames are pushed, `length` is
the end of a usable entry, modulo 2^32): the frame pushed and the end are both
page aligned, so the frame ends inside the region, and an end that wraps only
cuts the region shorter.

`BootedStack` joins this module to the others: what `init_pmm` leaves is
`StackFilled`, the very predicate `InitPmm` of `PageTables` starts from (with
`FirstFrame` for `FIRST_FRAME` and `phy_page_count` for `FRAME_COUNT`), and no
frame lies above `PMM_MAX_SIZE`, which is `RamAdmitted`, the assumption of two
theorems about the heap.

**`HeapProofs`**, from `PageAssumption`, `TableAssumption`, `HeapAssumption` and
`SmallSizes`: the parts of `BlocksSound` (`BlocksDisjoint`, `BlocksInHeap`,
`AllocatedAreLive`) and of `ListSound` (`ListCoversHeap`, `FullyMerged`) are
invariants of `CarefulSpec`.  The
argument rests on `HeapInv`, which has these parts:

* `Tiled`: the chunks cover the heap one behind the other.  It says so locally
  (each chunk ends where its `next` starts, no two overlap, only the last has
  no `next`), because reachability along the list cannot be proved by
  induction here.
* `Isolated`: a free chunk lies between chunks in use, and its own back link is
  right.  Nothing is said of the back links of chunks in use: `split_chunk`
  breaks these.  A merge may follow a back link only when it is right, which is
  the client's part (`BackLinkTrue`); the links it follows after that belong to
  free chunks.
* `Owned`: the chunks in use are the client's blocks.
* `HeapBounds` with `Budget`: `heap_max` and the frames on the stack together
  never exceed what the machine had.  With `SmallSizes` no sum in the code
  wraps around.
* `FirstKnown`, `WalkInList`, `GrowAtEnd`, `ShrinkBehindList`: what the
  registers mean in the middle of each loop.

From the same invariant follows that the calls end (`CallsAdvance`, below).

While `kfree` works on the chunk it freed, the list is in order but for that
chunk (`Loose`).  `FreedGood`, `AbsorbLoose` and `GlueGood` follow the two
merges; `Settled` and `UnlinkedGood` show that the list is in order again in
either outcome.  `SplitGood` and `AppendGood` do the same for `kmalloc`, and one
lemma per action puts them together.  The invariant says nothing of the page
tables, because no list pointer is ever derived from them; these follow in
`HeapMemoryProofs`.  It was checked by TLC on
the constants of the run `heap` before it was proved.

**`OutputProofs`**, from `ConsoleAssumption`: `OnScreen` and `HardwareCursor` are
invariants of `Console`, and `Console` implements `Terminal`, for screens, tab
stops and memories of any size.  Inductive is: the type of the memory (cells on
the screen, unused words behind it), the ranges of the cursor, and
`HardwareCursor`.  All of it rests on three facts of arithmetic: a cell of the
screen has its own place in the array (`OffsetBounds`, `OffsetInjective`), two
bytes hold every such place (`TwoBytes`), and a tab goes to the right, one stop
past the edge at most (`TabMoves`).  The refinement maps row r to the cells from
`Offset(0, r)` on; `PutLines` and `ScrolledLines` say what writing a cell and the
scroll do to these lines, `FinishGoTo` and `FinishNextLine` that the wrap and the
scroll at the end of each character are the terminal's.

From `PrintkAssumption` come the three properties of `vsprintf`, for words of any
even size, a buffer of less than half their range, formats of any length and any
arguments.  Inductive (`PrintkInv`) are the types and what a wrapped width still
has to do with the format (`Told`): a number that the format says and that is
less than half the range of a word is the one the code has, so that a wrap can
only happen to one that the buffer has no room for; `SkipAtoi` carries this
through the digits.  The counters wrap too: `size--` below the smallest `int` is
the one case in which two padding loops of `number` run (`CountsOver`), and that
needs a width that is out of bounds already.  `NumbersReadBack` holds whatever the
width, as long as the text stays in the buffer; `FieldsFill` says that it stays
there, and how long it is, whenever the format asks for no more than there is
room for.  For `%c` and `%s` this is `CharFacts` and `StringFacts`, with the blanks in
front and behind as the loops count them.  The rest is about what one
conversion writes.  `number` never writes more than blanks, sign, prefix, zeros,
digits and blanks, in this order (`NumberIsWritten`): of its three paddings only
one meets a `size` that is left over (`Padded`), zeros of `ZEROPAD` and of the
precision are one run (`Padding`), and either nothing is padded or the parts
make up the field; where the sum wraps, the text is too long for the buffer
(`IsTooLong`).  From where each part ends (`Parts`) follows
what a reader sees: `Inked` is one interval from the sign to the last digit
(`PartsInked`), and behind sign and prefix it has the right value.  That the
digits of `do_div()` have the value of the number (`DigitsFacts`), and that zeros in
front do not change it (`ValueLeadingZeros`), are inductions over a recursive
function.  They are done on sets of numbers: `Least` says that a set of naturals
has a least element, because `<` is well-founded (`WFMin`), and `Induction` is its
consequence; the recursive functions exist because a table for n can always be
extended (`TableExists`, `DigitsExist`).  `FormatEnds` is an action property that
depends on no invariant, only on every `++format` having looked at the character
first.  `OutputIsBoth` puts the halves together: a step of printk is a step of
the formatting or of the console and leaves the other alone, so all of this holds
of `OutputSpec`, the specification that the run `output` checks.

**`SchedProofs`**, from `SchedAssumption`: `RegistersPreserved`, `SwitchConsistent`,
`StackShape` and `NothingInService` are invariants of `Sched`, for any number of
threads, any interrupt lines and any set of register values.  None is inductive
alone: whether `iret` gives a thread its registers back depends on what its stack
held through a whole round of the other tasks.  So the invariant says of each
task what is on its stack: nothing (`NotYetCreated`), the two words that
`kernel_thread` prepared (`New`), or an interrupt frame under the call of
`switch_to` in which it waits (`Suspended`); and of the task on the CPU one
disjunct for each place the interrupt path can be in (`OnCpu`: `Booting`,
`Running`, `Entered`, `Handling`, `Leaving`, `Resuming`).  IF is set in `Running`
only, hence an interrupt finds a stack without an interrupt frame; and the end
of interrupt has been sent before `Leaving`, hence the next task finds nothing
in service.  `Resumable` is where a thread may be interrupted, the `ret` of its
first switch included.  TLC checked the invariant on the constants of the run
`sched` before it was proved.

For `PingPong`, `ProgramAssumption` adds that the one created thread is the one
`entry.c` creates.  `ProgramRunsOnSched` proves `ProgramSpec => Spec`, step by step,
so all of the above holds of the two programs.  `PrinterAlone` and `Alternates`
are invariants of `ProgramSpec` because of `Lock`: who is between the test of
`flag` and its change has `flag` on his side (each side changes it only at the end
of its turn, so no preemption can take it away); what the buffer holds is the
letter of the one who filled it; and the program counters in `kept`, not those of
the CPU, tell what a preempted thread has already printed.  That `kept` is
what a thread gets back is `RegistersPreserved`.

**`PageTablesProofs`**, from `PageAssumption` and `TableAssumption`, holds the
lemmas about `init_vmm`, `map` and `unmap`, for directories and tables of any
size.  `PageOrder` and `DirectWindow` are the arithmetic of the two indexes: two
pages with the same indexes are the same page, and those of the direct window
have a table of `pte_kern`.  `Directory` says that a table hangs in one place
only and `pte_kern` where `init_vmm` put it; `TablesKept`, that nobody writes
into `pte_kern`.  From these, `EntryWritten` and `TableAdded` show that writing
an entry, or hanging in a table that has been cleared, changes what the CPU sees
at one page, and `DirectMapKept` and `FramesReachable` that the direct map never
moves and leads to every frame.

**`VmmProofs`**, from these and `ClientAssumption`: `FramesPartitioned`,
`TlbCoherent`, `MappedAreHeld` and `TablesIntact` are invariants of `Vmm`, and `Vmm`
implements `AddressSpace`.  `TablesIntact` needs one more assumption,
`RamSupported`: all frames lie below `PMM_MAX_SIZE`, as `pmm.h` demands (the run
`pmm_supported` shows what `init_pmm` does otherwise).  Without it `map` stops at
a table it cannot write and the other properties still hold.  The invariant
adds to `Directory` and `TablesKept` that the stack holds no frame twice
(`StackOfFrames`), that free frames, tables and held frames are disjoint
(`OneOwner`), and that a page is mapped to a frame somebody holds (`WalksToHeld`).
A table that was not cleared would break the last one, a frame that is on the
stack twice would become a table and a caller's frame at once.  The refinement
maps a page to what the CPU sees; `TlbCoherent` makes that the walk through the
tables, and every action changes the walk at one page or nowhere.  TLC checked
the invariant on the constants of the run `vmm` before it was proved.

**`HeapMemoryProofs`** puts the two together, for the same clients as
`HeapProofs`: `BlocksStayMapped`, `PagesAccounted` and `OnlyOutOfMemoryStops` are
invariants of `CarefulSpec`, and `BlocksAreStable` holds of each of its steps: the
chunk of a block that stays live is still in the list and in use, has its length,
and its bytes, header included, have their frames.  That is a statement about
`hdr` and the page tables; that `kfree` takes no neighbour in use for a free one
and that the walk of `kmalloc` splits only free chunks is where it could fail
(`StepKeepsBlocks`).  To
`HeapInv` come

* `MemInv`: the pages of the heap are exactly those below `heap_max` and lead to
  frames (`HeapWalks`, `HeapMapped`); free frames, tables, frames of the heap and
  the one on its way from `pmm_alloc_page` to `map` are disjoint (`OneUse`) and
  make up all frames.  The lemmas about pages (`PageGap`, `HeapPage`) and
  `GrowMapMemory`, `ShrinkPageMemory` carry it.  Because a page that `free_chunk`
  unmaps counts among the frames, the stack has room for its frame.
* `TightInv`: the heap ends in the page in which its last chunk ends (`EndsAt`),
  also in the middle of the loops of `alloc_chunk` and `free_chunk`; and a chunk
  has room for its header, so that a header below `heap_max` is mapped.
* `LimitInv`, for `OnlyOutOfMemoryStops`: the frame at `PMM_MAX_SIZE`, which
  `init_pmm` admits although the direct map ends there, is on top of the stack
  while the heap has no page, and otherwise is the heap's first page.  So `map`
  never takes it for a table, which it could not write.  This needs only
  `RamAdmitted`, what `init_pmm`'s loop guarantees (all frames at most
  `PMM_MAX_SIZE`), not `RamSupported`.

That kfree follows no bad pointer comes from `Isolated` and the client's part:
of the links it follows (`Near`, `Far`) the first back link is right by
`BackLinkTrue` and the second belongs to a free chunk (`KfreeFollows`).  TLC
checked `MemInv` and `TightInv` on the constants of the run `heap` before they were
proved.

The proofs above assume a careful client.  `KernelClientIsCareful` shows that the
kernel has one: every step of `TestHeap` is a step of `CarefulSpec`, for any four
sizes.  `ClientInv` says why `BackLinkTrue` never fails there.  `test_heap` allocates
everything before it frees anything, so `kmalloc` never finds a free chunk and
`split_chunk` never leaves a wrong link between two chunks (`AllUsed`, `LinksTrue`);
a merge corrects the link of the chunk behind (`AbsorbLinks`); and the addresses
not freed yet are live (`Holds`).  `TestHeapLeavesNothing` follows from `Tiled` and
`FullyMerged` (without a block no chunk is left) and from `TightInv` (without a
chunk no page is left).

**`StackProofs`** is about the words on the stack, in two parts.

`Interrupts`, from `InterruptsAssumption`: `InterruptsSound` and
`HandlerReadsItsFrame` are invariants, and `ResumesWhereInterrupted` and
`PageFaultStops` hold of every step, for any exceptions, interrupt lines and error
codes and for any depth of nesting; the bound on it is a constant.  An
`iret` depends on words pushed long before, under all that was nested in between,
so the invariant speaks of every interrupt in progress: `Frame` lists the 16 words
that the CPU, the stub, `pusha` and the call push for it, `Depth` how many of them
there are at each step of the stub, and `Chain` that they are there (`Serves`), for
the one that runs and for each that was interrupted in its stub.  With it come
`ErrorCodes` (where the CPU pushes no error code the stub pushes 0), `IrqFirst`
(a stub is entered with interrupts off, so a line interrupts only `kern_init`), and
`Nested`.  A push or pop changes only what lies above the frames of the others
(`FrameKept`); `DeliverInv` starts a new frame there, and `IretRestores` finds the
old one complete.  `Layout` and `FieldAt` are the agreement of `pusha` with `pt_regs`,
word by word.  TLC checked the invariant on the constants of the run `interrupts`.

`Boot`, from `BootAssumption`, `XorAssumption` and `LinkAssumption`: `BootNeverFaults`
and `TraceListsCallers` are invariants of `BootSpec`.  Assumed are the order of the
places in memory (the image behind `PAGE_OFFSET` plus a page and inside the first
4 MB, the symbol tables inside them but not in the first page, the first stack
in the first page), that an exclusive or with b changes a
number by at most b, and that `kern_entry` alone is linked low and `panic` has a
symbol.  The invariant knows, for each stage, the address space and the calls in
progress (`StageKnown`), that the frames of all of them lie in memory, linked up to
the 0 of `boot.s`, over two stacks and whatever `kern_stack ^ ebp` is
(`FramesLinked`, with `CallFrame(n)` the address of the n-th), and how far the trace
has come along them (`Tracing`).  TLC checked it on the constants of the run `boot`.

**Loops that end.**  Liveness needs fairness and `ENABLED`, which the prover does not
handle, but the part of it that is about the code is an action property: each
step brings the loop nearer to its end, in a measure counted in naturals.  Three are
proved, for every value of the constants:

* `BootAdvances` (`InitPmmCountsDown`): `init_pmm` has fewer entries of the memory
  map left (`EntriesLeft`), or as many and less of the region (`RegionLeft`).
* `CallsAdvance` (`CallsComeToTheirEnd`): a call goes from the walk to growing the
  heap and ends, or shrinks it and ends (`Phase`); meanwhile the heap behind `cur`,
  the frames that are left or the pages behind `cur` become fewer (`Left`).  The walk
  has no cycle because `Tiled` puts every `next` behind its chunk; the page loops
  have none because `Add` and `Sub` do not wrap (`Budget`).
* `PanicAdvances` (`PanicComesToItsEnd`): of the five frames of a panic,
  `print_stack_trace` meets none twice (`PanicLeft`), because `Tracing` knows which
  one it has come to.

What TLC adds, in `BootTerminates`, `CallsReturn` and `PanicEnds`, is that in each
state of these loops some step can be taken, and that fairness makes it happen.

## 6. Model-checked only, and not modelled

Of the properties the runs check, only liveness is left to TLC:
`BootTerminates`, `CallsReturn`, `PanicEnds`, `EveryThreadRuns` and `BothPrint`, and the
fairness conjunct of `KernelIsCareful` (its safety part is
`KernelClientIsCareful`).  They rest on fairness and on `ENABLED`, which the prover
does not handle; that the loops of the first three count down is proved (above).
For the turns of the threads the same would need the distance along the ring of
tasks, which is a recursive definition.  `XorAssumption` is not proved of a bitwise
exclusive or either, which is a recursive operator; TLC evaluates it for the one
that `MCBoot` supplies.

Not modelled, because nothing of it changes state that another part relies on:
the descriptors of the GDT, the one-instruction functions of port I/O, the
functions on strings and memory (taken to do what their names say), the texts
that `show_memory_map`, `page_fault` and `kthread_exit` print, and
`print_cur_status`, which nobody calls.  The Multiboot header and the linker
script appear as constants.  Where GRUB puts the symbol tables is not modelled
beyond that it is behind the image and inside the first 4 MB: whether `init_pmm` hands their frames out depends on that
choice alone.  What lies behind the buffer of `printk` and above `kern_stack` is not
modelled either.

What clients write into their blocks is not modelled, so `Heap` is exact up to
the first state in which a block overlaps something else.  `kernel_thread` and
`kmalloc` are only called before interrupts are enabled, as in `kern_init`; so
neither two callers at once nor two threads that return are states of this
kernel.  A gate descriptor is reduced to its type, the flags of a page-table
entry to "present".

## 7. What could follow

Every part of the kernel with state of its own has a model, and every safety
property a run checks is proved.  What remains is to connect two parts further:
that `Sched` is what a thread sees of `Interrupts` (one `TakeIrq` to `Iret` of
`Sched` against the words pushed and popped in between).
