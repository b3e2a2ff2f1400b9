-------------------------------- MODULE Boot --------------------------------
(***************************************************************************)
(* From boot.s to the threads: three address spaces, two stacks, the       *)
(* pointer GRUB passes, and panic() with its stack trace (boot.s, entry.c, *)
(* init_vmm of vmm.c, debug.c, melf.c).                                    *)
(*                                                                         *)
(* A stage is one function or statement of the boot sequence; it faults    *)
(* when an address it touches is not mapped.  Of the memory only the words *)
(* that call and push ebp write are kept, by physical address.             *)
(***************************************************************************)
EXTENDS Integers, Sequences, SequencesExt

CONSTANTS
    WORD,           \* 2^32
    PAGE_OFFSET,    \* a multiple of WORD \div 4
    PAGE_SIZE,
    LOW_SIZE,       \* what a temporary page table maps (4 MB)
    RAM_SIZE,       \* what init_vmm maps (512 MB)
    STACK_TOP,      \* 1023: the size of the first stack less one
    STACK_SIZE,
    KernStacks,     \* where the linker may put kern_stack, aligned to 16
    MbootPtrs,      \* where GRUB may put its information
    TablesAt,       \* where it puts the section headers, the symbols and the names:
                    \* behind the image, not in the first page
    Symbols,        \* the symbol table
    JUNK,           \* what memory and registers hold that nobody wrote
    ExclusiveOr(_, _) \* the exclusive or of two words

MBOOT_SIZE == 96    \* sizeof(mutilboot_t)

ASSUME BootAssumption ==
    /\ {WORD, PAGE_OFFSET, PAGE_SIZE, LOW_SIZE, RAM_SIZE, STACK_TOP, STACK_SIZE} \subseteq Nat
    /\ LOW_SIZE <= PAGE_OFFSET /\ (4 * PAGE_OFFSET) % WORD = 0
    /\ PAGE_OFFSET + RAM_SIZE <= WORD /\ LOW_SIZE <= RAM_SIZE
    /\ 32 <= STACK_TOP /\ STACK_TOP < PAGE_SIZE /\ STACK_TOP + 32 <= STACK_SIZE
    /\ \A s \in KernStacks :   \* in the kernel image
          /\ s \in Nat /\ s % 16 = 0
          /\ PAGE_OFFSET + PAGE_SIZE < s /\ s + 2 * STACK_SIZE < PAGE_OFFSET + LOW_SIZE
    /\ \A p \in MbootPtrs : p \in Nat /\ p < LOW_SIZE
    /\ TablesAt \in Nat /\ PAGE_SIZE <= TablesAt /\ TablesAt < LOW_SIZE
    /\ \A i \in 1..Len(Symbols) :
          Symbols[i] \in [name : STRING, value : 0..WORD - 1, size : Nat, type : {"FUNC", "NOTYPE"}]

\* An exclusive or with b changes a number by no more than b.
ASSUME XorAssumption ==
    \A s \in KernStacks : \A b \in 0..STACK_TOP :
        ExclusiveOr(s + STACK_SIZE, b) \in (s + STACK_SIZE - b)..(s + STACK_SIZE + b)

VARIABLES
    pc,
    paging,         \* the address space
    esp, ebp,
    mem,
    kern_stack, mboot_ptr_tmp, glb_mboot_ptr,
    frame,          \* the local variable ebp of print_stack_trace
    calls,          \* history: return addresses of the calls in progress, innermost first
    trace           \* history: what print_stack_trace has printed, up to one more than calls

machine == <<paging, esp, ebp, mem>>
data == <<kern_stack, mboot_ptr_tmp, glb_mboot_ptr>>
history == <<calls, trace>>
bootVars == <<pc, machine, data, frame, history>>

-----------------------------------------------------------------------------
(* Address spaces. *)

\* Where kern_entry() maps the low LOW_SIZE bytes.  Fault: only to the kernel.
Temporary_HighOnly == {PAGE_OFFSET}
Temporary == {0, PAGE_OFFSET}

Mapped(va) ==
    CASE paging = "off" -> TRUE
      [] paging = "pgd_tmp" -> \E base \in Temporary : va \in base..(base + LOW_SIZE - 1)
      [] paging = "pgd_kern" -> va \in (PAGE_OFFSET + PAGE_SIZE)..(PAGE_OFFSET + RAM_SIZE - 1)
Physical(va) == IF paging # "off" /\ va >= PAGE_OFFSET THEN va - PAGE_OFFSET ELSE va

Read(va) == IF Physical(va) \in DOMAIN mem THEN mem[Physical(va)] ELSE JUNK
-----------------------------------------------------------------------------
(* Symbols *)

\* elf_lookup_symbol(): the first function around addr, NULL if there is none.
elf_lookup_symbol(addr) ==
    LET Around(s) == s.type = "FUNC" /\ addr \in s.value..(s.value + s.size - 1)
        found == SelectSeq(Symbols, Around)
    IN  IF found = << >> THEN "NULL" ELSE found[1].name

\* A call in the function named f returns to somewhere in it.
ReturnInto(f) ==
    LET s == CHOOSE i \in 1..Len(Symbols) : Symbols[i].name = f
    IN  Symbols[s].value + 8

\* kernel.ld puts kern_entry() at its physical address and the other functions
\* behind PAGE_OFFSET; the kernel is linked with its symbol table.
ASSUME LinkAssumption ==
    /\ ReturnInto("kern_entry") \in 0..LOW_SIZE - 1
    /\ ReturnInto("kern_init") \in (PAGE_OFFSET + PAGE_SIZE)..(PAGE_OFFSET + LOW_SIZE - 1)
    /\ elf_lookup_symbol(ReturnInto("panic")) # "NULL"
-----------------------------------------------------------------------------
(* Stages *)

\* A stage at pc that touches some addresses and goes on to next.
Stage(here, touched, next) ==
    /\ pc = here
    /\ pc' = IF \A a \in touched : Mapped(a) THEN next ELSE "fault"

\* call from f, push ebp, mov ebp, esp: on a stack with the top at sp.
Call(f, sp, bp) ==
    /\ esp' = sp - 8 /\ ebp' = sp - 8
    /\ mem' = [a \in DOMAIN mem \cup {Physical(sp - 4), Physical(sp - 8)} |->
                  CASE a = Physical(sp - 4) -> ReturnInto(f)
                    [] a = Physical(sp - 8) -> bp
                    [] OTHER -> mem[a]]
    /\ calls' = << ReturnInto(f) >> \o calls

BootInit ==
    /\ pc = "start" /\ paging = "off"
    /\ esp = JUNK /\ ebp = JUNK /\ mem = << >>
    /\ kern_stack \in KernStacks /\ mboot_ptr_tmp \in MbootPtrs
    /\ glb_mboot_ptr = 0 /\ frame = JUNK
    /\ calls = << >> /\ trace = << >>

\* boot.s clears ebp for kern_entry.  Fault: it does not.
FirstFrame_Junk == JUNK
FirstFrame == 0

\* boot.s: the first stack lies at the address that is the size of the array.
start ==
    /\ Stage("start", {}, "kern_entry")
    /\ Call("start", STACK_TOP - (STACK_TOP % 16), FirstFrame)
    /\ UNCHANGED <<paging, data, frame, trace>>

\* kern_entry(): its code and the first stack lie low.
EnablePaging ==
    /\ Stage("kern_entry", {}, "stack")
    /\ paging' = "pgd_tmp"
    /\ UNCHANGED <<esp, ebp, mem, data, frame, history>>

\* The asm statement exclusive-ors the new stack pointer with ebp.
kern_stack_top == kern_stack + STACK_SIZE
SwitchStack ==
    /\ Stage("stack", {ReturnInto("kern_entry")}, "mboot")
    /\ esp' = ExclusiveOr(kern_stack_top, ebp)
    /\ UNCHANGED <<paging, ebp, mem, data, frame, history>>

\* The offset is added to a pointer, so it counts whole structures.
UpdateMboot ==
    /\ Stage("mboot", {ReturnInto("kern_entry")}, "kern_init")
    /\ glb_mboot_ptr' = (mboot_ptr_tmp + PAGE_OFFSET * MBOOT_SIZE) % WORD
    /\ UNCHANGED <<machine, kern_stack, mboot_ptr_tmp, frame, history>>

CallKernInit ==
    /\ Stage("kern_init", {esp - 4, esp - 8, ReturnInto("kern_init")}, "init_debug")
    /\ Call("kern_entry", esp, ebp)
    /\ UNCHANGED <<paging, data, frame, trace>>

\* elf_from_mutilboot() reads the information and the section headers where
\* GRUB left them, the names and tables through PAGE_OFFSET.
init_debug ==
    /\ Stage("init_debug", {glb_mboot_ptr, TablesAt, TablesAt + PAGE_OFFSET}, "init_pmm")
    /\ UNCHANGED <<machine, data, frame, history>>

\* show_memory_map() and init_pmm(), which may fail its assertion.
init_pmm ==
    /\ Stage("init_pmm", {glb_mboot_ptr, esp}, "init_vmm")
    /\ UNCHANGED <<machine, data, frame, history>>

init_vmm ==
    /\ Stage("init_vmm", {esp}, "run")
    /\ paging' = "pgd_kern"
    /\ UNCHANGED <<esp, ebp, mem, data, frame, history>>

\* kern_init() goes on; pmm_alloc_page() may fail its assertion in kmalloc().
Run ==
    /\ Stage("run", {esp, ReturnInto("kern_init")}, "run")
    /\ UNCHANGED <<machine, data, frame, history>>
-----------------------------------------------------------------------------
(* panic(): called from kern_init by way of one function. *)

\* kern_init calls the function that panics.
CallStage ==
    /\ \E here \in {"init_pmm", "run"} : Stage(here, {esp - 4, esp - 8}, "assert")
    /\ Call("kern_init", esp, ebp)
    /\ UNCHANGED <<paging, data, frame, trace>>

\* The assertion fails.
Panic ==
    /\ Stage("assert", {esp - 4, esp - 8}, "panic")
    /\ Call("pmm_free_page", esp, ebp)
    /\ UNCHANGED <<paging, data, frame, trace>>

PrintStackTrace ==
    /\ Stage("panic", {esp - 4, esp - 8}, "trace")
    /\ Call("panic", esp, ebp)
    /\ frame' = ebp'
    /\ UNCHANGED <<paging, data, trace>>

\* One round of the loop: the return address, its name in the tables, which
\* init_debug() found through PAGE_OFFSET (strlen follows a NULL), the next frame.
TraceFrame ==
    /\ frame # 0
    /\ LET eip == Read(frame + 4)
           name == IF Mapped(frame + 4) /\ elf_lookup_symbol(eip) = "NULL" THEN {0} ELSE {}
       IN  /\ Stage("trace", {frame, frame + 4, TablesAt + PAGE_OFFSET} \cup name, "trace")
           /\ IF pc' = "fault" THEN UNCHANGED <<frame, trace>>
              ELSE /\ frame' = Read(frame)
                   /\ trace' = IF Len(trace) > Len(calls) THEN trace ELSE Append(trace, eip)
    /\ UNCHANGED <<machine, data, calls>>

TraceDone ==
    /\ frame = 0 /\ Stage("trace", {}, "stopped")
    /\ UNCHANGED <<machine, data, frame, history>>

\* The endless loops of panic() and page_fault().
Halt == pc \in {"stopped", "fault"} /\ UNCHANGED bootVars

panic == Panic \/ PrintStackTrace \/ TraceFrame \/ TraceDone
BootNext ==
    \/ start \/ EnablePaging \/ SwitchStack \/ UpdateMboot \/ CallKernInit
    \/ init_debug \/ init_pmm \/ init_vmm \/ Run
    \/ CallStage \/ panic \/ Halt

\* Interrupts are off: nothing keeps panic() from going on.
BootSpec == BootInit /\ [][BootNext]_bootVars /\ WF_bootVars(panic)
-----------------------------------------------------------------------------
(* Properties *)

\* Until a panic the kernel touches only what is mapped: each address space
\* lasts as long as something depends on it, the identity map until the last
\* use of a physical address.  Only the stack trace, which follows ebp down to
\* the first stack, outlives it.
BootNeverFaults == pc = "fault" => paging = "pgd_kern" /\ trace # << >>

\* The stack trace lists the calls in progress, innermost first, over the
\* change of the stack and of the address space, and ends where boot.s began.
TraceListsCallers ==
    /\ IsPrefix(trace, calls)
    /\ pc = "stopped" => trace = calls

\* The walk along the frames comes to an end.
PanicEnds == pc = "panic" ~> pc \in {"stopped", "fault"}
=============================================================================
