----------------------------- MODULE Interrupts -----------------------------
(***************************************************************************)
(* Exceptions and interrupts down to the words on the stack: the gates,    *)
(* the stubs of idt_s.s, pt_regs, and the dispatch of idt.c, while         *)
(* kern_init() sets them up and afterwards.                                *)
(*                                                                         *)
(* Every word is a pair <<what it is, a number>>, the instruction pointer  *)
(* included: <<"thread", n>> is the n-th statement of kern_init, any other *)
(* <<step, v>> a step of the stub of vector v.  The stack grows at the end *)
(* of the sequence, and an address in it is the number of words below it.  *)
(* What schedule() does in the timer's handler is in Sched; here there is  *)
(* one stack.                                                              *)
(***************************************************************************)
EXTENDS Integers, Sequences, SequencesExt

CONSTANTS
    Faults,     \* the exceptions code may cause
    Irqs,       \* the vectors of the lines that may fire
    Errors,     \* the error codes the CPU may push
    MaxDepth    \* bound: how many are nested in one another

NMI == 2
ASSUME InterruptsAssumption ==
    /\ Faults \subseteq 0..19 \ {NMI} /\ Irqs \subseteq 32..47
    /\ Errors \subseteq Nat /\ MaxDepth \in Nat

VARIABLES
    interrupt_handlers,
    stack, regs,
    intr,       \* IF
    masked,     \* the CPU holds back NMIs, until the next iret
    ip,
    bad,        \* <<statement of kern_init that faults, exception>>
    saved       \* history: what each interrupt interrupted, innermost last

vars == <<interrupt_handlers, stack, regs, intr, masked, ip, bad, saved>>

\* kern_init().  Fault: the timer registers its handler first.
KernInit_TimerFirst == <<"init_timer", "init_idt", "init_vmm", "enable_intr">>
KernInit == <<"init_idt", "init_timer", "init_vmm", "enable_intr">>
LoopEnd == Len(KernInit) + 2    \* the endless loop is the last two statements

\* pusha, and the struct that describes what then is on the stack.  Fault: two
\* fields the wrong way round.
Pusha == <<"eax", "ecx", "edx", "ebx", "esp", "ebp", "esi", "edi">>
pt_regs_Swapped == <<"ds">> \o Reverse(Pusha) \o <<"err_code", "int_no", "eip", "cs", "eflags">>
pt_regs == <<"ds">> \o Reverse(Pusha) \o <<"int_no", "err_code", "eip", "cs", "eflags">>

Registers == ToSet(Pusha) \ {"esp"}

\* Where the CPU pushes an error code.
CpuPushesError == {8, 10, 11, 12, 13, 14, 17}

\* The stubs that expect it.  Fault: one is declared with the other macro.
ISR_ERRCODE_No17 == {8, 10, 11, 12, 13, 14}
ISR_ERRCODE == {8, 10, 11, 12, 13, 14, 17}

\* The CPU comes from boot.s with interrupts off; nothing is registered.
Init ==
    /\ interrupt_handlers = [v \in 0..255 |-> "none"]
    /\ stack = << >> /\ regs = [r \in Registers |-> <<r, 0>>]
    /\ intr = 0 /\ masked = FALSE
    /\ ip = <<"thread", 1>>
    /\ bad \in ((2..LoopEnd) \X Faults) \cup {<<0, 0>>}
    /\ saved = << >>

Push(words) == stack' = stack \o words
Popped(n) == SubSeq(stack, 1, Len(stack) - n)
Word(n) == stack[Len(stack) - n]        \* n words below the top one
Goto(step) == ip' = <<step, ip[2]>>
-----------------------------------------------------------------------------
(* kern_init() *)

Register(v, h) == [interrupt_handlers EXCEPT ![v] = h]

\* init_idt() clears the table, init_timer() and init_vmm() put their handlers
\* there.
Registered(s) ==
    CASE s = "init_idt" -> [v \in 0..255 |-> "none"]
      [] s = "init_timer" -> Register(32, "timer_callback")
      [] s = "init_vmm" -> Register(14, "page_fault")
      [] OTHER -> interrupt_handlers

Statement ==
    /\ ip[1] = "thread" /\ ip[2] # bad[1]
    /\ IF ip[2] <= Len(KernInit)
       THEN /\ interrupt_handlers' = Registered(KernInit[ip[2]])
            /\ intr' = IF KernInit[ip[2]] = "enable_intr" THEN 1 ELSE intr
       ELSE UNCHANGED <<interrupt_handlers, intr>>
    /\ ip' = <<"thread", IF ip[2] = LoopEnd THEN LoopEnd - 1 ELSE ip[2] + 1>>
    /\ UNCHANGED <<stack, regs, masked, bad, saved>>
-----------------------------------------------------------------------------
(* The CPU: a vector with an error code that is pushed for some only. *)

\* What a gate of type 0x8E makes of IF.
GateIF == 0

Deliver(v, error) ==
    /\ Len(saved) < MaxDepth
    /\ Push(<< <<"eflags", intr>>, <<"cs", 8>>, ip >>
            \o (IF v \in CpuPushesError THEN << <<"err_code", error>> >> ELSE << >>))
    /\ saved' = Append(saved, [vector |-> v,
                               error |-> IF v \in CpuPushesError THEN error ELSE 0,
                               regs |-> regs, intr |-> intr, ip |-> ip, esp |-> Len(stack)])
    /\ intr' = GateIF
    /\ ip' = <<"entry", v>>
    /\ UNCHANGED <<interrupt_handlers, regs, bad>>

\* A fault comes again when the handler returns; the statement that causes it
\* is never finished.  A handler may cause one, too.
Fault(v, error) ==
    /\ \/ ip[1] = "thread" /\ bad = <<ip[2], v>>
       \/ ip[1] = "handler"
    /\ Deliver(v, error) /\ UNCHANGED masked

\* Between any two instructions once init_idt has loaded the IDT.
Nmi ==
    /\ ~masked /\ ip # <<"thread", 1>>
    /\ Deliver(NMI, 0) /\ masked' = TRUE

Irq(v) == intr = 1 /\ Deliver(v, 0) /\ UNCHANGED masked
-----------------------------------------------------------------------------
(* The stubs: isr_common_stub and irq_common_stub are the same. *)

Stub(step) == ip[1] = step /\ UNCHANGED <<interrupt_handlers, bad>>

\* cli; push 0, if the CPU pushed no error code; push the vector.
Entry ==
    /\ Stub("entry") /\ Goto("pusha")
    /\ Push((IF ip[2] \in ISR_ERRCODE THEN << >> ELSE << <<"err_code", 0>> >>)
            \o << <<"int_no", ip[2]>> >>)
    /\ intr' = 0 /\ UNCHANGED <<regs, masked, saved>>

PushRegisters ==
    /\ Stub("pusha") /\ Goto("push ds")
    /\ Push([i \in 1..8 |->
                IF Pusha[i] = "esp" THEN <<"esp", Len(stack)>> ELSE regs[Pusha[i]]])
    /\ UNCHANGED <<regs, intr, masked, saved>>

PushSegment ==
    /\ Stub("push ds") /\ Goto("call")
    /\ regs' = [regs EXCEPT !.eax = <<"ds", 16>>]
    /\ Push(<< <<"ds", 16>> >>)
    /\ UNCHANGED <<intr, masked, saved>>

\* push esp, call.
CallHandler ==
    /\ Stub("call") /\ Goto("handler")
    /\ Push(<< <<"esp", Len(stack)>>, <<"unwind", ip[2]>> >>)
    /\ UNCHANGED <<regs, intr, masked, saved>>

\* A field of the struct the argument points to.
Field(f) ==
    LET offset == (CHOOSE i \in 1..Len(pt_regs) : pt_regs[i] = f) - 1
    IN  stack[Word(1)[2] - offset]

\* page_fault() says what happened and loops for ever.  Fault: it returns.
AfterPageFault_Returns == "unwind"
AfterPageFault == "page_fault"

\* isr_handler() and irq_handler(): the registers C code may change are lost.
Handle ==
    /\ Stub("handler")
    /\ LET h == interrupt_handlers[Field("int_no")[2]]
           after == IF h = "page_fault" THEN AfterPageFault ELSE "unwind"
       IN  IF after = "unwind"
           THEN ip' = Word(0) /\ stack' = Popped(1)
           ELSE Goto(after) /\ UNCHANGED stack
    /\ regs' = [r \in Registers |-> IF r \in {"eax", "ecx", "edx"} THEN <<"c", 0>> ELSE regs[r]]
    /\ UNCHANGED <<intr, masked, saved>>

\* while (1) of page_fault().
Loop == Stub("page_fault") /\ UNCHANGED vars

\* add esp, 4; pop ebx.
Unwind ==
    /\ Stub("unwind") /\ Goto("popa")
    /\ regs' = [regs EXCEPT !.ebx = Word(1)]
    /\ stack' = Popped(2) /\ UNCHANGED <<intr, masked, saved>>

\* popa skips esp.
Popa == Reverse(Pusha)
PopRegisters ==
    /\ Stub("popa") /\ Goto("iret")
    /\ regs' = [r \in Registers |-> Word((CHOOSE i \in 1..8 : Popa[i] = r) - 1)]
    /\ stack' = Popped(8) /\ UNCHANGED <<intr, masked, saved>>

\* add esp, 8; iret.
Iret ==
    /\ Stub("iret")
    /\ ip' = Word(2) /\ intr' = Word(4)[2]
    /\ stack' = Popped(5)
    /\ masked' = FALSE
    /\ saved' = Front(saved) /\ UNCHANGED regs
-----------------------------------------------------------------------------
Next ==
    \/ Statement
    \/ \E v \in Faults, e \in Errors : Fault(v, e)
    \/ Nmi
    \/ \E v \in Irqs : Irq(v)
    \/ Entry \/ PushRegisters \/ PushSegment \/ CallHandler \/ Handle
    \/ Unwind \/ PopRegisters \/ Iret \/ Loop

Spec == Init /\ [][Next]_vars
-----------------------------------------------------------------------------
(* Properties *)

Steps == {"thread", "entry", "pusha", "push ds", "call", "handler", "page_fault",
          "unwind", "popa", "iret"}
Vectors == Faults \cup Irqs \cup {NMI}
\* Every variable has its type, and a stack that is not used grows no more.
TypeOK ==
    /\ interrupt_handlers \in [0..255 -> {"none", "timer_callback", "page_fault"}]
    /\ intr \in {0, 1} /\ masked \in BOOLEAN
    /\ ip[1] \in Steps /\ ip[2] \in IF ip[1] = "thread" THEN 1..LoopEnd ELSE Vectors
    /\ regs \in [Registers -> (Registers \cup {"ds", "c"}) \X Nat]
    /\ ip[1] = "thread" => stack = << >>

\* A handler finds in pt_regs what its interrupt interrupted and why, wherever
\* that was: the CPU, two macros, pusha and a C struct agree on the layout.
HandlerReadsItsFrame ==
    ip[1] = "handler" =>
        LET top == Last(saved)
        IN  /\ Field("int_no") = <<"int_no", top.vector>>
            /\ Field("err_code") = <<"err_code", top.error>>
            /\ Field("eip") = top.ip
            /\ Field("eflags") = <<"eflags", top.intr>>
            /\ \A r \in Registers : Field(r) = top.regs[r]

\* What is interrupted never notices, even a stub half way through its pushes:
\* every iret restores registers, IF, stack pointer and instruction.
ResumesWhereInterrupted ==
    [][Iret => LET top == Last(saved)
               IN  <<regs', intr', ip', Len(stack')>>
                     = <<top.regs, top.intr, top.ip, top.esp>>]_vars

\* However exceptions and NMIs are nested in one another and in a handler, the
\* stack holds the frame of one IRQ at most.
OneIrqAtATime ==
    \A i, j \in 1..Len(saved) : {saved[i].vector, saved[j].vector} \subseteq Irqs => i = j

\* When thread code can be interrupted, the handlers are there that it relies
\* on: nothing that runs later clears them again.
HandlersInPlace ==
    ip[1] = "thread" /\ intr = 1 =>
        interrupt_handlers[32] = "timer_callback" /\ interrupt_handlers[14] = "page_fault"

\* Interrupt code never meets an unexpected interrupt, nor thread code a
\* missing handler.
InterruptsSound == TypeOK /\ OneIrqAtATime /\ HandlersInPlace

\* After page_fault() neither the code that faulted nor any other thread runs
\* again: it is never left, and the timer never interrupts it.
Stopped == ip[1] = "page_fault" \/ \E i \in 1..Len(saved) : saved[i].ip[1] = "page_fault"
Reports == Handle /\ interrupt_handlers[Last(saved).vector] = "page_fault"
PageFaultStops ==
    [][/\ Reports => Stopped'
       /\ Stopped => Stopped' /\ (Len(saved') > Len(saved) => Last(saved').vector \notin Irqs)]_vars
=============================================================================
