------------------------------ MODULE PingPong ------------------------------
(***************************************************************************)
(* The two threads the kernel runs (init/entry.c): kern_init prints "A"    *)
(* while flag is 0 and thread() prints "B" while flag is 1, each leaving   *)
(* the flag to the other.  Nothing else protects the static buffer of      *)
(* printk_color and the console, and the timer may preempt either thread   *)
(* between any two steps.  The threads run on Sched: what a thread is      *)
(* about to do is part of the registers that interrupts save.              *)
(***************************************************************************)
EXTENDS Sched

\* kern_init() creates one thread, and this is what the two do in turn.
ProgramAssumption ==
    /\ \E t \in Threads : Threads = {t}
    /\ Values = {"test", "fill", "write", "set"}

VARIABLES
    flag,       \* flag of entry.c
    buf,        \* the static buffer of printk_color
    output      \* history: the last two letters written to the console

programVars == <<flag, buf, output>>
allVars == <<vars, programVars>>

Letter(t) == IF t = Main THEN "A" ELSE "B"
Turn(t) == IF t = Main THEN 0 ELSE 1
-----------------------------------------------------------------------------
ProgramInit == Init /\ flag = 0 /\ buf = "" /\ output = << >>

\* The thread goes on from one of the states in from to the state to.
Goes(from, to) ==
    /\ ip = "thread" /\ regs.val \in from
    /\ regs' = Regs(esp, to)
    /\ kept' = [kept EXCEPT ![esp] = regs']
    /\ UNCHANGED <<ring, current, context, stack, esp, eflags, ip, pic>>

\* Fault: the flag is passed on before the printing.
TestFlag_PassesFirst ==
    /\ Goes({"zero", "test"}, IF flag = Turn(esp) THEN "fill" ELSE "test")
    /\ flag' = 1 - Turn(esp)
    /\ UNCHANGED <<buf, output>>

\* if (flag == ...): the loop's head.
TestFlag ==
    /\ Goes({"zero", "test"}, IF flag = Turn(esp) THEN "fill" ELSE "test")
    /\ UNCHANGED programVars

\* printk_color: vsprintf into buf, then write buf to the console.
FillBuf ==
    /\ Goes({"fill"}, "write")
    /\ buf' = Letter(esp)
    /\ UNCHANGED <<flag, output>>

WriteConsole ==
    /\ Goes({"write"}, "set")
    /\ output' = Append(IF output = << >> THEN << >> ELSE << output[Len(output)] >>, buf)
    /\ UNCHANGED <<flag, buf>>

\* Fault: the flag is not passed on.
SetFlag_Keeps == Goes({"set"}, "test") /\ UNCHANGED programVars

SetFlag ==
    /\ Goes({"set"}, "test")
    /\ flag' = 1 - Turn(esp)
    /\ UNCHANGED <<buf, output>>

Program == TestFlag \/ FillBuf \/ WriteConsole \/ SetFlag

\* Neither loop returns.
System ==
    /\ \/ \E t \in Threads : kernel_thread(t)
       \/ EnableIntr
       \/ \E i \in Irqs : Raise(i)
       \/ TakeIrq
       \/ Kernel
    /\ UNCHANGED programVars

ProgramNext == Program \/ System

\* A thread's time slice is 5 ms (init_timer(200)): one that gets the CPU
\* again and again executes its next instruction now and then, the ret that
\* takes a new thread to fn included.
EnterFn == ip = "ret" /\ Top(esp) = FnFrame /\ SwitchRet /\ UNCHANGED programVars
Slice(t) == esp = t /\ (Program \/ EnterFn)

ProgramSpec ==
    /\ ProgramInit /\ [][ProgramNext]_allVars
    /\ Fairness
    /\ \A t \in Tasks : SF_allVars(Slice(t))
-----------------------------------------------------------------------------
(* Properties *)

\* In the middle of printing, or between printing and passing the flag on.
Printing(t) == kept[t].val \in {"fill", "write", "set"}

\* Every variable has its type.
ProgramTypeOK ==
    /\ flag \in {0, 1} /\ buf \in {"", "A", "B"}
    /\ output \in Seq({"A", "B"}) /\ Len(output) <= 2

\* The flag is a lock: never are two threads inside printk_color, whose buffer
\* and whose console cursor are shared.
OnePrinter == \A t, u \in Tasks : Printing(t) /\ Printing(u) => t = u

\* What a thread is about to write is still what it put into the buffer.
BufferIsMine == \A t \in Tasks : kept[t].val = "write" => buf = Letter(t)

\* printk_color is used by one thread at a time, from its first line to the
\* moment the flag is passed on.
PrinterAlone == ProgramTypeOK /\ OnePrinter /\ BufferIsMine

\* The console shows A and B in turn.
Alternates == Len(output) = 2 => output[1] # output[2]

\* Once the thread exists, both letters go on appearing.
BothPrint ==
    [](DOMAIN next = Tasks =>
         /\ <>(output # << >> /\ output[Len(output)] = "A")
         /\ <>(output # << >> /\ output[Len(output)] = "B"))

\* The program is one of those Sched allows for.
RunsOnSched == Spec
=============================================================================
