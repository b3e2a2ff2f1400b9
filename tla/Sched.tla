------------------------------- MODULE Sched -------------------------------
(***************************************************************************)
(* Kernel threads on one CPU: kernel_thread() links a thread into the ring *)
(* of tasks, the timer interrupt calls schedule(), and switch_to() moves   *)
(* the CPU to the stack of the next task (task.c, sched.c, switch_to.s,    *)
(* idt.c, idt_s.s, timer.c).                                               *)
(*                                                                         *)
(* Every task has a stack of frames, innermost last.  A frame is what an   *)
(* interrupt pushed (irq_common_stub's pusha included), the call of        *)
(* switch_to with its two arguments, or one of the words kernel_thread     *)
(* lays out: the entry point fn and the return address kthread_exit.  The  *)
(* registers are one value that tells whose they are.  The 8259 pair is    *)
(* modelled as far as the code programs it: irr are the requested, isr the *)
(* in-service interrupts, non-specific end-of-interrupt ends the one of    *)
(* highest priority.                                                       *)
(***************************************************************************)
EXTENDS Integers, Sequences

CONSTANTS
    Main,       \* the task init_sched() makes of the boot stack
    Threads,    \* the threads kernel_thread() may create
    Irqs,       \* the IRQ lines that may fire, 0 is the timer
    Values      \* what thread code may leave in its registers

Tasks == Threads \cup {Main}

ASSUME SchedAssumption ==
    /\ Main \notin Threads
    /\ 0 \in Irqs /\ Irqs \subseteq (0..15 \ {2})
    /\ Values # {} /\ Values \cap {"zero", "handler", "junk"} = {}

VARIABLES
    next,       \* next[t] for the tasks in the ring
    head,       \* running_proc_head
    current,    \* the task that schedule() believes to run
    context,    \* context[t]: registers saved by switch_to
    stack,      \* stack[t]: the frames on t's stack
    esp,        \* the task whose stack the CPU uses
    regs,       \* the CPU's registers
    eflags,     \* the interrupt flag IF of eflags
    ip,         \* what the CPU executes
    irr, isr,   \* interrupt controllers
    kept        \* history: registers of t when it last ran its own code

ring == <<next, head>>
cpu == <<esp, regs, eflags, ip>>
pic == <<irr, isr>>
vars == <<ring, current, context, stack, cpu, pic, kept>>

Regs(t, v) == [owner |-> t, val |-> v]
Top(t) == stack[t][Len(stack[t])]
Push(t, f) == stack' = [stack EXCEPT ![t] = Append(@, f)]
Pop(t) == stack' = [stack EXCEPT ![t] = SubSeq(@, 1, Len(@) - 1)]

FnFrame == [kind |-> "fn"]
ExitFrame == [kind |-> "exit"]
-----------------------------------------------------------------------------
(* kern_init(): tasks are created with interrupts still disabled. *)

\* init_sched(): the running code becomes task Main; its context is not yet
\* written.  The timer has been ticking since init_timer().
Init ==
    /\ next = [t \in {Main} |-> Main]
    /\ head = Main /\ current = Main
    /\ context = [t \in Tasks |-> [esp |-> Main, regs |-> Regs(Main, "junk"), eflags |-> FALSE]]
    /\ stack = [t \in Tasks |-> << >>]
    /\ esp = Main /\ regs = Regs(Main, "zero") /\ eflags = FALSE
    /\ ip = "kern_init"
    /\ irr \in SUBSET Irqs /\ isr = {}
    /\ kept = [t \in Tasks |-> Regs(t, "zero")]

\* The list walk of kernel_thread ends at the task whose next is the head.
LastTask == CHOOSE t \in DOMAIN next : next[t] = head

\* The new task points to the head, the last one to it.
Linked(t) ==
    [u \in DOMAIN next \cup {t} |->
        IF u = t THEN head ELSE IF u = LastTask THEN t ELSE next[u]]

\* A thread starts with empty registers and with interrupts enabled.
FirstContext(t) == [esp |-> t, regs |-> Regs(t, "zero"), eflags |-> TRUE]

kernel_thread(t) ==
    /\ ip = "kern_init"
    /\ t \in Threads \ DOMAIN next
    /\ stack' = [stack EXCEPT ![t] = << ExitFrame, FnFrame >>]
    /\ context' = [context EXCEPT ![t] = FirstContext(t)]
    /\ next' = Linked(t)
    /\ UNCHANGED <<head, current, cpu, pic, kept>>

\* enable_intr(): from here on the code of Main is thread code.
EnableIntr ==
    /\ ip = "kern_init"
    /\ eflags' = TRUE /\ ip' = "thread"
    /\ UNCHANGED <<ring, current, context, stack, esp, regs, pic, kept>>
-----------------------------------------------------------------------------
(* Thread code. *)

\* The thread computes.
Work ==
    /\ ip = "thread"
    /\ \E v \in Values : regs' = Regs(esp, v)
    /\ kept' = [kept EXCEPT ![esp] = regs']
    /\ UNCHANGED <<ring, current, context, stack, esp, eflags, ip, pic>>

\* fn returns into kthread_exit, which loops for ever; the task stays in the
\* ring.  kern_init never returns.
ThreadReturn ==
    /\ ip = "thread" /\ esp # Main
    /\ Top(esp) = ExitFrame
    /\ Pop(esp)
    /\ ip' = "kthread_exit"
    /\ UNCHANGED <<ring, current, context, esp, regs, eflags, pic, kept>>
-----------------------------------------------------------------------------
(* Interrupts. *)

Raise(i) ==
    /\ i \notin irr
    /\ irr' = irr \cup {i}
    /\ UNCHANGED <<ring, current, context, stack, cpu, isr, kept>>

\* The slave controller hangs on line 2 of the master.
Line(i) == IF i < 8 THEN i ELSE 2
Blocked(i) ==
    \/ \E j \in isr : j < 8 /\ j <= Line(i)
    \/ \E j \in isr : j >= 8 /\ i >= 8 /\ j <= i
\* i has a higher priority than j.
Before(i, j) == Line(i) < Line(j) \/ (Line(i) = Line(j) /\ i < j)

\* The type of the gates, 0x8E: IF is cleared.  Fault: 0x8F and no cli, IF stays.
GateIF_Trap == eflags
GateIF == FALSE

\* The CPU accepts the most urgent interrupt; its gate clears IF, and
\* irq_common_stub saves the registers.
TakeIrq ==
    /\ eflags
    /\ \E i \in irr :
          /\ ~Blocked(i)
          /\ \A j \in irr \ {i} : Blocked(j) \/ Before(i, j)
          /\ irr' = irr \ {i}
          /\ isr' = isr \cup {i, Line(i)}
          /\ Push(esp, [kind |-> "intr", irq |-> i, regs |-> regs, eflags |-> eflags, ip |-> ip])
    /\ eflags' = GateIF
    /\ ip' = "irq"
    /\ UNCHANGED <<ring, current, context, esp, regs, kept>>

\* End of interrupt, non-specific: the most urgent one of a controller.
EndMaster(s) == s \ {i \in s : i < 8 /\ \A j \in s : i <= j}
EndSlave(s) == s \ {i \in s : i >= 8 /\ \A j \in s : j >= 8 => i <= j}

\* Line i is vector 32 + i; the slave has those from 40 on.  Faults: from 41 on;
\* no end of interrupt at all.
EndOfInterrupt_LateSlave(i) == EndMaster(IF i + 32 > 40 THEN EndSlave(isr) ELSE isr)
EndOfInterrupt_None(i) == isr
EndOfInterrupt(i) == EndMaster(IF i + 32 >= 40 THEN EndSlave(isr) ELSE isr)

\* irq_handler: end of interrupt first, then the handler, if there is one;
\* init_timer registered one for line 0 only.
irq_handler ==
    /\ ip = "irq"
    /\ isr' = EndOfInterrupt(Top(esp).irq)
    /\ regs' = Regs(esp, "handler")
    /\ ip' = IF Top(esp).irq = 0 THEN "timer_callback" ELSE "iret"
    /\ UNCHANGED <<ring, current, context, stack, esp, eflags, irr, kept>>

\* Faults: current is not updated; no switch takes place.
schedule_StaleCurrent ==
    /\ ip = "timer_callback" /\ next[current] # current
    /\ Push(esp, [kind |-> "call", prev |-> current, next |-> next[current]])
    /\ ip' = "switch_to"
    /\ UNCHANGED <<ring, current, context, esp, regs, eflags, pic, kept>>
schedule_Stays ==
    /\ ip = "timer_callback" /\ ip' = "iret"
    /\ UNCHANGED <<ring, current, context, stack, esp, regs, eflags, pic, kept>>

\* timer_callback -> schedule -> change_task_to: current changes before the
\* stack does.
schedule ==
    /\ ip = "timer_callback"
    /\ IF next[current] = current
       THEN ip' = "iret" /\ UNCHANGED <<current, stack>>
       ELSE /\ current' = next[current]
            /\ Push(esp, [kind |-> "call", prev |-> current, next |-> next[current]])
            /\ ip' = "switch_to"
    /\ UNCHANGED <<ring, context, esp, regs, eflags, pic, kept>>

\* What switch_to saves of the task t.  Fault: only the stack pointer.
Saved_StackOnly(t) == [context[t] EXCEPT !.esp = esp]
Saved(t) == [esp |-> esp, regs |-> regs, eflags |-> eflags]

\* switch_to up to popf: IF is 0, so nothing comes between.
switch_to ==
    /\ ip = "switch_to"
    /\ context' = [context EXCEPT ![Top(esp).prev] = Saved(Top(esp).prev)]
    /\ LET new == context'[Top(esp).next]
       IN  esp' = new.esp /\ regs' = new.regs /\ eflags' = new.eflags
    /\ ip' = "ret"
    /\ UNCHANGED <<ring, current, stack, pic, kept>>

\* The ret of switch_to: back into schedule, or for the first time into fn.
SwitchRet ==
    /\ ip = "ret"
    /\ Pop(esp)
    /\ ip' = IF Top(esp).kind = "fn" THEN "thread" ELSE "iret"
    /\ UNCHANGED <<ring, current, context, esp, regs, eflags, pic, kept>>

\* The end of irq_common_stub: popa and iret.
Iret ==
    /\ ip = "iret"
    /\ regs' = Top(esp).regs /\ eflags' = Top(esp).eflags /\ ip' = Top(esp).ip
    /\ Pop(esp)
    /\ UNCHANGED <<ring, current, context, esp, pic, kept>>
-----------------------------------------------------------------------------
Kernel == irq_handler \/ schedule \/ switch_to \/ SwitchRet \/ Iret

Next ==
    \/ \E t \in Threads : kernel_thread(t)
    \/ EnableIntr
    \/ Work
    \/ ThreadReturn
    \/ \E i \in Irqs : Raise(i)
    \/ TakeIrq
    \/ Kernel

\* The timer never stops, kern_init reaches enable_intr, and the CPU goes on
\* executing kernel code and accepting interrupts.  Nothing is assumed of
\* thread code.
Fairness ==
    /\ WF_vars(Raise(0)) /\ WF_vars(EnableIntr)
    /\ WF_vars(TakeIrq) /\ WF_vars(Kernel)

Spec == Init /\ [][Next]_vars /\ Fairness
-----------------------------------------------------------------------------
(* Properties *)

Kinds(t) == [i \in 1..Len(stack[t]) |-> stack[t][i].kind]
InThread == ip \in {"thread", "kthread_exit"}
InKernel == ip \in {"irq", "timer_callback", "switch_to", "iret"}

RegsType == [owner : Tasks, val : Values \cup {"zero", "handler", "junk"}]
\* Every variable has its type.
TypeOK ==
    /\ DOMAIN next \subseteq Tasks /\ \A t \in DOMAIN next : next[t] \in DOMAIN next
    /\ {head, current} \subseteq DOMAIN next
    /\ context \in [Tasks -> [esp : Tasks, regs : RegsType, eflags : BOOLEAN]]
    /\ DOMAIN stack = Tasks
    /\ \A t \in Tasks : \A i \in 1..Len(stack[t]) :
          stack[t][i].kind \in {"intr", "call", "fn", "exit"}
    /\ esp \in Tasks /\ regs \in RegsType /\ eflags \in BOOLEAN
    /\ ip \in {"kern_init", "thread", "kthread_exit", "irq", "timer_callback",
               "switch_to", "ret", "iret"}
    /\ irr \subseteq Irqs /\ isr \subseteq 0..15
    /\ kept \in [Tasks -> RegsType]

\* A thread never notices that it was preempted: its registers are the ones it
\* left, and the interrupt path that resumes it finds its own frame.
RegistersPreserved ==
    /\ ip = "thread" => regs = kept[esp]
    /\ ip = "iret" => regs = Regs(esp, "handler")

\* The CPU always is on the stack of the task schedule() believes to run,
\* except while change_task_to has named the next one and switch_to has not
\* yet left the old one.
CurrentRuns == esp = current <=> ip # "switch_to"

\* Interrupts do not pile up on a stack, so its 8 KB are enough: at any time
\* it holds at most one interrupt frame, and one call of switch_to above it.
StackShape ==
    \A t \in Tasks :
        \E base \in {<< >>, <<"exit">>, <<"exit", "fn">>} :
        \E top \in {<< >>, <<"intr">>, <<"intr", "call">>} :
            Kinds(t) = base \o top

\* Every return finds the frame it expects on the stack.
ReturnsMatch ==
    /\ ip \in {"irq", "iret", "timer_callback"} => Top(esp).kind = "intr"
    /\ ip = "ret" => Top(esp).kind \in {"call", "fn"}
    /\ ip = "thread" => (esp = Main <=> stack[esp] = << >>)

\* Thread code can be preempted; interrupt code cannot.
InterruptFlag == (InThread => eflags) /\ (InKernel => ~eflags)

\* What the CPU does, its stack, IF and current always fit together.
SwitchConsistent == TypeOK /\ CurrentRuns /\ InterruptFlag /\ ReturnsMatch

\* When thread code runs, no interrupt is in service: a switch in the middle
\* of a timer interrupt does not leave the timer blocked.
NothingInService == ip # "irq" => isr = {}

\* No thread is starved, whatever the threads do: each gets the CPU, out of
\* interrupt code, again and again (one that returned spins in kthread_exit
\* and still gives way).
EveryThreadRuns ==
    \A t \in Tasks : [](t \in DOMAIN next => <>(esp = t /\ eflags))
=============================================================================
