---------------------------- MODULE SchedProofs ----------------------------
(***************************************************************************)
(* Proofs about Sched, for any number of threads and any interrupt lines:  *)
(* the inductive invariant says of every task what its stack holds.  Then, *)
(* about PingPong, that the two programs of entry.c run on Sched as the    *)
(* threads it promises, and that their flag is a lock.                     *)
(***************************************************************************)
EXTENDS PingPong, SequenceTheorems, TLAPS

-----------------------------------------------------------------------------
(* The invariant. *)

\* Where an interrupt may find the code of t.
Resumable(t) == {"thread"} \cup (IF t = Main THEN {} ELSE {"kthread_exit", "ret"})

\* What lies on the stack of t then.
Base(t, p) ==
    IF p = "ret" THEN << ExitFrame, FnFrame >>
    ELSE IF p = "thread" /\ t # Main THEN << ExitFrame >> ELSE << >>

IntrFrame(t, p, i) == [kind |-> "intr", irq |-> i, regs |-> kept[t], eflags |-> TRUE, ip |-> p]
CallFrame(u, v) == [kind |-> "call", prev |-> u, next |-> v]

\* t has been interrupted at p by line i.
Interrupted(t, p, i) == Append(Base(t, p), IntrFrame(t, p, i))

Frame ==
    {ExitFrame, FnFrame}
    \cup [kind : {"intr"}, irq : Irqs, regs : RegsType, eflags : BOOLEAN,
          ip : {"thread", "kthread_exit", "ret"}]
    \cup [kind : {"call"}, prev : Tasks, next : Tasks]

Types ==
    /\ DOMAIN next \subseteq Tasks /\ next \in [DOMAIN next -> DOMAIN next]
    /\ {head, current, esp} \subseteq DOMAIN next
    /\ context \in [Tasks -> [esp : Tasks, regs : RegsType, eflags : BOOLEAN]]
    /\ stack \in [Tasks -> Seq(Frame)]
    /\ irr \subseteq Irqs /\ isr \subseteq 0..15
    /\ kept \in [Tasks -> RegsType]

\* What the CPU does, and what it finds on its stack.
Booting == ip = "kern_init" /\ esp = Main /\ eflags = FALSE /\ regs = kept[Main] /\ stack[Main] = << >>
Running ==
    /\ ip \in Resumable(esp) /\ eflags = TRUE
    /\ regs = kept[esp] /\ stack[esp] = Base(esp, ip)
Entered ==
    /\ ip = "irq" /\ eflags = FALSE /\ regs = kept[esp]
    /\ \E p \in Resumable(esp), i \in Irqs :
          stack[esp] = Interrupted(esp, p, i) /\ isr = {i, Line(i)}
Handling ==
    /\ ip \in {"timer_callback", "iret"} /\ eflags = FALSE /\ regs = Regs(esp, "handler")
    /\ \E p \in Resumable(esp), i \in Irqs : stack[esp] = Interrupted(esp, p, i)
Leaving ==
    /\ ip = "switch_to" /\ eflags = FALSE /\ regs = Regs(esp, "handler")
    /\ \E p \in Resumable(esp), i \in Irqs :
          stack[esp] = Append(Interrupted(esp, p, i), CallFrame(esp, current))

\* t is inside switch_to, called from its timer interrupt.
Switched(t) ==
    \E p \in Resumable(t), i \in Irqs, u, v \in Tasks :
        stack[t] = Append(Interrupted(t, p, i), CallFrame(u, v))
Resuming == ip = "ret" /\ eflags = FALSE /\ regs = Regs(esp, "handler") /\ Switched(esp)

OnCpu == Booting \/ Running \/ Entered \/ Handling \/ Leaving \/ Resuming

\* The tasks of the ring that do not run: new, or in switch_to.
New(t) ==
    /\ t # Main /\ stack[t] = << ExitFrame, FnFrame >>
    /\ context[t] = FirstContext(t) /\ kept[t] = Regs(t, "zero")
Suspended(t) ==
    /\ context[t] = [esp |-> t, regs |-> Regs(t, "handler"), eflags |-> FALSE]
    /\ Switched(t)
Waiting(t) == New(t) \/ Suspended(t)
OthersWait == \A t \in DOMAIN next : t # esp => Waiting(t)

\* The tasks that kernel_thread() has not created.
Absent(t) == stack[t] = << >> /\ kept[t] = Regs(t, "zero")
NotYetCreated == \A t \in Tasks : t \notin DOMAIN next => Absent(t)

Inv == Types /\ OnCpu /\ OthersWait /\ NotYetCreated /\ CurrentRuns /\ NothingInService
-----------------------------------------------------------------------------
(* Stacks. *)

\* What is pushed is on top, and popping it leaves what was there.
LEMMA PushPop ==
    ASSUME NEW S, NEW s \in Seq(S), NEW f \in S
    PROVE  /\ Append(s, f) \in Seq(S)
           /\ Append(s, f)[Len(Append(s, f))] = f
           /\ SubSeq(Append(s, f), 1, Len(Append(s, f)) - 1) = s
<1> DEFINE a == Append(s, f)
           b == SubSeq(a, 1, Len(a) - 1)
<1>1. a \in Seq(S) /\ Len(a) = Len(s) + 1 /\ a[Len(s) + 1] = f
      /\ Len(s) \in Nat /\ \A i \in 1..Len(s) : a[i] = s[i] /\ s[i] \in S
  BY AppendProperties, LenProperties, ElementOfSeq
<1> HIDE DEF a
<1>2. \A i \in 1..Len(a) - 1 : a[i] \in S
  BY <1>1
<1>3. b \in Seq(S) /\ Len(b) = Len(s) /\ \A i \in 1..Len(s) : b[i] = s[i]
  BY <1>1, <1>2, SubSeqProperties
<1> HIDE DEF b
<1>4. b = s
  BY <1>3, SeqEqual
<1> QED
  BY <1>1, <1>4 DEF a, b

\* The words of a thread's stack are frames.
LEMMA BaseIsSeq ==
    ASSUME NEW t, NEW p
    PROVE  Base(t, p) \in Seq(Frame)
<1>1. ExitFrame \in Frame /\ FnFrame \in Frame
  BY DEF Frame
<1> QED
  BY <1>1 DEF Base

LEMMA IntrIsFrame ==
    ASSUME Types, NEW t \in Tasks, NEW p \in Resumable(t), NEW i \in Irqs
    PROVE  IntrFrame(t, p, i) \in Frame /\ Interrupted(t, p, i) \in Seq(Frame)
<1>1. kept[t] \in RegsType /\ p \in {"thread", "kthread_exit", "ret"}
  BY DEF Types, Resumable
<1>2. IntrFrame(t, p, i) \in Frame
  BY <1>1 DEF IntrFrame, Frame
<1> QED
  BY <1>2, BaseIsSeq, PushPop DEF Interrupted

LEMMA CallIsFrame ==
    ASSUME NEW u \in Tasks, NEW v \in Tasks
    PROVE  CallFrame(u, v) \in Frame
BY DEF CallFrame, Frame

\* The top of a stack that an interrupt, or switch_to, has pushed on.
LEMMA TopIntr ==
    ASSUME Types, NEW t \in Tasks, NEW p \in Resumable(t), NEW i \in Irqs,
           stack[t] = Interrupted(t, p, i)
    PROVE  /\ Top(t) = IntrFrame(t, p, i)
           /\ SubSeq(stack[t], 1, Len(stack[t]) - 1) = Base(t, p)
BY IntrIsFrame, BaseIsSeq, PushPop DEF Top, Interrupted

LEMMA TopCall ==
    ASSUME Types, NEW t \in Tasks, NEW p \in Resumable(t), NEW i \in Irqs,
           NEW u \in Tasks, NEW v \in Tasks,
           stack[t] = Append(Interrupted(t, p, i), CallFrame(u, v))
    PROVE  /\ Top(t) = CallFrame(u, v)
           /\ SubSeq(stack[t], 1, Len(stack[t]) - 1) = Interrupted(t, p, i)
BY IntrIsFrame, CallIsFrame, PushPop DEF Top

\* A task that waits goes on waiting if nobody touches it.
LEMMA WaitingKept ==
    ASSUME NEW t, Waiting(t),
           stack'[t] = stack[t], context'[t] = context[t], kept'[t] = kept[t]
    PROVE  Waiting(t)'
<1>1. CASE New(t)
  BY <1>1 DEF Waiting, New
<1>2. CASE Suspended(t)
  <2>1. Switched(t)'
    BY <1>2 DEF Suspended, Switched, Interrupted, IntrFrame
  <2> QED
    BY <1>2, <2>1 DEF Waiting, Suspended
<1> QED
  BY <1>1, <1>2 DEF Waiting

LEMMA AbsentKept ==
    ASSUME NEW t, Absent(t), stack'[t] = stack[t], kept'[t] = kept[t]
    PROVE  Absent(t)'
BY DEF Absent
-----------------------------------------------------------------------------
(* Every step preserves the invariant. *)

LEMMA RegsInType ==
    ASSUME NEW t \in Tasks, NEW v \in Values \cup {"zero", "handler", "junk"}
    PROVE  Regs(t, v) \in RegsType
BY DEF Regs, RegsType

LEMMA InitInv == Init => Inv
<1> SUFFICES ASSUME Init PROVE Inv
  OBVIOUS
<1> USE DEF Init
<1>1. Main \in Tasks
  BY DEF Tasks
<1>2. Types
  <2>1. \A t \in Tasks : Regs(t, "zero") \in RegsType /\ Regs(t, "junk") \in RegsType
    BY RegsInType
  <2>2. << >> \in Seq(Frame)
    OBVIOUS
  <2>3. stack \in [Tasks -> Seq(Frame)] /\ kept \in [Tasks -> RegsType]
    BY <2>1, <2>2
  <2>4. context \in [Tasks -> [esp : Tasks, regs : RegsType, eflags : BOOLEAN]]
    BY <1>1, <2>1
  <2>5. DOMAIN next = {Main} /\ next \in [DOMAIN next -> DOMAIN next]
    OBVIOUS
  <2> QED
    BY <1>1, <2>3, <2>4, <2>5, SchedAssumption DEF Types, SchedAssumption
<1>3. Booting
  BY <1>1 DEF Booting
<1>4. NotYetCreated
  BY DEF NotYetCreated, Absent
<1>5. OthersWait
  BY DEF OthersWait
<1>6. CurrentRuns /\ NothingInService
  BY DEF CurrentRuns, NothingInService
<1> QED
  BY <1>2, <1>3, <1>4, <1>5, <1>6 DEF Inv, OnCpu

\* kernel_thread() makes one absent task a new one and touches nobody else.
LEMMA KernelThreadInv ==
    ASSUME Inv, NEW t \in Threads, kernel_thread(t)
    PROVE  Inv'
<1> USE DEF Inv
<1>1. /\ t \in Tasks /\ t # Main /\ t \notin DOMAIN next
      /\ ip = "kern_init" /\ UNCHANGED <<head, current, esp, regs, eflags, ip, irr, isr, kept>>
  BY SchedAssumption DEF SchedAssumption, Tasks, kernel_thread, cpu, pic
<1>2. Booting
  BY <1>1 DEF OnCpu, Booting, Running, Resumable, Entered, Handling, Leaving, Resuming
<1>3. /\ stack' = [stack EXCEPT ![t] = << ExitFrame, FnFrame >>]
      /\ context' = [context EXCEPT ![t] = FirstContext(t)]
      /\ next' = Linked(t)
  BY DEF kernel_thread
<1>4. \A u \in Tasks : u # t => stack'[u] = stack[u] /\ context'[u] = context[u]
  BY <1>3 DEF Types
<1>5. stack'[t] = << ExitFrame, FnFrame >> /\ context'[t] = FirstContext(t)
  BY <1>1, <1>3 DEF Types
<1>6. /\ DOMAIN next' = DOMAIN next \cup {t}
      /\ next' \in [DOMAIN next' -> DOMAIN next']
  <2>1. head \in DOMAIN next /\ \A u \in DOMAIN next : next[u] \in DOMAIN next
    BY DEF Types
  <2> QED
    BY <1>3, <2>1 DEF Linked
<1>7. Types'
  <2>1. stack' \in [Tasks -> Seq(Frame)]
    <3>1. << ExitFrame, FnFrame >> \in Seq(Frame)
      BY DEF Frame
    <3> QED
      BY <1>1, <1>3, <3>1 DEF Types
  <2>2. context' \in [Tasks -> [esp : Tasks, regs : RegsType, eflags : BOOLEAN]]
    <3>1. FirstContext(t) \in [esp : Tasks, regs : RegsType, eflags : BOOLEAN]
      BY <1>1, RegsInType DEF FirstContext
    <3> QED
      BY <1>1, <1>3, <3>1 DEF Types
  <2> QED
    BY <1>1, <1>6, <2>1, <2>2 DEF Types
<1>8. Booting'
  BY <1>1, <1>2, <1>4 DEF Booting, Tasks
<1>9. OthersWait'
  <2> SUFFICES ASSUME NEW u \in DOMAIN next', u # esp PROVE Waiting(u)'
    BY <1>1 DEF OthersWait
  <2>1. CASE u = t
    <3>1. kept[t] = Regs(t, "zero")
      BY <1>1 DEF NotYetCreated, Absent
    <3> QED
      BY <1>1, <1>5, <2>1, <3>1 DEF Waiting, New
  <2>2. CASE u # t
    <3>1. u \in DOMAIN next /\ u \in Tasks /\ Waiting(u)
      BY <1>6, <2>2 DEF OthersWait, Types
    <3> QED
      BY <1>1, <1>4, <2>2, <3>1, WaitingKept
  <2> QED
    BY <2>1, <2>2
<1>10. NotYetCreated'
  BY <1>1, <1>4, <1>6, AbsentKept DEF NotYetCreated
<1>11. CurrentRuns' /\ NothingInService'
  BY <1>1 DEF CurrentRuns, NothingInService
<1> QED
  BY <1>7, <1>8, <1>9, <1>10, <1>11 DEF OnCpu

\* A step of the running task leaves the others alone.
LEMMA OthersKept ==
    ASSUME Inv, next' = next, esp' = esp,
           \A u \in Tasks : u # esp =>
               stack'[u] = stack[u] /\ context'[u] = context[u] /\ kept'[u] = kept[u]
    PROVE  OthersWait' /\ NotYetCreated'
<1>1. OthersWait'
  <2> SUFFICES ASSUME NEW u \in DOMAIN next, u # esp PROVE Waiting(u)'
    BY DEF OthersWait
  <2>1. u \in Tasks /\ Waiting(u)
    BY DEF Inv, OthersWait, Types
  <2> QED
    BY <2>1, WaitingKept
<1>2. NotYetCreated'
  <2> SUFFICES ASSUME NEW u \in Tasks, u \notin DOMAIN next PROVE Absent(u)'
    BY DEF NotYetCreated
  <2>1. u # esp /\ Absent(u)
    BY DEF Inv, NotYetCreated, Types
  <2> QED
    BY <2>1, AbsentKept
<1> QED
  BY <1>1, <1>2

LEMMA EnableIntrInv ==
    ASSUME Inv, EnableIntr
    PROVE  Inv'
<1>1. /\ ip = "kern_init" /\ ip' = "thread" /\ eflags' = TRUE
      /\ UNCHANGED <<next, head, current, context, stack, esp, regs, irr, isr, kept>>
  BY DEF EnableIntr, ring, pic
<1>2. Booting
  BY <1>1 DEF Inv, OnCpu, Booting, Running, Resumable, Entered, Handling, Leaving, Resuming
<1>3. Running'
  BY <1>1, <1>2 DEF Booting, Running, Resumable, Base
<1>4. Types'
  BY <1>1 DEF Inv, Types
<1>5. OthersWait' /\ NotYetCreated'
  BY <1>1, OthersKept
<1>6. CurrentRuns' /\ NothingInService'
  BY <1>1 DEF Inv, CurrentRuns, NothingInService
<1> QED
  BY <1>3, <1>4, <1>5, <1>6 DEF Inv, OnCpu

\* Code of a thread runs with interrupts enabled and nothing in service.
LEMMA ThreadRuns ==
    ASSUME Inv, ip \in {"thread", "kthread_exit"}
    PROVE  Running /\ esp \in Tasks /\ isr = {} /\ esp = current
<1>1. Running
  BY DEF Inv, OnCpu, Booting, Entered, Handling, Leaving, Resuming
<1>2. esp \in Tasks /\ isr = {} /\ esp = current
  BY DEF Inv, Types, NothingInService, CurrentRuns
<1> QED
  BY <1>1, <1>2

LEMMA WorkInv ==
    ASSUME Inv, Work
    PROVE  Inv'
<1>1. /\ ip = "thread" /\ ip' = ip
      /\ UNCHANGED <<next, head, current, context, stack, esp, eflags, irr, isr>>
  BY DEF Work, ring, pic
<1>2. PICK v \in Values : regs' = Regs(esp, v) /\ kept' = [kept EXCEPT ![esp] = regs']
  BY DEF Work
<1>3. Running /\ esp \in Tasks
  BY <1>1, ThreadRuns
<1>4. regs' \in RegsType
  BY <1>2, <1>3, RegsInType
<1>5. Types'
  BY <1>1, <1>2, <1>3, <1>4 DEF Inv, Types
<1>6. kept'[esp] = regs' /\ \A u \in Tasks : u # esp => kept'[u] = kept[u]
  BY <1>2, <1>3 DEF Inv, Types
<1>7. Running'
  BY <1>1, <1>3, <1>6 DEF Running, Base, Resumable
<1>8. OthersWait' /\ NotYetCreated'
  BY <1>1, <1>6, OthersKept
<1>9. CurrentRuns' /\ NothingInService'
  BY <1>1 DEF Inv, CurrentRuns, NothingInService
<1> QED
  BY <1>5, <1>7, <1>8, <1>9 DEF Inv, OnCpu

LEMMA ThreadReturnInv ==
    ASSUME Inv, ThreadReturn
    PROVE  Inv'
<1>1. /\ ip = "thread" /\ ip' = "kthread_exit" /\ esp # Main
      /\ UNCHANGED <<next, head, current, context, esp, regs, eflags, irr, isr, kept>>
      /\ stack' = [stack EXCEPT ![esp] = SubSeq(@, 1, Len(@) - 1)]
  BY DEF ThreadReturn, ring, pic, Pop
<1>2. Running /\ esp \in Tasks
  BY <1>1, ThreadRuns
<1>3. stack[esp] = << ExitFrame >>
  BY <1>1, <1>2 DEF Running, Base
<1>4. SubSeq(stack[esp], 1, Len(stack[esp]) - 1) = << >>
  BY <1>3
<1>5. stack'[esp] = << >> /\ \A u \in Tasks : u # esp => stack'[u] = stack[u]
  BY <1>1, <1>2, <1>4 DEF Inv, Types
<1>6. Types'
  <2>1. stack' \in [Tasks -> Seq(Frame)]
    BY <1>1, <1>2, <1>4 DEF Inv, Types
  <2> QED
    BY <1>1, <2>1 DEF Inv, Types
<1>7. Running'
  BY <1>1, <1>2, <1>5 DEF Running, Base, Resumable
<1>8. OthersWait' /\ NotYetCreated'
  BY <1>1, <1>5, OthersKept
<1>9. CurrentRuns' /\ NothingInService'
  BY <1>1 DEF Inv, CurrentRuns, NothingInService
<1> QED
  BY <1>6, <1>7, <1>8, <1>9 DEF Inv, OnCpu

\* What the interrupt lines and unchanged variables leave of the CPU.
LEMMA CpuKept ==
    ASSUME OnCpu, UNCHANGED <<next, head, current, context, stack, cpu, isr, kept>>
    PROVE  OnCpu'
<1>1. /\ ip' = ip /\ esp' = esp /\ eflags' = eflags /\ regs' = regs
      /\ current' = current /\ stack' = stack /\ isr' = isr /\ kept' = kept
  BY DEF cpu
<1>2. \A t, p, i : Interrupted(t, p, i)' = Interrupted(t, p, i)
  BY <1>1, Zenon DEF Interrupted, IntrFrame
<1>3. Switched(esp)' = Switched(esp)
  BY <1>1, <1>2, Zenon DEF Switched
<1>4. CASE Booting
  BY <1>1, <1>4, Zenon DEF OnCpu, Booting
<1>5. CASE Running
  BY <1>1, <1>5, Zenon DEF OnCpu, Running
<1>6. CASE Entered
  BY <1>1, <1>2, <1>6, Zenon DEF OnCpu, Entered
<1>7. CASE Handling
  BY <1>1, <1>2, <1>7, Zenon DEF OnCpu, Handling
<1>8. CASE Leaving
  BY <1>1, <1>2, <1>8, Zenon DEF OnCpu, Leaving
<1>9. CASE Resuming
  BY <1>1, <1>3, <1>9, Zenon DEF OnCpu, Resuming
<1> QED
  BY <1>4, <1>5, <1>6, <1>7, <1>8, <1>9 DEF OnCpu

LEMMA RaiseInv ==
    ASSUME Inv, NEW i \in Irqs, Raise(i)
    PROVE  Inv'
<1>1. /\ irr' = irr \cup {i}
      /\ UNCHANGED <<next, head, current, context, stack, esp, regs, eflags, ip, isr, kept>>
  BY DEF Raise, ring, cpu
<1>2. Types'
  BY <1>1 DEF Inv, Types
<1>3. OnCpu'
  BY <1>1, CpuKept DEF Inv, cpu
<1>4. OthersWait' /\ NotYetCreated'
  BY <1>1, OthersKept
<1>5. CurrentRuns' /\ NothingInService'
  BY <1>1 DEF Inv, CurrentRuns, NothingInService
<1> QED
  BY <1>2, <1>3, <1>4, <1>5 DEF Inv

\* An interrupt is accepted only where Running holds: it pushes its frame.
LEMMA TakeIrqInv ==
    ASSUME Inv, TakeIrq
    PROVE  Inv'
<1>1. /\ eflags = TRUE /\ eflags' = FALSE /\ ip' = "irq"
      /\ UNCHANGED <<next, head, current, context, esp, regs, kept>>
  BY DEF TakeIrq, GateIF, ring, Inv, OnCpu, Booting, Running, Entered, Handling, Leaving, Resuming
<1>2. PICK i \in irr :
        /\ irr' = irr \ {i} /\ isr' = isr \cup {i, Line(i)}
        /\ Push(esp, [kind |-> "intr", irq |-> i, regs |-> regs, eflags |-> eflags, ip |-> ip])
  BY DEF TakeIrq
<1>3. Running /\ esp \in Tasks /\ i \in Irqs /\ ip \in Resumable(esp)
  BY <1>1 DEF Inv, OnCpu, Booting, Running, Entered, Handling, Leaving, Resuming, Types
<1>4. isr = {} /\ ip # "irq" /\ ip # "switch_to" /\ esp = current
  BY <1>3 DEF Inv, Resumable, NothingInService, CurrentRuns
<1>5. stack' = [stack EXCEPT ![esp] = Interrupted(esp, ip, i)]
  BY <1>1, <1>2, <1>3 DEF Push, Running, Interrupted, IntrFrame
<1>6. Interrupted(esp, ip, i) \in Seq(Frame)
  BY <1>3, IntrIsFrame DEF Inv
<1>7. Types'
  <2>1. stack' \in [Tasks -> Seq(Frame)]
    BY <1>3, <1>5, <1>6 DEF Inv, Types
  <2>2. isr' \subseteq 0..15
    BY <1>2, <1>3, <1>4, SchedAssumption DEF Line, SchedAssumption
  <2> QED
    BY <1>1, <1>2, <2>1, <2>2 DEF Inv, Types
<1>8. stack'[esp] = Interrupted(esp, ip, i) /\ \A u \in Tasks : u # esp => stack'[u] = stack[u]
  BY <1>3, <1>5 DEF Inv, Types
<1>9. Entered'
  <2>1. PICK p \in Resumable(esp) : p = ip
    BY <1>3
  <2>2. stack'[esp] = Append(Base(esp, p), IntrFrame(esp, p, i)')
    BY <1>1, <1>8, <2>1 DEF Interrupted, IntrFrame
  <2>3. isr' = {i, Line(i)} /\ regs' = kept'[esp]
    BY <1>1, <1>2, <1>3, <1>4 DEF Running
  <2>4. \E q \in Resumable(esp'), j \in Irqs :
           stack'[esp'] = Interrupted(esp, q, j)' /\ isr' = {j, Line(j)}
    BY <1>1, <1>3, <2>2, <2>3 DEF Interrupted
  <2> QED
    BY <1>1, <2>3, <2>4 DEF Entered
<1>10. OthersWait' /\ NotYetCreated'
  BY <1>1, <1>8, OthersKept
<1>11. CurrentRuns' /\ NothingInService'
  BY <1>1, <1>4 DEF CurrentRuns, NothingInService
<1> QED
  BY <1>7, <1>9, <1>10, <1>11 DEF Inv, OnCpu

\* With one interrupt in service, the end of interrupt leaves none.
LEMMA EndOfInterruptEnds ==
    ASSUME NEW i \in Irqs, isr = {i, Line(i)}
    PROVE  EndOfInterrupt(i) = {}
<1>1. i \in 0..15 /\ i # 2
  BY SchedAssumption DEF SchedAssumption
<1>2. CASE i < 8
  <2>1. isr = {i}
    BY <1>2 DEF Line
  <2> QED
    BY <1>1, <1>2, <2>1 DEF EndOfInterrupt, EndMaster
<1>3. CASE i >= 8
  <2>1. isr = {i, 2}
    BY <1>1, <1>3 DEF Line
  <2>2. EndSlave(isr) = {2}
    BY <1>1, <1>3, <2>1 DEF EndSlave
  <2> QED
    BY <1>1, <1>3, <2>2 DEF EndOfInterrupt, EndMaster
<1> QED
  BY <1>1, <1>2, <1>3

LEMMA IrqHandlerInv ==
    ASSUME Inv, irq_handler
    PROVE  Inv'
<1>1. /\ ip = "irq" /\ isr' = EndOfInterrupt(Top(esp).irq)
      /\ regs' = Regs(esp, "handler")
      /\ ip' = IF Top(esp).irq = 0 THEN "timer_callback" ELSE "iret"
      /\ UNCHANGED <<next, head, current, context, stack, esp, eflags, irr, kept>>
  BY DEF irq_handler, ring
<1>2. Entered /\ esp \in Tasks
  BY <1>1 DEF Inv, OnCpu, Booting, Running, Resumable, Handling, Leaving, Resuming, Types
<1>3. PICK p \in Resumable(esp), i \in Irqs :
        stack[esp] = Interrupted(esp, p, i) /\ isr = {i, Line(i)}
  BY <1>2 DEF Entered
<1>4. Top(esp) = IntrFrame(esp, p, i)
  BY <1>2, <1>3, TopIntr DEF Inv
<1>5. isr' = {}
  BY <1>1, <1>3, <1>4, EndOfInterruptEnds DEF IntrFrame
<1>6. Types'
  BY <1>1, <1>5 DEF Inv, Types
<1>7. Handling'
  <2>1. stack'[esp] = Interrupted(esp, p, i)'
    BY <1>1, <1>3 DEF Interrupted, IntrFrame
  <2> QED
    BY <1>1, <1>2, <1>3, <2>1 DEF Handling, Entered
<1>8. OthersWait' /\ NotYetCreated'
  BY <1>1, OthersKept
<1>9. CurrentRuns' /\ NothingInService'
  BY <1>1, <1>5 DEF Inv, CurrentRuns, NothingInService
<1> QED
  BY <1>6, <1>7, <1>8, <1>9 DEF Inv, OnCpu

\* schedule() pushes the call of switch_to, or there is nobody to switch to.
LEMMA ScheduleInv ==
    ASSUME Inv, schedule
    PROVE  Inv'
<1>1. /\ ip = "timer_callback"
      /\ UNCHANGED <<next, head, context, esp, regs, eflags, irr, isr, kept>>
  BY DEF schedule, ring, pic
<1>2. Handling /\ esp \in Tasks /\ esp = current /\ isr = {}
  BY <1>1 DEF Inv, OnCpu, Booting, Running, Resumable, Entered, Leaving, Resuming, Types,
              CurrentRuns, NothingInService
<1>3. PICK p \in Resumable(esp), i \in Irqs : stack[esp] = Interrupted(esp, p, i)
  BY <1>2 DEF Handling
<1>4. CASE next[current] = current
  <2>1. ip' = "iret" /\ UNCHANGED <<current, stack>>
    BY <1>4 DEF schedule
  <2>2. stack'[esp] = Interrupted(esp, p, i)'
    BY <1>1, <1>3, <2>1 DEF Interrupted, IntrFrame
  <2>3. Handling'
    BY <1>1, <1>2, <1>3, <2>1, <2>2 DEF Handling
  <2>4. Types'
    BY <1>1, <2>1 DEF Inv, Types
  <2>5. OthersWait' /\ NotYetCreated'
    BY <1>1, <2>1, OthersKept
  <2>6. CurrentRuns' /\ NothingInService'
    BY <1>1, <1>2, <2>1 DEF CurrentRuns, NothingInService
  <2> QED
    BY <2>3, <2>4, <2>5, <2>6 DEF Inv, OnCpu
<1>5. CASE next[current] # current
  <2>1. /\ ip' = "switch_to" /\ current' = next[current]
        /\ stack' = [stack EXCEPT ![esp] = Append(@, CallFrame(esp, next[current]))]
    BY <1>2, <1>5 DEF schedule, Push, CallFrame
  <2>2. current' \in DOMAIN next /\ current' \in Tasks /\ current' # esp
    BY <1>2, <1>5, <2>1 DEF Inv, Types
  <2>3. Append(stack[esp], CallFrame(esp, current')) \in Seq(Frame)
    BY <1>2, <1>3, <2>2, IntrIsFrame, CallIsFrame, PushPop DEF Inv
  <2>4. Types'
    BY <1>1, <1>2, <2>1, <2>2, <2>3 DEF Inv, Types
  <2>5. /\ stack'[esp] = Append(Interrupted(esp, p, i), CallFrame(esp, current'))
        /\ \A u \in Tasks : u # esp => stack'[u] = stack[u]
    BY <1>2, <1>3, <2>1 DEF Inv, Types
  <2>6. stack'[esp] = Append(Interrupted(esp, p, i)', CallFrame(esp, current'))
    BY <1>1, <2>5 DEF Interrupted, IntrFrame
  <2>7. Leaving'
    BY <1>1, <1>2, <1>3, <2>1, <2>6 DEF Leaving, Handling, CallFrame
  <2>8. OthersWait' /\ NotYetCreated'
    BY <1>1, <2>5, OthersKept
  <2>9. CurrentRuns' /\ NothingInService'
    BY <1>1, <1>2, <2>1, <2>2 DEF CurrentRuns, NothingInService
  <2> QED
    BY <2>4, <2>7, <2>8, <2>9 DEF Inv, OnCpu
<1> QED
  BY <1>4, <1>5

\* switch_to: the old task becomes a suspended one, the new one runs on.
LEMMA SwitchToInv ==
    ASSUME Inv, switch_to
    PROVE  Inv'
<1>1. /\ ip = "switch_to" /\ ip' = "ret"
      /\ UNCHANGED <<next, head, current, stack, irr, isr, kept>>
  BY DEF switch_to, ring, pic
<1>2. Leaving /\ esp \in Tasks /\ esp # current /\ isr = {}
  BY <1>1 DEF Inv, OnCpu, Booting, Running, Resumable, Entered, Handling, Resuming, Types,
              CurrentRuns, NothingInService
<1>3. current \in DOMAIN next /\ current \in Tasks
  BY DEF Inv, Types
<1>4. PICK p \in Resumable(esp), i \in Irqs :
        stack[esp] = Append(Interrupted(esp, p, i), CallFrame(esp, current))
  BY <1>2 DEF Leaving
<1>5. Top(esp).prev = esp /\ Top(esp).next = current
  BY <1>2, <1>3, <1>4, TopCall DEF Inv, CallFrame
<1>6. context' = [context EXCEPT ![esp] = [esp |-> esp, regs |-> Regs(esp, "handler"), eflags |-> FALSE]]
  BY <1>2, <1>5 DEF switch_to, Saved, Leaving
<1>7. /\ context'[esp] = [esp |-> esp, regs |-> Regs(esp, "handler"), eflags |-> FALSE]
      /\ \A u \in Tasks : u # esp => context'[u] = context[u]
  BY <1>2, <1>6 DEF Inv, Types
<1>8. /\ esp' = context[current].esp /\ regs' = context[current].regs
      /\ eflags' = context[current].eflags
  BY <1>2, <1>3, <1>5, <1>7 DEF switch_to
<1>9. Waiting(current)
  BY <1>2, <1>3 DEF Inv, OthersWait
<1>10. esp' = current
  BY <1>8, <1>9 DEF Waiting, New, Suspended, FirstContext
<1>11. OnCpu'
  <2>1. CASE New(current)
    <3>1. Running'
      BY <1>1, <1>8, <1>10, <2>1 DEF New, FirstContext, Running, Resumable, Base
    <3> QED
      BY <3>1 DEF OnCpu
  <2>2. CASE Suspended(current)
    <3>1. Switched(current)'
      BY <1>1, <2>2 DEF Suspended, Switched, Interrupted, IntrFrame
    <3>2. Resuming'
      BY <1>1, <1>8, <1>10, <2>2, <3>1 DEF Suspended, Resuming
    <3> QED
      BY <3>2 DEF OnCpu
  <2> QED
    BY <1>9, <2>1, <2>2 DEF Waiting
<1>12. OthersWait'
  <2> SUFFICES ASSUME NEW u \in DOMAIN next, u # current PROVE Waiting(u)'
    BY <1>1, <1>10 DEF OthersWait
  <2>1. CASE u = esp
    <3>1. Switched(esp)
      BY <1>2, <1>3, <1>4 DEF Switched
    <3>2. Switched(u)'
      BY <1>1, <2>1, <3>1 DEF Switched, Interrupted, IntrFrame
    <3> QED
      BY <1>7, <2>1, <3>2 DEF Waiting, Suspended
  <2>2. CASE u # esp
    <3>1. u \in Tasks /\ Waiting(u)
      BY <2>2 DEF Inv, OthersWait, Types
    <3> QED
      BY <1>1, <1>7, <2>2, <3>1, WaitingKept
  <2> QED
    BY <2>1, <2>2
<1>13. NotYetCreated'
  BY <1>1, AbsentKept DEF Inv, NotYetCreated
<1>14. Types'
  <2>1. Regs(esp, "handler") \in RegsType
    BY <1>2, RegsInType
  <2>2. context' \in [Tasks -> [esp : Tasks, regs : RegsType, eflags : BOOLEAN]]
    BY <1>2, <1>6, <2>1 DEF Inv, Types
  <2> QED
    BY <1>1, <1>3, <1>10, <2>2 DEF Inv, Types
<1>15. CurrentRuns' /\ NothingInService'
  BY <1>1, <1>2, <1>10 DEF CurrentRuns, NothingInService
<1> QED
  BY <1>11, <1>12, <1>13, <1>14, <1>15 DEF Inv

LEMMA SwitchRetInv ==
    ASSUME Inv, SwitchRet
    PROVE  Inv'
<1>1. /\ ip = "ret" /\ ip' = IF Top(esp).kind = "fn" THEN "thread" ELSE "iret"
      /\ stack' = [stack EXCEPT ![esp] = SubSeq(@, 1, Len(@) - 1)]
      /\ UNCHANGED <<next, head, current, context, esp, regs, eflags, irr, isr, kept>>
  BY DEF SwitchRet, Pop, ring, pic
<1>2. (Running \/ Resuming) /\ esp \in Tasks /\ esp = current /\ isr = {}
  BY <1>1 DEF Inv, OnCpu, Booting, Entered, Handling, Leaving, Types,
              CurrentRuns, NothingInService
<1>3. \A u \in Tasks : u # esp => stack'[u] = stack[u]
  BY <1>1 DEF Inv, Types
<1>4. stack'[esp] = SubSeq(stack[esp], 1, Len(stack[esp]) - 1)
  BY <1>1, <1>2 DEF Inv, Types
<1>5. OnCpu' /\ stack'[esp] \in Seq(Frame)
  <2>1. CASE Running
    <3>1. stack[esp] = << ExitFrame, FnFrame >> /\ esp # Main
      BY <1>1, <2>1 DEF Running, Base, Resumable
    <3>2. Top(esp) = FnFrame /\ stack'[esp] = << ExitFrame >>
      <4>1. << ExitFrame >> \in Seq(Frame) /\ FnFrame \in Frame
        BY DEF Frame
      <4> DEFINE a == Append(<< ExitFrame >>, FnFrame)
      <4>2. stack[esp] = a
        BY <3>1
      <4>3. a[Len(a)] = FnFrame /\ SubSeq(a, 1, Len(a) - 1) = << ExitFrame >>
        BY <4>1, PushPop
      <4> HIDE DEF a
      <4> QED
        BY <1>4, <4>2, <4>3 DEF Top
    <3>3. ip' = "thread"
      BY <1>1, <3>2 DEF FnFrame
    <3>4. Running'
      BY <1>1, <2>1, <3>1, <3>2, <3>3 DEF Running, Resumable, Base
    <3> QED
      BY <3>2, <3>4 DEF OnCpu, Frame
  <2>2. CASE Resuming
    <3>1. PICK p \in Resumable(esp), i \in Irqs, u, v \in Tasks :
            stack[esp] = Append(Interrupted(esp, p, i), CallFrame(u, v))
      BY <2>2 DEF Resuming, Switched
    <3>2. Top(esp) = CallFrame(u, v) /\ stack'[esp] = Interrupted(esp, p, i)
      BY <1>2, <1>4, <3>1, TopCall DEF Inv
    <3>3. ip' = "iret"
      BY <1>1, <3>2 DEF CallFrame
    <3>4. stack'[esp] = Interrupted(esp, p, i)'
      BY <1>1, <3>2 DEF Interrupted, IntrFrame
    <3>5. Handling'
      BY <1>1, <2>2, <3>1, <3>3, <3>4 DEF Resuming, Handling
    <3> QED
      BY <1>2, <3>1, <3>2, <3>5, IntrIsFrame DEF OnCpu, Inv
  <2> QED
    BY <1>2, <2>1, <2>2
<1>6. Types'
  <2>1. stack' \in [Tasks -> Seq(Frame)]
    BY <1>1, <1>2, <1>4, <1>5 DEF Inv, Types
  <2> QED
    BY <1>1, <2>1 DEF Inv, Types
<1>7. OthersWait' /\ NotYetCreated'
  BY <1>1, <1>3, OthersKept
<1>8. CurrentRuns' /\ NothingInService'
  BY <1>1, <1>2 DEF CurrentRuns, NothingInService
<1> QED
  BY <1>5, <1>6, <1>7, <1>8 DEF Inv

LEMMA IretInv ==
    ASSUME Inv, Iret
    PROVE  Inv'
<1>1. /\ ip = "iret" /\ regs' = Top(esp).regs /\ eflags' = Top(esp).eflags /\ ip' = Top(esp).ip
      /\ stack' = [stack EXCEPT ![esp] = SubSeq(@, 1, Len(@) - 1)]
      /\ UNCHANGED <<next, head, current, context, esp, irr, isr, kept>>
  BY DEF Iret, Pop, ring, pic
<1>2. Handling /\ esp \in Tasks /\ esp = current /\ isr = {}
  BY <1>1 DEF Inv, OnCpu, Booting, Running, Resumable, Entered, Leaving, Resuming, Types,
              CurrentRuns, NothingInService
<1>3. PICK p \in Resumable(esp), i \in Irqs : stack[esp] = Interrupted(esp, p, i)
  BY <1>2 DEF Handling
<1>4. /\ Top(esp) = IntrFrame(esp, p, i)
      /\ SubSeq(stack[esp], 1, Len(stack[esp]) - 1) = Base(esp, p)
  BY <1>2, <1>3, TopIntr DEF Inv
<1>5. stack'[esp] = Base(esp, p) /\ \A u \in Tasks : u # esp => stack'[u] = stack[u]
  BY <1>1, <1>2, <1>4 DEF Inv, Types
<1>6. ip' = p /\ eflags' = TRUE /\ regs' = kept[esp]
  BY <1>1, <1>4 DEF IntrFrame
<1>7. Running'
  <2>1. ip' \in Resumable(esp) /\ stack'[esp] = Base(esp, ip')
    BY <1>3, <1>5, <1>6
  <2> QED
    BY <1>1, <1>6, <2>1 DEF Running, Resumable, Base
<1>8. Types'
  <2>1. stack' \in [Tasks -> Seq(Frame)]
    BY <1>1, <1>2, <1>4, BaseIsSeq DEF Inv, Types
  <2> QED
    BY <1>1, <2>1 DEF Inv, Types
<1>9. OthersWait' /\ NotYetCreated'
  BY <1>1, <1>5, OthersKept
<1>10. CurrentRuns' /\ NothingInService'
  <2>1. ip' # "switch_to" /\ ip' # "irq"
    BY <1>3, <1>6 DEF Resumable
  <2> QED
    BY <1>1, <1>2, <2>1 DEF CurrentRuns, NothingInService
<1> QED
  BY <1>7, <1>8, <1>9, <1>10 DEF Inv, OnCpu

LEMMA NextInv == Inv /\ [Next]_vars => Inv'
<1> SUFFICES ASSUME Inv, [Next]_vars PROVE Inv'
  OBVIOUS
<1>1. CASE \E t \in Threads : kernel_thread(t)
  BY <1>1, KernelThreadInv
<1>2. CASE EnableIntr
  BY <1>2, EnableIntrInv
<1>3. CASE Work
  BY <1>3, WorkInv
<1>4. CASE ThreadReturn
  BY <1>4, ThreadReturnInv
<1>5. CASE \E i \in Irqs : Raise(i)
  BY <1>5, RaiseInv
<1>6. CASE TakeIrq
  BY <1>6, TakeIrqInv
<1>7. CASE Kernel
  BY <1>7, IrqHandlerInv, ScheduleInv, SwitchToInv, SwitchRetInv, IretInv DEF Kernel
<1>8. CASE UNCHANGED vars
  <2>1. UNCHANGED <<next, head, current, context, stack, esp, regs, eflags, ip, irr, isr, kept>>
    BY <1>8 DEF vars, ring, cpu, pic
  <2>2. Types'
    BY <2>1 DEF Inv, Types
  <2>3. OnCpu'
    BY <2>1, CpuKept DEF Inv, cpu
  <2>4. OthersWait' /\ NotYetCreated'
    BY <2>1, OthersKept
  <2>5. CurrentRuns' /\ NothingInService'
    BY <2>1 DEF Inv, CurrentRuns, NothingInService
  <2> QED
    BY <2>2, <2>3, <2>4, <2>5 DEF Inv
<1> QED
  BY <1>1, <1>2, <1>3, <1>4, <1>5, <1>6, <1>7, <1>8 DEF Next

LEMMA Invariance == Spec => []Inv
<1>1. Init => Inv
  BY InitInv
<1>2. Inv /\ [Next]_vars => Inv'
  BY NextInv
<1> QED
  BY <1>1, <1>2, PTL DEF Spec

-----------------------------------------------------------------------------
(* Kinds of frames. *)

Kind == {"intr", "call", "fn", "exit"}
KindsOf(s) == [j \in 1..Len(s) |-> s[j].kind]

LEMMA FrameKind ==
    ASSUME NEW f \in Frame
    PROVE  f.kind \in Kind
BY DEF Frame, ExitFrame, FnFrame, Kind

LEMMA KindsOfSeq ==
    ASSUME NEW s \in Seq(Frame)
    PROVE  KindsOf(s) \in Seq(Kind)
BY FrameKind DEF KindsOf

LEMMA KindsOfAppend ==
    ASSUME NEW s \in Seq(Frame), NEW f \in Frame
    PROVE  KindsOf(Append(s, f)) = Append(KindsOf(s), f.kind)
<1> DEFINE a == Append(s, f)
           k == KindsOf(a)
           b == Append(KindsOf(s), f.kind)
<1>1. a \in Seq(Frame) /\ Len(a) = Len(s) + 1 /\ a[Len(s) + 1] = f
      /\ Len(s) \in Nat /\ \A i \in 1..Len(s) : a[i] = s[i]
  BY AppendProperties, LenProperties
<1>2. KindsOf(s) \in Seq(Kind) /\ Len(KindsOf(s)) = Len(s)
  BY <1>1, KindsOfSeq DEF KindsOf
<1>3. b \in Seq(Kind) /\ Len(b) = Len(s) + 1 /\ b[Len(s) + 1] = f.kind
      /\ \A i \in 1..Len(s) : b[i] = s[i].kind
  BY <1>1, <1>2, FrameKind, AppendProperties DEF KindsOf
<1> HIDE DEF a, b
<1>4. k \in Seq(Kind) /\ Len(k) = Len(s) + 1 /\ \A i \in 1..Len(a) : k[i] = a[i].kind
  BY <1>1, KindsOfSeq DEF KindsOf
<1>5. \A i \in 1..Len(k) : k[i] = b[i]
  BY <1>1, <1>3, <1>4
<1> HIDE DEF k
<1>6. k = b
  BY <1>3, <1>4, <1>5, SeqEqual
<1> QED
  BY <1>6 DEF a, b, k

LEMMA KindsOfBase ==
    ASSUME NEW t, NEW p
    PROVE  KindsOf(Base(t, p)) \in {<< >>, <<"exit">>, <<"exit", "fn">>}
BY DEF KindsOf, Base, ExitFrame, FnFrame

\* One and two things put at the end of a sequence.
LEMMA AppendTwice ==
    ASSUME NEW S, NEW b \in Seq(S), NEW x \in S, NEW y \in S
    PROVE  /\ b = b \o << >>
           /\ Append(b, x) = b \o << x >>
           /\ Append(Append(b, x), y) = b \o << x, y >>
<1>1. b = b \o << >>
  BY ConcatEmptySeq
<1>2. Append(b, x) = b \o << x >> /\ Append(b, x) \in Seq(S)
  BY AppendIsConcat, AppendProperties
<1>3. Append(Append(b, x), y) = Append(b, x) \o << y >>
  BY <1>2, AppendIsConcat
<1>4. (b \o << x >>) \o << y >> = b \o (<< x >> \o << y >>)
  BY ConcatAssociative
<1>5. << x >> \o << y >> = << x, y >>
  <2>1. << x >> \in Seq(S)
    OBVIOUS
  <2>2. Append(<< x >>, y) = << x >> \o << y >>
    BY <2>1, AppendIsConcat
  <2> DEFINE a == Append(<< x >>, y)
             p == << x, y >>
  <2>3. a \in Seq(S) /\ Len(a) = 2 /\ a[1] = x /\ a[2] = y
    BY <2>1, AppendProperties
  <2>4. p \in Seq(S) /\ Len(p) = 2 /\ p[1] = x /\ p[2] = y
    OBVIOUS
  <2> HIDE DEF a, p
  <2>5. \A i \in 1..Len(a) : a[i] = p[i]
    BY <2>3, <2>4
  <2>6. a = p
    BY <2>3, <2>4, <2>5, SeqEqual
  <2> QED
    BY <2>2, <2>6 DEF a, p
<1> QED
  BY <1>1, <1>2, <1>3, <1>4, <1>5

\* What the shapes of the invariant say of the kinds of frames.
LEMMA ShapeOf ==
    ASSUME Types, NEW t \in Tasks,
           \/ \E p : stack[t] = Base(t, p)
           \/ \E p \in Resumable(t), i \in Irqs : stack[t] = Interrupted(t, p, i)
           \/ Switched(t)
    PROVE  \E base \in {<< >>, <<"exit">>, <<"exit", "fn">>} :
           \E top \in {<< >>, <<"intr">>, <<"intr", "call">>} : Kinds(t) = base \o top
<1>1. Kinds(t) = KindsOf(stack[t])
  BY DEF Kinds, KindsOf
<1>2. \A p : KindsOf(Base(t, p)) \in Seq(Kind)
  BY BaseIsSeq, KindsOfSeq
<1>3. CASE \E p : stack[t] = Base(t, p)
  <2>1. PICK p : stack[t] = Base(t, p)
    BY <1>3
  <2>2. KindsOf(Base(t, p)) = KindsOf(Base(t, p)) \o << >>
    BY <1>2, ConcatEmptySeq
  <2> QED
    BY <1>1, <2>1, <2>2, KindsOfBase
<1>4. \A p \in Resumable(t), i \in Irqs :
        KindsOf(Interrupted(t, p, i)) = Append(KindsOf(Base(t, p)), "intr")
  <2> SUFFICES ASSUME NEW p \in Resumable(t), NEW i \in Irqs
               PROVE  KindsOf(Interrupted(t, p, i)) = Append(KindsOf(Base(t, p)), "intr")
    OBVIOUS
  <2>1. IntrFrame(t, p, i) \in Frame /\ IntrFrame(t, p, i).kind = "intr"
    BY IntrIsFrame DEF IntrFrame
  <2> QED
    BY <2>1, BaseIsSeq, KindsOfAppend DEF Interrupted
<1>5. CASE \E p \in Resumable(t), i \in Irqs : stack[t] = Interrupted(t, p, i)
  <2>1. PICK p \in Resumable(t), i \in Irqs : stack[t] = Interrupted(t, p, i)
    BY <1>5
  <2>2. Kinds(t) = KindsOf(Base(t, p)) \o << "intr" >>
    BY <1>1, <1>2, <1>4, <2>1, AppendTwice DEF Kind
  <2> QED
    BY <2>2, KindsOfBase
<1>6. CASE Switched(t)
  <2>1. PICK p \in Resumable(t), i \in Irqs, u, v \in Tasks :
          stack[t] = Append(Interrupted(t, p, i), CallFrame(u, v))
    BY <1>6 DEF Switched
  <2>2. CallFrame(u, v) \in Frame /\ CallFrame(u, v).kind = "call"
    BY CallIsFrame DEF CallFrame
  <2>3. Kinds(t) = Append(Append(KindsOf(Base(t, p)), "intr"), "call")
    BY <1>1, <1>4, <2>1, <2>2, IntrIsFrame, KindsOfAppend
  <2>4. Kinds(t) = KindsOf(Base(t, p)) \o << "intr", "call" >>
    BY <1>2, <2>3, AppendTwice DEF Kind
  <2> QED
    BY <2>4, KindsOfBase
<1> QED
  BY <1>3, <1>5, <1>6

-----------------------------------------------------------------------------
(* The theorems. *)

LEMMA InvShape == Inv => StackShape
<1> SUFFICES ASSUME Inv, NEW t \in Tasks
             PROVE  \/ \E p : stack[t] = Base(t, p)
                    \/ \E p \in Resumable(t), i \in Irqs : stack[t] = Interrupted(t, p, i)
                    \/ Switched(t)
  BY ShapeOf DEF Inv, StackShape
<1>1. CASE t \notin DOMAIN next
  <2>1. stack[t] = Base(t, "kthread_exit")
    BY <1>1 DEF Inv, NotYetCreated, Absent, Base
  <2> QED
    BY <2>1
<1>2. CASE t \in DOMAIN next /\ t # esp
  <2>1. Waiting(t)
    BY <1>2 DEF Inv, OthersWait
  <2>2. CASE New(t)
    <3>1. stack[t] = Base(t, "ret")
      BY <2>2 DEF New, Base
    <3> QED
      BY <3>1
  <2> QED
    BY <2>1, <2>2 DEF Waiting, Suspended
<1>3. CASE t = esp
  <2>1. CASE Booting
    <3>1. stack[t] = Base(t, "kthread_exit")
      BY <1>3, <2>1 DEF Booting, Base
    <3> QED
      BY <3>1
  <2>2. CASE Running
    BY <1>3, <2>2 DEF Running
  <2>3. CASE Entered \/ Handling
    BY <1>3, <2>3 DEF Entered, Handling
  <2>4. CASE Leaving
    <3>1. current \in Tasks
      BY DEF Inv, Types
    <3> QED
      BY <1>3, <2>4, <3>1 DEF Leaving, Switched
  <2>5. CASE Resuming
    BY <1>3, <2>5 DEF Resuming
  <2> QED
    BY <2>1, <2>2, <2>3, <2>4, <2>5 DEF Inv, OnCpu
<1> QED
  BY <1>1, <1>2, <1>3

LEMMA InvTypeOK == Inv => TypeOK
<1> SUFFICES ASSUME Inv PROVE TypeOK
  OBVIOUS
<1>1. esp \in Tasks /\ Regs(esp, "handler") \in RegsType /\ kept[esp] \in RegsType
  BY RegsInType DEF Inv, Types
<1>2. /\ regs \in RegsType /\ eflags \in BOOLEAN
      /\ ip \in {"kern_init", "thread", "kthread_exit", "irq", "timer_callback",
                 "switch_to", "ret", "iret"}
  BY <1>1 DEF Inv, OnCpu, Booting, Running, Resumable, Entered, Handling, Leaving, Resuming
<1>3. \A t \in Tasks : \A i \in 1..Len(stack[t]) :
          stack[t][i].kind \in {"intr", "call", "fn", "exit"}
  <2> SUFFICES ASSUME NEW t \in Tasks, NEW i \in 1..Len(stack[t])
               PROVE  stack[t][i].kind \in {"intr", "call", "fn", "exit"}
    OBVIOUS
  <2>1. stack[t][i] \in Frame
    BY ElementOfSeq DEF Inv, Types
  <2> QED
    BY <2>1, FrameKind DEF Kind
<1>4. /\ DOMAIN next \subseteq Tasks /\ \A t \in DOMAIN next : next[t] \in DOMAIN next
      /\ {head, current} \subseteq DOMAIN next
      /\ context \in [Tasks -> [esp : Tasks, regs : RegsType, eflags : BOOLEAN]]
      /\ DOMAIN stack = Tasks /\ irr \subseteq Irqs /\ isr \subseteq 0..15
      /\ kept \in [Tasks -> RegsType]
  BY DEF Inv, Types
<1> QED
  BY <1>1, <1>2, <1>3, <1>4 DEF TypeOK

LEMMA InvInterruptFlag == Inv => InterruptFlag
BY DEF Inv, OnCpu, Booting, Running, Resumable, Entered, Handling, Leaving, Resuming,
       InterruptFlag, InThread, InKernel

LEMMA InvReturnsMatch == Inv => ReturnsMatch
<1> SUFFICES ASSUME Inv PROVE ReturnsMatch
  OBVIOUS
<1>1. CASE Booting
  BY <1>1 DEF Booting, ReturnsMatch
<1>2. CASE Running
  <2>1. ip \in {"thread", "kthread_exit", "ret"}
    BY <1>2 DEF Running, Resumable
  <2>2. ip = "ret" => Top(esp) = FnFrame
    BY <1>2 DEF Running, Base, Top
  <2>3. ip = "thread" => (esp = Main <=> stack[esp] = << >>)
    BY <1>2 DEF Running, Base
  <2> QED
    BY <2>1, <2>2, <2>3 DEF ReturnsMatch, FnFrame
<1>3. CASE Entered \/ Handling
  <2>1. PICK p \in Resumable(esp), i \in Irqs : stack[esp] = Interrupted(esp, p, i)
    BY <1>3 DEF Entered, Handling
  <2>2. Top(esp) = IntrFrame(esp, p, i)
    BY <2>1, TopIntr DEF Inv, Types
  <2> QED
    BY <1>3, <2>2 DEF Entered, Handling, ReturnsMatch, IntrFrame
<1>4. CASE Leaving
  BY <1>4 DEF Leaving, ReturnsMatch
<1>5. CASE Resuming
  <2>1. PICK p \in Resumable(esp), i \in Irqs, u, v \in Tasks :
          stack[esp] = Append(Interrupted(esp, p, i), CallFrame(u, v))
    BY <1>5 DEF Resuming, Switched
  <2>2. Top(esp) = CallFrame(u, v)
    BY <2>1, TopCall DEF Inv, Types
  <2> QED
    BY <1>5, <2>2 DEF Resuming, ReturnsMatch, CallFrame
<1> QED
  BY <1>1, <1>2, <1>3, <1>4, <1>5 DEF Inv, OnCpu

LEMMA InvRegisters == Inv => RegistersPreserved
BY DEF Inv, OnCpu, Booting, Running, Resumable, Entered, Handling, Leaving, Resuming,
       RegistersPreserved

\* A thread never notices that it was preempted (switch_to.s, idt_s.s).
THEOREM ThreadsKeepRegisters == Spec => []RegistersPreserved
BY Invariance, InvRegisters, PTL

\* Types, current, the stack in use and IF fit together, and every return finds
\* the frame it expects (sched.c, switch_to.s, idt_s.s).
THEOREM SwitchAlwaysConsistent == Spec => []SwitchConsistent
<1>1. Inv => SwitchConsistent
  BY InvTypeOK, InvInterruptFlag, InvReturnsMatch DEF Inv, SwitchConsistent
<1> QED
  BY <1>1, Invariance, PTL

\* A stack holds one interrupt frame and one call of switch_to at most.
THEOREM StacksStayShallow == Spec => []StackShape
BY Invariance, InvShape, PTL

\* Outside the stubs no interrupt is in service (idt.c: end of interrupt first).
THEOREM InterruptsAreEnded == Spec => []NothingInService
<1>1. Inv => NothingInService
  BY DEF Inv
<1> QED
  BY <1>1, Invariance, PTL

-----------------------------------------------------------------------------
(* The two threads the kernel runs. *)

\* The threads' own code does what Sched lets any thread do.
LEMMA ProgramIsWork ==
    ASSUME ProgramAssumption, Inv, Program
    PROVE  Work /\ esp \in Tasks /\ regs = kept[esp]
<1>1. PICK from \in {{"zero", "test"}, {"fill"}, {"write"}, {"set"}},
           to \in {"test", "fill", "write", "set"} : Goes(from, to)
  BY DEF Program, TestFlag, FillBuf, WriteConsole, SetFlag
<1>2. to \in Values
  BY DEF ProgramAssumption
<1>3. Work
  BY <1>1, <1>2 DEF Work, Goes
<1>4. ip = "thread"
  BY <1>1 DEF Goes
<1> QED
  BY <1>3, <1>4, ThreadRuns DEF Running

LEMMA ProgramNextIsNext ==
    ASSUME ProgramAssumption, Inv, [ProgramNext]_allVars
    PROVE  [Next]_vars
<1>1. CASE Program
  BY <1>1, ProgramIsWork DEF Next
<1>2. CASE System
  BY <1>2 DEF System, Next
<1>3. CASE UNCHANGED allVars
  BY <1>3 DEF allVars
<1> QED
  BY <1>1, <1>2, <1>3 DEF ProgramNext

\* The letter written last.
Shown == output[Len(output)]

\* The flag names the thread that may print, and the console what it has
\* printed: its own letter is there once it has written it.
Lock ==
    /\ flag \in {0, 1} /\ buf \in {"", "A", "B"}
    /\ output \in Seq({"A", "B"}) /\ Len(output) <= 2
    /\ \A t \in Tasks : Printing(t) => flag = Turn(t)
    /\ BufferIsMine
    /\ Alternates
    /\ \A t \in Tasks : kept[t].val = "set" => output # << >> /\ Shown = Letter(t)
    /\ \A t \in Tasks : flag = Turn(t) /\ kept[t].val # "set" =>
                          output = << >> \/ Shown # Letter(t)

\* There are two tasks: each has its number and its letter.
LEMMA TwoTasks ==
    ASSUME ProgramAssumption, NEW t \in Tasks, NEW u \in Tasks
    PROVE  /\ Turn(t) = Turn(u) => t = u
           /\ Letter(t) = Letter(u) => t = u
           /\ Turn(t) \in {0, 1} /\ Letter(t) \in {"A", "B"}
BY SchedAssumption DEF SchedAssumption, ProgramAssumption, Tasks, Turn, Letter

LEMMA LockInit == ProgramInit => Lock
<1> SUFFICES ASSUME ProgramInit PROVE Lock
  OBVIOUS
<1>1. \A t \in Tasks : kept[t].val = "zero"
  BY DEF ProgramInit, Init, Regs
<1>2. output = << >> /\ output \in Seq({"A", "B"}) /\ Len(output) = 0
  BY EmptySeq DEF ProgramInit
<1>3. flag = 0 /\ buf = ""
  BY DEF ProgramInit
<1>4. BufferIsMine /\ \A t \in Tasks : ~Printing(t)
  BY <1>1 DEF BufferIsMine, Printing
<1>5. Alternates
  BY <1>2 DEF Alternates
<1>6. \A t \in Tasks : kept[t].val # "set"
  BY <1>1
<1>7. flag \in {0, 1} /\ buf \in {"", "A", "B"}
  BY <1>3
<1>8. Len(output) <= 2
  <2>1. Len(output) = 0
    BY <1>2
  <2> QED
    BY <2>1
<1> QED
  BY <1>2, <1>4, <1>5, <1>6, <1>7, <1>8 DEF Lock

\* The kernel touches nothing of this.
LEMMA SystemKeepsLock ==
    ASSUME Lock, UNCHANGED <<kept, programVars>>
    PROVE  Lock'
BY DEF Lock, programVars, Printing, BufferIsMine, Alternates, Shown

LEMMA SystemKeepsKept == System \/ UNCHANGED allVars => UNCHANGED <<kept, programVars>>
BY DEF System, allVars, vars, kernel_thread, EnableIntr, Raise, TakeIrq, Kernel, irq_handler,
       schedule, switch_to, SwitchRet, Iret

\* One step of a thread's own code.
LEMMA Stepped ==
    ASSUME Inv, NEW from, NEW to, Goes(from, to), esp \in Tasks, regs = kept[esp]
    PROVE  /\ kept[esp].val \in from /\ kept'[esp].val = to
           /\ \A t \in Tasks : t # esp => kept'[t] = kept[t]
<1>1. kept \in [Tasks -> RegsType]
  BY DEF Inv, Types
<1> QED
  BY <1>1 DEF Goes, Regs

LEMMA AppendOne ==
    ASSUME NEW S, NEW a \in S, NEW b \in S
    PROVE  Append(<< a >>, b) = << a, b >>
<1> DEFINE s == << a >>
           u == << a, b >>
<1>1. s \in Seq(S) /\ u \in Seq(S) /\ Len(s) = 1 /\ Len(u) = 2 /\ s[1] = a /\ u[1] = a /\ u[2] = b
  OBVIOUS
<1> HIDE DEF s, u
<1>2. /\ Append(s, b) \in Seq(S) /\ Len(Append(s, b)) = 2
      /\ Append(s, b)[1] = a /\ Append(s, b)[2] = b
  <2>1. /\ Append(s, b) \in Seq(S) /\ Len(Append(s, b)) = Len(s) + 1
        /\ \A i \in 1..Len(s) : Append(s, b)[i] = s[i]
        /\ Append(s, b)[Len(s) + 1] = b
    <3>1. s \in Seq(S)
      BY <1>1
    <3> QED
      BY <3>1, AppendProperties
  <2>2. Len(s) + 1 = 2 /\ 1 \in 1..Len(s)
    BY <1>1
  <2> QED
    BY <1>1, <2>1, <2>2
<1>3. \A i \in 1..2 : Append(s, b)[i] = u[i]
  <2>1. \A i \in 1..2 : i \in {1, 2}
    OBVIOUS
  <2> QED
    BY <1>1, <1>2, <2>1
<1>4. Append(s, b) = u
  BY <1>1, <1>2, <1>3, SeqEqual
<1> QED
  BY <1>4 DEF s, u

LEMMA ProgramKeepsLock ==
    ASSUME ProgramAssumption, Inv, Lock, Program
    PROVE  Lock'
<1>1. esp \in Tasks /\ regs = kept[esp]
  BY ProgramIsWork
<1> USE <1>1
<1>2. CASE TestFlag
  <2> DEFINE to == IF flag = Turn(esp) THEN "fill" ELSE "test"
  <2>1. Goes({"zero", "test"}, to) /\ UNCHANGED programVars
    BY <1>2 DEF TestFlag
  <2>2. /\ kept[esp].val \in {"zero", "test"} /\ kept'[esp].val = to
        /\ \A t \in Tasks : t # esp => kept'[t] = kept[t]
    BY <2>1, Stepped
  <2> QED
    BY <2>1, <2>2 DEF Lock, programVars, Printing, BufferIsMine, Alternates, Shown
<1>3. CASE FillBuf
  <2>1. Goes({"fill"}, "write") /\ buf' = Letter(esp) /\ UNCHANGED <<flag, output>>
    BY <1>3 DEF FillBuf
  <2>2. /\ kept[esp].val = "fill" /\ kept'[esp].val = "write"
        /\ \A t \in Tasks : t # esp => kept'[t] = kept[t]
    BY <2>1, Stepped
  <2>3. flag = Turn(esp) /\ \A t \in Tasks : t # esp => ~Printing(t)
    BY <2>2, TwoTasks DEF Lock, Printing
  <2>4. BufferIsMine'
    BY <2>1, <2>2, <2>3 DEF BufferIsMine, Printing
  <2>5. buf' \in {"", "A", "B"}
    BY <2>1, TwoTasks
  <2> QED
    BY <2>1, <2>2, <2>3, <2>4, <2>5 DEF Lock, Printing, Alternates, Shown
<1>4. CASE WriteConsole
  <2> DEFINE before == IF output = << >> THEN << >> ELSE << Shown >>
  <2>1. Goes({"write"}, "set") /\ output' = Append(before, buf) /\ UNCHANGED <<flag, buf>>
    BY <1>4 DEF WriteConsole, Shown
  <2>2. /\ kept[esp].val = "write" /\ kept'[esp].val = "set"
        /\ \A t \in Tasks : t # esp => kept'[t] = kept[t]
    BY <2>1, Stepped
  <2>3. flag = Turn(esp) /\ \A t \in Tasks : t # esp => ~Printing(t) /\ flag # Turn(t)
    BY <2>2, TwoTasks DEF Lock, Printing
  <2>4. buf = Letter(esp) /\ (output = << >> \/ Shown # Letter(esp))
    BY <2>2, <2>3 DEF Lock, BufferIsMine
  <2>5. buf \in {"A", "B"}
    BY <2>4, TwoTasks
  <2>6. /\ output' \in Seq({"A", "B"}) /\ output' # << >> /\ Shown' = buf
        /\ Len(output') <= 2 /\ Alternates'
    <3>1. CASE output = << >>
      <4>1. output' = << buf >>
        BY <2>1, <3>1
      <4> QED
        BY <2>5, <4>1 DEF Shown, Alternates
    <3>2. CASE output # << >>
      <4>1. Shown \in {"A", "B"}
        <5>1. output \in Seq({"A", "B"})
          BY DEF Lock
        <5>2. Len(output) \in 1..Len(output)
          BY <3>2, <5>1, EmptySeq, LenProperties
        <5> QED
          BY <5>1, <5>2, ElementOfSeq DEF Shown
      <4>2. output' = << Shown, buf >>
        <5> DEFINE s == Shown
        <5>1. output' = Append(<< s >>, buf)
          BY <2>1, <3>2
        <5>2. s \in {"A", "B"}
          BY <4>1
        <5> HIDE DEF s
        <5>3. Append(<< s >>, buf) = << s, buf >>
          BY <2>5, <5>2, AppendOne
        <5> QED
          BY <5>1, <5>3 DEF s
      <4>3. Shown # buf
        BY <2>4, <3>2
      <4> HIDE DEF Shown
      <4>4. /\ output' \in Seq({"A", "B"}) /\ Len(output') = 2
            /\ output'[1] = Shown /\ output'[2] = buf
        BY <2>5, <4>1, <4>2
      <4>5. output' # << >> /\ Shown' = buf
        BY <4>4, EmptySeq DEF Shown
      <4>6. Alternates'
        BY <4>3, <4>4 DEF Alternates
      <4> QED
        BY <4>4, <4>5, <4>6
    <3> QED
      BY <3>1, <3>2
  <2>7. BufferIsMine'
    BY <2>1, <2>2, <2>3 DEF BufferIsMine, Printing
  <2> QED
    BY <2>1, <2>2, <2>3, <2>4, <2>6, <2>7 DEF Lock, Printing
<1>5. CASE SetFlag
  <2>1. Goes({"set"}, "test") /\ flag' = 1 - Turn(esp) /\ UNCHANGED <<buf, output>>
    BY <1>5 DEF SetFlag
  <2>2. /\ kept[esp].val = "set" /\ kept'[esp].val = "test"
        /\ \A t \in Tasks : t # esp => kept'[t] = kept[t]
    BY <2>1, Stepped
  <2>3. flag = Turn(esp) /\ \A t \in Tasks : t # esp => ~Printing(t) /\ Letter(t) # Letter(esp)
    <3>1. flag = Turn(esp)
      BY <2>2 DEF Lock, Printing
    <3>2. ASSUME NEW t \in Tasks, t # esp PROVE ~Printing(t) /\ Letter(t) # Letter(esp)
      BY <3>1, <3>2, TwoTasks DEF Lock
    <3> QED
      BY <3>1, <3>2, Zenon
  <2>4. output # << >> /\ Shown = Letter(esp)
    BY <2>2 DEF Lock
  <2>5. flag' \in {0, 1} /\ flag' # Turn(esp)
    BY <2>1, TwoTasks
  <2>6. \A t \in Tasks : ~Printing(t)'
    BY <2>2, <2>3 DEF Printing
  <2>7. \A t \in Tasks : flag' = Turn(t) => Letter(t) # Shown
    BY <2>3, <2>4, <2>5
  <2>8. BufferIsMine'
    BY <2>6 DEF BufferIsMine, Printing
  <2> QED
    BY <2>1, <2>4, <2>5, <2>6, <2>7, <2>8 DEF Lock, Printing, Alternates, Shown
<1> QED
  BY <1>2, <1>3, <1>4, <1>5 DEF Program

LEMMA ProgramInvariance ==
    ASSUME ProgramAssumption
    PROVE  ProgramSpec => [](Inv /\ Lock)
<1>1. ProgramInit => Inv /\ Lock
  BY InitInv, LockInit DEF ProgramInit
<1>2. Inv /\ Lock /\ [ProgramNext]_allVars => (Inv /\ Lock)'
  <2> SUFFICES ASSUME Inv, Lock, [ProgramNext]_allVars PROVE Inv' /\ Lock'
    OBVIOUS
  <2>1. Inv'
    BY ProgramNextIsNext, NextInv
  <2>2. Lock'
    BY ProgramKeepsLock, SystemKeepsKept, SystemKeepsLock DEF ProgramNext
  <2> QED
    BY <2>1, <2>2
<1> QED
  BY <1>1, <1>2, PTL DEF ProgramSpec

\* printk_color is used by one thread at a time, from its first line to the
\* moment the flag is passed on, wherever the timer interrupts (entry.c).
THEOREM PrinterIsAlone ==
    ASSUME ProgramAssumption
    PROVE  ProgramSpec => []PrinterAlone
<1>1. Lock => PrinterAlone
  <2> SUFFICES ASSUME Lock PROVE OnePrinter
    BY DEF Lock, PrinterAlone, ProgramTypeOK
  <2> QED
    BY TwoTasks DEF Lock, OnePrinter
<1> QED
  BY <1>1, ProgramInvariance, PTL

\* The console shows A and B in turn (entry.c).
THEOREM LettersAlternate ==
    ASSUME ProgramAssumption
    PROVE  ProgramSpec => []Alternates
<1>1. Lock => Alternates
  BY DEF Lock
<1> QED
  BY <1>1, ProgramInvariance, PTL

\* The two threads are threads as Sched knows them: what is proved and checked
\* of any threads is true of them.
THEOREM ProgramRunsOnSched ==
    ASSUME ProgramAssumption
    PROVE  ProgramSpec => RunsOnSched
<1>1. ProgramInit => Init
  BY DEF ProgramInit
<1>2. Inv /\ [ProgramNext]_allVars => [Next]_vars
  BY ProgramNextIsNext
<1> QED
  BY <1>1, <1>2, ProgramInvariance, PTL DEF ProgramSpec, RunsOnSched, Spec
=============================================================================
