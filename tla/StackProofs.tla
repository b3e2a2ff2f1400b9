----------------------------- MODULE StackProofs -----------------------------
(***************************************************************************)
(* Proofs about what lies on the stack.                                    *)
(*                                                                         *)
(* Interrupts, for any exceptions, lines and error codes and for any depth *)
(* of nesting: the inductive invariant says, of every interrupt in         *)
(* progress, which words of its frame lie on the stack.                    *)
(*                                                                         *)
(* Boot, for any place of the kernel, its stack and its tables that the    *)
(* assumptions of Boot allow: the inductive invariant says where the       *)
(* frames of all calls in progress lie, and how they are linked.           *)
(***************************************************************************)
EXTENDS Interrupts, Boot, SequenceTheorems, TLAPS

-----------------------------------------------------------------------------
(* Interrupts: the invariant. *)

Values == (Registers \cup {"ds", "c"}) \X Nat
Words == (Registers \cup Steps \cup {"eflags", "cs", "err_code", "int_no", "esp", "ds", "c"}) \X Nat
StubSteps == {"entry", "pusha", "push ds", "call", "handler", "page_fault",
              "unwind", "popa", "iret"}
Places == ({"thread"} \X (1..LoopEnd)) \cup (StubSteps \X Vectors)

Interrupted ==
    [vector : Vectors, error : Errors \cup {0}, regs : [Registers -> Values],
     intr : {0, 1}, ip : Places, esp : Nat]

Types ==
    /\ interrupt_handlers \in [0..255 -> {"none", "timer_callback", "page_fault"}]
    /\ stack \in Seq(Words) /\ regs \in [Registers -> Values]
    /\ intr \in {0, 1} /\ masked \in BOOLEAN /\ ip \in Places
    /\ saved \in Seq(Interrupted)

\* All that the CPU, the stub and the call put on the stack for s, from the
\* bottom up, where pt_regs names the words 14 down to 1.
Frame(s) == <<
    <<"eflags", s.intr>>, <<"cs", 8>>, s.ip,
    <<"err_code", s.error>>, <<"int_no", s.vector>>,
    s.regs["eax"], s.regs["ecx"], s.regs["edx"], s.regs["ebx"], <<"esp", s.esp + 5>>,
    s.regs["ebp"], s.regs["esi"], s.regs["edi"],
    <<"ds", 16>>, <<"esp", s.esp + 14>>, <<"unwind", s.vector>> >>

\* How many of them are there when the stub of vector v is at a step.
Depth(step, v) ==
    IF step = "entry" THEN IF v \in CpuPushesError THEN 4 ELSE 3
    ELSE IF step \in {"pusha", "iret"} THEN 5
    ELSE IF step \in {"push ds", "popa"} THEN 13
    ELSE IF step = "call" THEN 14
    ELSE IF step = "unwind" THEN 15
    ELSE 16

\* With st on the stack: the code at p, with the registers r, IF f and sp words
\* there, is in the stub or the handler of the interrupt s: it runs with
\* interrupts off, and the stub's part of the frame is there.
Serves(st, s, p, f, r, sp) ==
    /\ p \in StubSteps \X {s.vector} /\ f = 0
    /\ sp = s.esp + Depth(p[1], s.vector)
    /\ \A k \in 1..Depth(p[1], s.vector) : st[s.esp + k] = Frame(s)[k]
    /\ p[1] \in {"entry", "pusha", "iret"} => r = s.regs

\* The code at p is kern_init: it uses none of the stack that is modelled, and
\* how far it has come tells what is registered and whether IF is set.
InThread(p, f, sp) ==
    /\ p \in {"thread"} \X (1..LoopEnd) /\ sp = 0
    /\ f = IF p[2] > Len(KernInit) THEN 1 ELSE 0
    /\ p[2] > 2 => interrupt_handlers[32] = "timer_callback"
    /\ p[2] > 3 => interrupt_handlers[14] = "page_fault"

\* The first interrupt came in kern_init, every other one in the stub or the
\* handler of the one before, and so does what runs now.
Chain ==
    LET n == Len(saved)
    IN  /\ IF n = 0 THEN InThread(ip, intr, Len(stack))
           ELSE /\ InThread(saved[1].ip, saved[1].intr, saved[1].esp)
                /\ Serves(stack, saved[n], ip, intr, regs, Len(stack))
        /\ \A i \in 1..n - 1 :
              Serves(stack, saved[i], saved[i + 1].ip, saved[i + 1].intr,
                     saved[i + 1].regs, saved[i + 1].esp)

\* Where the CPU pushes no error code the stub pushes 0.
ErrorCodes == \A i \in 1..Len(saved) : saved[i].vector \notin CpuPushesError => saved[i].error = 0

\* Only kern_init is ever interrupted by a line.
IrqFirst == \A i \in 2..Len(saved) : saved[i].vector \notin Irqs

\* Frames lie on the stack in the order in which the interrupts came.
Nested == \A i, j \in 1..Len(saved) : i <= j => saved[i].esp <= saved[j].esp

Inv == Types /\ Chain /\ ErrorCodes /\ IrqFirst /\ Nested

-----------------------------------------------------------------------------
(* The layout of the frame. *)

\* One sequence behind another, told by its elements.
LEMMA ConcatIs ==
    ASSUME NEW S, NEW a \in Seq(S), NEW b \in Seq(S), NEW c \in Seq(S),
           Len(c) = Len(a) + Len(b),
           \A i \in 1..Len(a) : c[i] = a[i],
           \A i \in 1..Len(b) : c[Len(a) + i] = b[i]
    PROVE  a \o b = c
<1> DEFINE d == a \o b
<1>1. d \in Seq(S) /\ Len(d) = Len(a) + Len(b) /\ Len(a) \in Nat /\ Len(b) \in Nat
  BY ConcatProperties, LenProperties
<1>2. \A i \in 1..Len(d) : d[i] = IF i <= Len(a) THEN a[i] ELSE b[i - Len(a)]
  BY ConcatProperties
<1> HIDE DEF d
<1>3. \A i \in 1..Len(d) : d[i] = c[i]
  <2> SUFFICES ASSUME NEW i \in 1..Len(d) PROVE d[i] = c[i]
    OBVIOUS
  <2>1. CASE i <= Len(a)
    BY <1>1, <1>2, <2>1
  <2>2. CASE i > Len(a)
    <3>1. i - Len(a) \in 1..Len(b) /\ i = Len(a) + (i - Len(a))
      BY <1>1, <2>2
    <3> QED
      BY <1>1, <1>2, <2>2, <3>1
  <2> QED
    BY <1>1, <2>1, <2>2
<1>4. d = c
  BY <1>1, <1>3, SeqEqual
<1> QED
  BY <1>4 DEF d

\* The registers.
LEMMA RegisterNames ==
    Registers = {"eax", "ecx", "edx", "ebx", "ebp", "esi", "edi"}
BY DEF Registers, ToSet, Pusha

\* pusha, popa and pt_regs word by word.
LEMMA Layout ==
    /\ Pusha = <<"eax", "ecx", "edx", "ebx", "esp", "ebp", "esi", "edi">>
    /\ Popa = <<"edi", "esi", "ebp", "esp", "ebx", "edx", "ecx", "eax">>
    /\ pt_regs = <<"ds", "edi", "esi", "ebp", "esp", "ebx", "edx", "ecx", "eax",
                   "int_no", "err_code", "eip", "cs", "eflags">>
<1> DEFINE a == <<"ds">>
           b == <<"edi", "esi", "ebp", "esp", "ebx", "edx", "ecx", "eax">>
           c == <<"int_no", "err_code", "eip", "cs", "eflags">>
           ab == <<"ds", "edi", "esi", "ebp", "esp", "ebx", "edx", "ecx", "eax">>
           abc == <<"ds", "edi", "esi", "ebp", "esp", "ebx", "edx", "ecx", "eax",
                    "int_no", "err_code", "eip", "cs", "eflags">>
           S == Registers \cup {"ds", "esp", "int_no", "err_code", "eip", "cs", "eflags"}
<1>1. Popa = b
  BY DEF Popa, Reverse, Pusha
<1>2. a \in Seq(S) /\ b \in Seq(S) /\ c \in Seq(S) /\ ab \in Seq(S) /\ abc \in Seq(S)
  BY RegisterNames
<1>3. a \o b = ab
  <2>1. Len(ab) = Len(a) + Len(b)
    OBVIOUS
  <2>2. \A i \in 1..Len(a) : ab[i] = a[i]
    OBVIOUS
  <2>3. \A i \in 1..Len(b) : ab[Len(a) + i] = b[i]
    OBVIOUS
  <2> HIDE DEF a, b, c, ab, abc, S
  <2> QED
    BY <1>2, <2>1, <2>2, <2>3, ConcatIs
<1>4. ab \o c = abc
  <2>1. Len(abc) = Len(ab) + Len(c)
    OBVIOUS
  <2>2. \A i \in 1..Len(ab) : abc[i] = ab[i]
    OBVIOUS
  <2>3. \A i \in 1..Len(c) : abc[Len(ab) + i] = c[i]
    OBVIOUS
  <2> HIDE DEF a, b, c, ab, abc, S
  <2> QED
    BY <1>2, <2>1, <2>2, <2>3, ConcatIs
<1> QED
  BY <1>1, <1>3, <1>4 DEF pt_regs, Popa, Pusha

\* Every place is a word, and the constants are numbers.
LEMMA PlaceIsWord ==
    /\ Places \subseteq Words
    /\ Vectors \subseteq 0..255 /\ Errors \subseteq Nat
    /\ \A v \in Faults \cup {NMI} : v \notin Irqs
    /\ LoopEnd = 6 /\ Len(KernInit) = 4
<1>1. LoopEnd = 6 /\ Len(KernInit) = 4
  BY DEF LoopEnd, KernInit
<1>2. Vectors \subseteq 0..255 /\ Errors \subseteq Nat /\ \A v \in Faults \cup {NMI} : v \notin Irqs
  BY InterruptsAssumption DEF InterruptsAssumption, Vectors, NMI
<1>3. {"thread"} \X (1..LoopEnd) \subseteq Words
  <2>1. {"thread"} \subseteq Steps /\ 1..LoopEnd \subseteq Nat
    BY <1>1 DEF Steps
  <2> QED
    BY <2>1 DEF Words
<1>4. StubSteps \X Vectors \subseteq Words
  <2>1. StubSteps \subseteq Steps /\ Vectors \subseteq Nat
    BY <1>2 DEF StubSteps, Steps
  <2> QED
    BY <2>1 DEF Words
<1> QED
  BY <1>1, <1>2, <1>3, <1>4 DEF Places


\* Where the struct has its k-th field.
LEMMA FieldOffset ==
    ASSUME NEW k \in 1..14
    PROVE  Field(pt_regs[k]) = stack[Word(1)[2] - (k - 1)]
<1> DEFINE Names == <<"ds", "edi", "esi", "ebp", "esp", "ebx", "edx", "ecx", "eax",
                      "int_no", "err_code", "eip", "cs", "eflags">>
<1>1. pt_regs = Names /\ Len(pt_regs) = 14
  BY Layout
<1>2. \A i \in 1..14 : Names[i] = Names[k] => i = k
  OBVIOUS
<1> HIDE DEF Names
<1>3. (CHOOSE i \in 1..Len(pt_regs) : pt_regs[i] = pt_regs[k]) = k
  BY <1>1, <1>2
<1> QED
  BY <1>3 DEF Field

\* A field of the frame, by the word of pt_regs that names it.
LEMMA FieldAt ==
    ASSUME NEW s \in Interrupted, NEW k \in 1..14,
           Serves(stack, s, ip, intr, regs, Len(stack)), ip[1] = "handler"
    PROVE  Field(pt_regs[k]) = Frame(s)[15 - k]
<1>1. s.esp \in Nat /\ Len(stack) = s.esp + 16
      /\ \A j \in 1..16 : stack[s.esp + j] = Frame(s)[j]
  BY DEF Serves, Depth, Interrupted
<1>2. Word(1) = <<"esp", s.esp + 14>>
  <2>1. Len(stack) - 1 = s.esp + 15
    BY <1>1
  <2>2. Word(1) = stack[s.esp + 15]
    BY <2>1 DEF Word
  <2>3. stack[s.esp + 15] = Frame(s)[15]
    BY <1>1
  <2> QED
    BY <2>2, <2>3 DEF Frame
<1> DEFINE w == Word(1)[2]
<1>3. w = s.esp + 14
  BY <1>2
<1> HIDE DEF w
<1>4. w - (k - 1) = s.esp + (15 - k) /\ 15 - k \in 1..16
  <2>1. s.esp \in Nat
    BY <1>1
  <2> QED
    BY <1>3, <2>1
<1>5. Field(pt_regs[k]) = stack[w - (k - 1)]
  BY FieldOffset DEF w
<1> QED
  BY <1>1, <1>4, <1>5

\* Words put on the stack.
LEMMA PushWords ==
    ASSUME stack \in Seq(Words), NEW w \in Seq(Words), Push(w)
    PROVE  /\ stack' \in Seq(Words) /\ Len(stack) \in Nat
           /\ Len(stack') = Len(stack) + Len(w)
           /\ \A i \in 1..Len(stack) : stack'[i] = stack[i]
           /\ \A i \in 1..Len(w) : stack'[Len(stack) + i] = w[i]
<1>1. stack' = stack \o w /\ Len(stack) \in Nat /\ Len(w) \in Nat
  BY LenProperties DEF Push
<1>2. /\ stack' \in Seq(Words) /\ Len(stack') = Len(stack) + Len(w)
      /\ \A i \in 1..Len(stack) + Len(w) :
            stack'[i] = IF i <= Len(stack) THEN stack[i] ELSE w[i - Len(stack)]
  BY <1>1, ConcatProperties
<1>3. ASSUME NEW i \in 1..Len(w)
      PROVE  stack'[Len(stack) + i] = w[i]
  <2>1. Len(stack) + i \in 1..Len(stack) + Len(w) /\ ~(Len(stack) + i <= Len(stack))
        /\ (Len(stack) + i) - Len(stack) = i
    BY <1>1
  <2> QED
    BY <1>2, <2>1
<1> QED
  BY <1>1, <1>2, <1>3

\* Words taken from the stack.
LEMMA PopWords ==
    ASSUME stack \in Seq(Words), NEW n \in 0..Len(stack), stack' = Popped(n)
    PROVE  /\ stack' \in Seq(Words) /\ Len(stack') = Len(stack) - n
           /\ \A i \in 1..Len(stack) - n : stack'[i] = stack[i]
<1>1. Len(stack) \in Nat /\ \A i \in 1..Len(stack) - n : stack[i] \in Words
  BY LenProperties, ElementOfSeq
<1>2. stack' = SubSeq(stack, 1, Len(stack) - n)
  BY DEF Popped
<1> QED
  BY <1>1, <1>2, SubSeqProperties

\* A frame below the words that change stays as it is.
LEMMA FrameKept ==
    ASSUME NEW s \in Interrupted, NEW p, NEW f, NEW r, NEW sp, NEW st,
           \A i \in 1..sp : st[i] = stack[i],
           Serves(stack, s, p, f, r, sp)
    PROVE  Serves(st, s, p, f, r, sp)
<1>1. s.esp \in Nat
  BY DEF Interrupted
<1>2. ASSUME NEW k \in 1..Depth(p[1], s.vector)
      PROVE  st[s.esp + k] = Frame(s)[k]
  <2>1. Depth(p[1], s.vector) \in Nat
    BY DEF Depth
  <2>2. s.esp + k \in 1..sp
    BY <1>1, <2>1 DEF Serves
  <2> QED
    BY <2>2 DEF Serves
<1> QED
  BY <1>2 DEF Serves

-----------------------------------------------------------------------------
(* Which interrupts are in progress. *)

\* Outside kern_init's own code there is one, and interrupts are off.
LEMMA InStub ==
    ASSUME Inv, ip[1] # "thread"
    PROVE  /\ Len(saved) \in Nat \ {0} /\ saved[Len(saved)] \in Interrupted
           /\ Serves(stack, saved[Len(saved)], ip, intr, regs, Len(stack))
           /\ intr = 0
<1>1. saved \in Seq(Interrupted) /\ Len(saved) \in Nat
  BY LenProperties DEF Inv, Types
<1>2. Len(saved) # 0
  BY DEF Inv, Chain, InThread
<1>3. saved[Len(saved)] \in Interrupted
  BY <1>1, <1>2, ElementOfSeq
<1> QED
  BY <1>1, <1>2, <1>3 DEF Inv, Chain, Serves

\* When kern_init's own code runs there is none.
LEMMA NoneInThread ==
    ASSUME Inv, ip[1] = "thread"
    PROVE  Len(saved) = 0 /\ InThread(ip, intr, Len(stack))
<1>1. Len(saved) # 0 => ip[1] \in StubSteps
  BY DEF Inv, Chain, Serves
<1> QED
  BY <1>1 DEF Inv, Chain, StubSteps

\* A step of a stub or a handler that leaves the words below its frame alone.
LEMMA StubStepInv ==
    ASSUME Inv, ip[1] # "thread", UNCHANGED <<interrupt_handlers, saved>>, Types',
           \A i \in 1..saved[Len(saved)].esp : stack'[i] = stack[i],
           Serves(stack, saved[Len(saved)], ip, intr, regs, Len(stack))'
    PROVE  Inv'
<1> DEFINE n == Len(saved)
<1>1. n \in Nat \ {0} /\ saved[n] \in Interrupted /\ \A i \in 1..n : saved[i] \in Interrupted
  BY InStub, ElementOfSeq DEF Inv, Types
<1>2. ASSUME NEW i \in 1..n - 1
      PROVE  Serves(stack', saved[i], saved[i + 1].ip, saved[i + 1].intr,
                    saved[i + 1].regs, saved[i + 1].esp)
  <2>1. Serves(stack, saved[i], saved[i + 1].ip, saved[i + 1].intr,
               saved[i + 1].regs, saved[i + 1].esp)
    BY DEF Inv, Chain
  <2>2. saved[i] \in Interrupted /\ i + 1 \in 1..n
    BY <1>1
  <2>3. saved[n].esp \in Nat /\ saved[i + 1].esp \in Nat /\ saved[i + 1].esp <= saved[n].esp
    BY <1>1, <2>2 DEF Inv, Nested, Interrupted
  <2>4. \A j \in 1..saved[i + 1].esp : stack'[j] = stack[j]
    BY <2>3
  <2> QED
    BY <2>1, <2>2, <2>4, FrameKept
<1>3. Chain'
  <2>1. InThread(saved[1].ip, saved[1].intr, saved[1].esp)'
    BY <1>1 DEF Inv, Chain, InThread
  <2> QED
    BY <1>1, <1>2, <2>1 DEF Chain
<1> QED
  BY <1>3 DEF Inv, ErrorCodes, IrqFirst, Nested

\* A word of a frame that a longer frame over the same thread keeps: where it lies in both.
LEMMA FrameIndex ==
    ASSUME NEW esp0 \in Nat, NEW d \in Nat, NEW e \in Nat, NEW k \in 1..e, k <= d,
           NEW l, NEW m, l = esp0 + d, m = esp0 + e
    PROVE  esp0 + k \in 1..m /\ esp0 + k <= l /\ k \in 1..d
  OBVIOUS

\* The stub of the interrupt on top goes on to another step.
LEMMA StubMoveInv ==
    ASSUME Inv, ip[1] # "thread", NEW s, s = saved[Len(saved)],
           UNCHANGED <<interrupt_handlers, saved>>,
           NEW step \in StubSteps, ip' = <<step, s.vector>>, intr' = 0, masked' \in BOOLEAN,
           regs' \in [Registers -> Values],
           step \in {"entry", "pusha", "iret"} => regs' = s.regs,
           stack' \in Seq(Words), Len(stack') = s.esp + Depth(step, s.vector),
           \A k \in 1..Len(stack') : k <= Len(stack) => stack'[k] = stack[k],
           \A k \in 1..Depth(step, s.vector) :
              k > Depth(ip[1], s.vector) => stack'[s.esp + k] = Frame(s)[k]
    PROVE  Inv'
<1>1. /\ Len(saved) \in Nat \ {0} /\ s \in Interrupted /\ s.esp \in Nat /\ s.vector \in Vectors
      /\ Serves(stack, s, ip, intr, regs, Len(stack))
  BY InStub DEF Interrupted
<1>2. /\ Depth(step, s.vector) \in Nat /\ Depth(ip[1], s.vector) \in Nat
      /\ Len(stack) = s.esp + Depth(ip[1], s.vector)
  BY <1>1 DEF Depth, Serves
<1>3. ASSUME NEW k \in 1..Depth(step, s.vector)
      PROVE  stack'[s.esp + k] = Frame(s)[k]
  <2>1. CASE k > Depth(ip[1], s.vector)
    BY <2>1
  <2>2. CASE k <= Depth(ip[1], s.vector)
    <3>1. s.esp + k \in 1..Len(stack') /\ s.esp + k <= Len(stack)
          /\ k \in 1..Depth(ip[1], s.vector)
      <4> DEFINE d == Depth(ip[1], s.vector)
                 e == Depth(step, s.vector)
                 l == Len(stack)
                 m == Len(stack')
      <4>1. s.esp \in Nat /\ d \in Nat /\ e \in Nat
        BY <1>1, <1>2, Zenon
      <4>2. l = s.esp + d /\ m = s.esp + e
        BY <1>1, <1>2, Zenon
      <4>3. k \in 1..e /\ k <= d
        BY <2>2
      <4> HIDE DEF d, e, l, m
      <4>4. s.esp + k \in 1..m /\ s.esp + k <= l /\ k \in 1..d
        BY <4>1, <4>2, <4>3, FrameIndex
      <4> QED
        BY <4>4 DEF d, l, m
    <3>2. stack[s.esp + k] = Frame(s)[k]
      BY <1>1, <3>1 DEF Serves
    <3> QED
      BY <3>1, <3>2
  <2> QED
    BY <1>2, <2>1, <2>2
<1>4. Serves(stack', s, ip', intr', regs', Len(stack'))
  <2>1. ip'[1] = step /\ ip' \in StubSteps \X {s.vector}
    OBVIOUS
  <2> QED
    BY <1>3, <2>1 DEF Serves
<1>5. \A k \in 1..s.esp : stack'[k] = stack[k]
  <2>1. s.esp \in Nat
    BY <1>1
  <2>2. s.esp <= Len(stack) /\ s.esp <= Len(stack')
    BY <1>2, <2>1
  <2>3. \A k \in 1..s.esp : k \in 1..Len(stack') /\ k <= Len(stack)
    BY <1>2, <2>1, <2>2
  <2> QED
    BY <2>3
<1>6. Types'
  <2>1. ip' \in Places
    BY <1>1 DEF Places
  <2> QED
    BY <2>1 DEF Inv, Types
<1>7. Serves(stack, saved[Len(saved)], ip, intr, regs, Len(stack))'
  BY <1>4
<1> QED
  BY <1>5, <1>6, <1>7, StubStepInv

-----------------------------------------------------------------------------
(* The steps. *)

LEMMA InitInv == Init => Inv
<1> SUFFICES ASSUME Init PROVE Inv
  OBVIOUS
<1>1. Len(stack) = 0 /\ Len(saved) = 0 /\ stack \in Seq(Words) /\ saved \in Seq(Interrupted)
  BY DEF Init
<1>2. regs \in [Registers -> Values]
  BY DEF Init, Values
<1>3. ip \in {"thread"} \X (1..LoopEnd) /\ ip[2] = 1
  BY PlaceIsWord DEF Init
<1>4. Types
  BY <1>1, <1>2, <1>3 DEF Types, Init, Places
<1>5. Chain
  BY <1>1, <1>3, PlaceIsWord DEF Chain, InThread, Init
<1> QED
  BY <1>1, <1>4, <1>5 DEF Inv, ErrorCodes, IrqFirst, Nested

\* The handlers that may be in the table.
Handlers == {"none", "timer_callback", "page_fault"}
Table == [0..255 -> Handlers]

\* What init_timer() and init_vmm() enter there.
LEMMA RegisterEntry ==
    ASSUME interrupt_handlers \in Table
    PROVE  /\ Register(32, "timer_callback") \in Table
           /\ Register(32, "timer_callback")[32] = "timer_callback"
           /\ Register(14, "page_fault") \in Table
           /\ Register(14, "page_fault")[14] = "page_fault"
           /\ Register(14, "page_fault")[32] = interrupt_handlers[32]
<1>1. "timer_callback" \in Handlers /\ "page_fault" \in Handlers
  BY DEF Handlers
<1>2. interrupt_handlers \in [0..255 -> Handlers]
  BY DEF Table
<1>3. /\ Register(32, "timer_callback") \in [0..255 -> Handlers]
      /\ Register(32, "timer_callback")[32] = "timer_callback"
  BY <1>1, <1>2 DEF Register
<1>4. /\ Register(14, "page_fault") \in [0..255 -> Handlers]
      /\ Register(14, "page_fault")[14] = "page_fault"
      /\ Register(14, "page_fault")[32] = interrupt_handlers[32]
  BY <1>1, <1>2 DEF Register
<1> QED
  BY <1>3, <1>4 DEF Table

\* kern_init goes on.
LEMMA StatementInv == Inv /\ Statement => Inv'
<1> SUFFICES ASSUME Inv, Statement PROVE Inv'
  OBVIOUS
<1> DEFINE p == ip[2]
<1>1. /\ ip[1] = "thread" /\ UNCHANGED <<stack, regs, masked, saved>>
      /\ ip' = <<"thread", IF p = LoopEnd THEN LoopEnd - 1 ELSE p + 1>>
  BY DEF Statement
<1>2. Len(saved) = 0 /\ InThread(ip, intr, Len(stack))
  BY <1>1, NoneInThread
<1>3. p \in 1..6
  BY <1>2, PlaceIsWord DEF InThread
<1>4. interrupt_handlers \in Table
  BY DEF Inv, Types, Table, Handlers
<1>5. ip' \in {"thread"} \X (1..LoopEnd)
      /\ ip'[2] = IF p = 6 THEN 5 ELSE p + 1
  <2> DEFINE q == IF p = LoopEnd THEN LoopEnd - 1 ELSE p + 1
  <2>1. q \in 1..6 /\ q = IF p = 6 THEN 5 ELSE p + 1
    BY <1>3, PlaceIsWord
  <2>2. ip' = <<"thread", q>>
    BY <1>1
  <2> HIDE DEF q, p
  <2> QED
    BY <2>1, <2>2, PlaceIsWord
<1>6. /\ interrupt_handlers' \in Table
      /\ intr' = IF p >= 4 THEN 1 ELSE 0
      /\ p > 1 => interrupt_handlers'[32] = "timer_callback"
      /\ p > 2 => interrupt_handlers'[14] = "page_fault"
  <2>1. /\ intr = IF p > 4 THEN 1 ELSE 0
        /\ p > 2 => interrupt_handlers[32] = "timer_callback"
        /\ p > 3 => interrupt_handlers[14] = "page_fault"
    BY <1>2, PlaceIsWord DEF InThread
  <2>2. IF p <= 4 THEN /\ interrupt_handlers' = Registered(KernInit[p])
                       /\ intr' = IF KernInit[p] = "enable_intr" THEN 1 ELSE intr
                  ELSE UNCHANGED <<interrupt_handlers, intr>>
    BY PlaceIsWord DEF Statement
  <2> HIDE DEF p
  <2>3. CASE p = 1
    <3>1. Registered("init_idt") = [v \in 0..255 |-> "none"]
      BY DEF Registered
    <3>2. KernInit[p] = "init_idt"
      BY <2>3 DEF KernInit
    <3> QED
      BY <2>1, <2>2, <2>3, <3>1, <3>2 DEF Table, Handlers
  <2>4. CASE p = 2
    <3>1. Registered("init_timer") = Register(32, "timer_callback")
      BY DEF Registered
    <3>2. KernInit[p] = "init_timer"
      BY <2>4 DEF KernInit
    <3>3. intr = 0 /\ intr' = 0
      BY <2>1, <2>2, <2>4, <3>2
    <3>4. interrupt_handlers' = Register(32, "timer_callback")
      <4>1. interrupt_handlers' = Registered(KernInit[p])
        BY <2>2, <2>4
      <4> QED
        BY <3>1, <3>2, <4>1, Zenon
    <3>5. interrupt_handlers' \in Table /\ interrupt_handlers'[32] = "timer_callback"
      <4>1. /\ Register(32, "timer_callback") \in Table
            /\ Register(32, "timer_callback")[32] = "timer_callback"
        BY <1>4, RegisterEntry
      <4> QED
        BY <3>4, <4>1, Zenon
    <3> QED
      BY <2>4, <3>3, <3>5
  <2>5. CASE p = 3
    <3>1. Registered("init_vmm") = Register(14, "page_fault")
      BY DEF Registered
    <3>2. KernInit[p] = "init_vmm"
      BY <2>5 DEF KernInit
    <3>3. intr = 0 /\ intr' = 0
      BY <2>1, <2>2, <2>5, <3>2
    <3>4. interrupt_handlers' = Register(14, "page_fault")
      <4>1. interrupt_handlers' = Registered(KernInit[p])
        BY <2>2, <2>5
      <4> QED
        BY <3>1, <3>2, <4>1, Zenon
    <3>5. /\ interrupt_handlers' \in Table /\ interrupt_handlers'[14] = "page_fault"
          /\ interrupt_handlers'[32] = interrupt_handlers[32]
      <4>1. /\ Register(14, "page_fault") \in Table
            /\ Register(14, "page_fault")[14] = "page_fault"
            /\ Register(14, "page_fault")[32] = interrupt_handlers[32]
        BY <1>4, RegisterEntry
      <4> QED
        BY <3>4, <4>1, Zenon
    <3> QED
      BY <2>1, <2>5, <3>3, <3>5
  <2>6. CASE p = 4
    <3>1. Registered("enable_intr") = interrupt_handlers
      BY DEF Registered
    <3>2. KernInit[p] = "enable_intr"
      BY <2>6 DEF KernInit
    <3> QED
      BY <1>3, <1>4, <2>1, <2>2, <2>6, <3>1, <3>2
  <2>7. CASE p \in 5..6
    BY <1>3, <1>4, <2>1, <2>2, <2>7
  <2> QED
    BY <1>3, <1>4, <2>3, <2>4, <2>5, <2>6, <2>7
<1>7. Types'
  BY <1>1, <1>5, <1>6 DEF Inv, Types, Places, Table, Handlers
<1>8. InThread(ip, intr, Len(stack))'
  <2>1. Len(stack') = 0
    BY <1>1, <1>2 DEF InThread
  <2>2. /\ intr' = IF ip'[2] > 4 THEN 1 ELSE 0
        /\ ip'[2] > 2 => interrupt_handlers'[32] = "timer_callback"
        /\ ip'[2] > 3 => interrupt_handlers'[14] = "page_fault"
    <3> HIDE DEF p
    <3> QED
      BY <1>3, <1>5, <1>6
  <2> QED
    BY <1>5, <2>1, <2>2, PlaceIsWord DEF InThread
<1> QED
  BY <1>1, <1>2, <1>7, <1>8 DEF Inv, Chain, ErrorCodes, IrqFirst, Nested

\* Short sequences put together.
LEMMA Joined ==
    ASSUME NEW a, NEW b, NEW c, NEW d
    PROVE  /\ << >> \o <<a>> = <<a>> /\ <<a>> \o <<b>> = <<a, b>>
           /\ <<a, b, c>> \o << >> = <<a, b, c>> /\ <<a, b, c>> \o <<d>> = <<a, b, c, d>>
<1> DEFINE S == {a, b, c, d}
<1>1. <<a>> \in Seq(S) /\ <<b>> \in Seq(S) /\ <<d>> \in Seq(S) /\ <<a, b>> \in Seq(S)
      /\ <<a, b, c>> \in Seq(S) /\ <<a, b, c, d>> \in Seq(S)
  OBVIOUS
<1> HIDE DEF S
<1>2. << >> \o <<a>> = <<a>> /\ <<a, b, c>> \o << >> = <<a, b, c>>
  BY <1>1, ConcatEmptySeq
<1>3. <<a>> \o <<b>> = <<a, b>>
  <2> DEFINE u == <<a>>
             v == <<b>>
             w == <<a, b>>
  <2>1. Len(w) = Len(u) + Len(v)
    OBVIOUS
  <2>2. \A i \in 1..Len(u) : w[i] = u[i]
    OBVIOUS
  <2>3. \A i \in 1..Len(v) : w[Len(u) + i] = v[i]
    OBVIOUS
  <2>4. u \in Seq(S) /\ v \in Seq(S) /\ w \in Seq(S)
    BY <1>1
  <2> HIDE DEF u, v, w
  <2>5. u \o v = w
    BY <2>1, <2>2, <2>3, <2>4, ConcatIs
  <2> QED
    BY <2>5 DEF u, v, w
<1>4. <<a, b, c>> \o <<d>> = <<a, b, c, d>>
  <2> DEFINE u == <<a, b, c>>
             v == <<d>>
             w == <<a, b, c, d>>
  <2>1. Len(w) = Len(u) + Len(v)
    OBVIOUS
  <2>2. \A i \in 1..Len(u) : w[i] = u[i]
    OBVIOUS
  <2>3. \A i \in 1..Len(v) : w[Len(u) + i] = v[i]
    OBVIOUS
  <2>4. u \in Seq(S) /\ v \in Seq(S) /\ w \in Seq(S)
    BY <1>1
  <2> HIDE DEF u, v, w
  <2>5. u \o v = w
    BY <2>1, <2>2, <2>3, <2>4, ConcatIs
  <2> QED
    BY <2>5 DEF u, v, w
<1> QED
  BY <1>2, <1>3, <1>4

\* What Deliver records of the interrupt.
Taken(v, e) ==
    [vector |-> v, error |-> IF v \in CpuPushesError THEN e ELSE 0,
     regs |-> regs, intr |-> intr, ip |-> ip, esp |-> Len(stack)]

\* What the CPU pushes is the lower part of the frame.
LEMMA DeliverPushes ==
    ASSUME Inv, NEW v \in Vectors, NEW e \in Errors \cup {0}, Deliver(v, e)
    PROVE  /\ stack' \in Seq(Words) /\ Len(stack') = Len(stack) + Depth("entry", v)
           /\ \A i \in 1..Len(stack) : stack'[i] = stack[i]
           /\ \A k \in 1..Depth("entry", v) : stack'[Len(stack) + k] = Frame(Taken(v, e))[k]
<1> DEFINE a == <<"eflags", intr>>
           b == <<"cs", 8>>
           d == <<"err_code", e>>
           w == <<a, b, ip>> \o (IF v \in CpuPushesError THEN <<d>> ELSE << >>)
<1>1. Push(w)
  BY DEF Deliver
<1>2. a \in Words /\ b \in Words /\ ip \in Words /\ d \in Words
  <2>1. intr \in Nat /\ e \in Nat
    BY PlaceIsWord DEF Inv, Types
  <2> QED
    BY <2>1, PlaceIsWord DEF Inv, Types, Words
<1> HIDE DEF a, b, d
<1>4. /\ w \in Seq(Words) /\ Len(w) = Depth("entry", v)
      /\ w[1] = a /\ w[2] = b /\ w[3] = ip /\ (v \in CpuPushesError => w[4] = d)
  <2>1. CASE v \in CpuPushesError
    <3>1. <<a, b, ip>> \o <<d>> = <<a, b, ip, d>>
      BY Joined, Zenon
    <3>2. w = <<a, b, ip, d>>
      BY <2>1, <3>1
    <3>3. Depth("entry", v) = 4
      BY <2>1 DEF Depth
    <3> HIDE DEF w
    <3> QED
      BY <1>2, <2>1, <3>2, <3>3
  <2>2. CASE v \notin CpuPushesError
    <3>1. <<a, b, ip>> \o << >> = <<a, b, ip>>
      BY <1>2, Joined
    <3>2. w = <<a, b, ip>>
      BY <2>2, <3>1
    <3>3. Depth("entry", v) = 3
      BY <2>2 DEF Depth
    <3> HIDE DEF w
    <3> QED
      BY <1>2, <2>2, <3>2, <3>3
  <2> QED
    BY <2>1, <2>2
<1> HIDE DEF w
<1>5. \A k \in 1..Depth("entry", v) : w[k] = Frame(Taken(v, e))[k]
  <2>1. /\ Frame(Taken(v, e))[1] = a /\ Frame(Taken(v, e))[2] = b
        /\ Frame(Taken(v, e))[3] = ip
        /\ v \in CpuPushesError => Frame(Taken(v, e))[4] = d
    BY DEF Frame, Taken, a, b, d
  <2>2. \A k \in 1..Depth("entry", v) :
           k \in {1, 2, 3} \/ (k = 4 /\ v \in CpuPushesError)
    BY DEF Depth
  <2> QED
    BY <1>4, <2>1, <2>2
<1>6. stack \in Seq(Words)
  BY DEF Inv, Types
<1> QED
  BY <1>1, <1>4, <1>5, <1>6, PushWords

\* An interrupt adds its frame on top of all others.
LEMMA DeliverInv ==
    ASSUME Inv, NEW v \in Vectors, NEW e \in Errors \cup {0}, Deliver(v, e),
           masked' \in BOOLEAN, v \in Irqs => Len(saved) = 0
    PROVE  Inv'
<1> DEFINE n == Len(saved)
           s == Taken(v, e)
<1>1. /\ saved' = Append(saved, s) /\ intr' = 0 /\ ip' = <<"entry", v>>
      /\ UNCHANGED <<interrupt_handlers, regs>>
  BY DEF Deliver, GateIF, Taken
<1>2. /\ stack' \in Seq(Words) /\ Len(stack') = Len(stack) + Depth("entry", v)
      /\ \A i \in 1..Len(stack) : stack'[i] = stack[i]
      /\ \A k \in 1..Depth("entry", v) : stack'[Len(stack) + k] = Frame(s)[k]
  BY DeliverPushes
<1>3. s \in Interrupted /\ Len(stack) \in Nat
  BY LenProperties DEF Inv, Types, Interrupted, Taken
<1>4. /\ s.vector = v /\ s.regs = regs /\ s.intr = intr /\ s.ip = ip /\ s.esp = Len(stack)
      /\ v \notin CpuPushesError => s.error = 0
  BY DEF Taken
<1> HIDE DEF s
<1>5. /\ n \in Nat /\ saved' \in Seq(Interrupted) /\ Len(saved') = n + 1
      /\ saved'[n + 1] = s /\ \A i \in 1..n : saved'[i] = saved[i] /\ saved[i] \in Interrupted
  <2>1. saved \in Seq(Interrupted)
    BY DEF Inv, Types
  <2>2. n \in Nat /\ \A i \in 1..n : saved[i] \in Interrupted
    BY <2>1, LenProperties, ElementOfSeq
  <2>3. /\ saved' \in Seq(Interrupted) /\ Len(saved') = n + 1
        /\ \A i \in 1..n : saved'[i] = saved[i]
        /\ saved'[n + 1] = s
    BY <1>1, <1>3, <2>1, AppendProperties
  <2> QED
    BY <2>2, <2>3
<1>6. Types'
  <2>1. ip' \in Places
    BY <1>1 DEF Places, StubSteps
  <2> QED
    BY <1>1, <1>2, <1>5, <2>1 DEF Inv, Types
<1>7. Serves(stack', s, ip', intr', regs', Len(stack'))
  <2>1. ip' \in StubSteps \X {s.vector} /\ ip'[1] = "entry"
    BY <1>1, <1>4 DEF StubSteps
  <2> QED
    BY <1>1, <1>2, <1>4, <2>1 DEF Serves
<1>8. \A i \in 1..n : saved[i].esp \in Nat /\ saved[i].esp <= Len(stack)
  <2> SUFFICES ASSUME NEW i \in 1..n
               PROVE  saved[i].esp \in Nat /\ saved[i].esp <= Len(stack)
    OBVIOUS
  <2>1. n \in 1..n /\ i <= n
    BY <1>5
  <2>2. saved[i].esp \in Nat /\ saved[n].esp \in Nat /\ saved[i].esp <= saved[n].esp
    BY <1>5, <2>1 DEF Interrupted, Inv, Nested
  <2>3. Serves(stack, saved[n], ip, intr, regs, Len(stack))
    BY <2>1 DEF Inv, Chain
  <2>4. Len(stack) = saved[n].esp + Depth(ip[1], saved[n].vector)
        /\ Depth(ip[1], saved[n].vector) \in Nat
    BY <2>3 DEF Serves, Depth
  <2> QED
    BY <1>3, <2>2, <2>4
<1>9. ASSUME NEW i \in 1..n
      PROVE  Serves(stack', saved'[i], saved'[i + 1].ip, saved'[i + 1].intr,
                    saved'[i + 1].regs, saved'[i + 1].esp)
  <2>1. CASE i = n
    <3>1. Serves(stack, saved[n], ip, intr, regs, Len(stack))
      BY <2>1 DEF Inv, Chain
    <3>2. Serves(stack', saved[n], ip, intr, regs, Len(stack))
      BY <1>2, <1>5, <2>1, <3>1, FrameKept
    <3> QED
      BY <1>4, <1>5, <2>1, <3>2
  <2>2. CASE i # n
    <3>1. i \in 1..n - 1 /\ i + 1 \in 1..n
      BY <1>5, <2>2
    <3>2. Serves(stack, saved[i], saved[i + 1].ip, saved[i + 1].intr,
                 saved[i + 1].regs, saved[i + 1].esp)
      BY <3>1 DEF Inv, Chain
    <3>3. \A j \in 1..saved[i + 1].esp : stack'[j] = stack[j]
      BY <1>2, <1>3, <1>8, <3>1
    <3>4. Serves(stack', saved[i], saved[i + 1].ip, saved[i + 1].intr,
                 saved[i + 1].regs, saved[i + 1].esp)
      BY <1>5, <3>2, <3>3, FrameKept
    <3> QED
      BY <1>5, <3>1, <3>4
  <2> QED
    BY <2>1, <2>2
<1>10. Chain'
  <2>1. InThread(saved[1].ip, saved[1].intr, saved[1].esp)'
    <3>1. CASE n = 0
      BY <1>1, <1>4, <1>5, <3>1 DEF Inv, Chain, InThread
    <3>2. CASE n # 0
      BY <1>1, <1>5, <3>2 DEF Inv, Chain, InThread
    <3> QED
      BY <3>1, <3>2
  <2>2. Serves(stack', saved'[n + 1], ip', intr', regs', Len(stack'))
    BY <1>5, <1>7
  <2> QED
    BY <1>5, <1>9, <2>1, <2>2 DEF Chain
<1>11. ErrorCodes'
  BY <1>4, <1>5 DEF Inv, ErrorCodes
<1>12. IrqFirst'
  BY <1>4, <1>5 DEF Inv, IrqFirst
<1>13. Nested'
  <2> SUFFICES ASSUME NEW i \in 1..n + 1, NEW j \in 1..n + 1, i <= j
               PROVE  saved'[i].esp <= saved'[j].esp
    BY <1>5 DEF Nested
  <2>1. CASE j = n + 1 /\ i = n + 1
    BY <1>3, <1>4, <1>5, <2>1
  <2>2. CASE j = n + 1 /\ i # n + 1
    <3>1. i \in 1..n
      BY <1>5, <2>2
    <3> QED
      BY <1>4, <1>5, <1>8, <2>2, <3>1
  <2>3. CASE j # n + 1
    <3>1. i \in 1..n /\ j \in 1..n
      BY <1>5, <2>3
    <3> QED
      BY <1>5, <3>1 DEF Inv, Nested
  <2> QED
    BY <2>1, <2>2, <2>3
<1> QED
  BY <1>6, <1>10, <1>11, <1>12, <1>13 DEF Inv

\* A stub that pushes the next words of the frame.
LEMMA StubPushInv ==
    ASSUME Inv, ip[1] # "thread", NEW s, s = saved[Len(saved)],
           UNCHANGED <<interrupt_handlers, saved>>,
           NEW step \in StubSteps, ip' = <<step, s.vector>>, intr' = 0, masked' \in BOOLEAN,
           regs' \in [Registers -> Values],
           step \in {"entry", "pusha", "iret"} => regs' = s.regs,
           NEW w \in Seq(Words), Push(w),
           Depth(step, s.vector) = Depth(ip[1], s.vector) + Len(w),
           \A i \in 1..Len(w) : w[i] = Frame(s)[Depth(ip[1], s.vector) + i]
    PROVE  Inv'
<1> DEFINE d == Depth(ip[1], s.vector)
           e == Depth(step, s.vector)
<1>1. s.esp \in Nat /\ Serves(stack, s, ip, intr, regs, Len(stack))
  BY InStub DEF Interrupted
<1>2. d \in Nat /\ e = d + Len(w) /\ Len(w) \in Nat /\ Len(stack) = s.esp + d
  BY <1>1, LenProperties DEF Depth, Serves
<1>3. /\ stack' \in Seq(Words) /\ Len(stack') = Len(stack) + Len(w)
      /\ \A i \in 1..Len(stack) : stack'[i] = stack[i]
      /\ \A i \in 1..Len(w) : stack'[Len(stack) + i] = w[i]
  BY PushWords DEF Inv, Types
<1>4. \A i \in 1..Len(w) : w[i] = Frame(s)[d + i]
  OBVIOUS
<1> HIDE DEF d, e
<1>5. s.esp \in Nat
  BY <1>1
<1>6. Len(stack') = s.esp + e
  <2> DEFINE l == Len(stack)
             m == Len(stack')
             n == Len(w)
  <2>1. m = l + n /\ l = s.esp + d /\ e = d + n /\ d \in Nat /\ n \in Nat
    BY <1>2, <1>3
  <2> HIDE DEF l, m, n
  <2>2. m = s.esp + e
    BY <1>5, <2>1
  <2> QED
    BY <2>2 DEF m
<1>7. ASSUME NEW k \in 1..e, k > d
      PROVE  stack'[s.esp + k] = Frame(s)[k]
  <2>1. k - d \in 1..Len(w) /\ d + (k - d) = k /\ Len(stack) + (k - d) = s.esp + k
    BY <1>2, <1>5, <1>7
  <2>2. stack'[Len(stack) + (k - d)] = Frame(s)[d + (k - d)]
    BY <1>3, <1>4, <2>1
  <2> QED
    BY <2>1, <2>2
<1>8. \A k \in 1..Len(stack') : k <= Len(stack) => stack'[k] = stack[k]
  <2> SUFFICES ASSUME NEW k \in 1..Len(stack'), k <= Len(stack) PROVE stack'[k] = stack[k]
    OBVIOUS
  <2>1. k \in 1..Len(stack)
    BY <1>2, <1>5, <1>6
  <2> QED
    BY <1>3, <2>1
<1>9. stack' \in Seq(Words)
  BY <1>3
<1> QED
  BY <1>6, <1>7, <1>8, <1>9, StubMoveInv DEF d, e

\* A stub that pops the last words of the frame.
LEMMA StubPopInv ==
    ASSUME Inv, ip[1] # "thread", NEW s, s = saved[Len(saved)],
           UNCHANGED <<interrupt_handlers, saved>>,
           NEW step \in StubSteps, ip' = <<step, s.vector>>, intr' = 0, masked' \in BOOLEAN,
           regs' \in [Registers -> Values],
           step \in {"entry", "pusha", "iret"} => regs' = s.regs,
           NEW n \in Nat, stack' = Popped(n),
           Depth(ip[1], s.vector) = Depth(step, s.vector) + n
    PROVE  Inv'
<1> DEFINE d == Depth(ip[1], s.vector)
           e == Depth(step, s.vector)
<1>1. s.esp \in Nat /\ Serves(stack, s, ip, intr, regs, Len(stack))
  BY InStub DEF Interrupted
<1>2. d \in Nat /\ e \in Nat /\ d = e + n /\ Len(stack) = s.esp + d
  BY <1>1 DEF Depth, Serves
<1> HIDE DEF d, e
<1>3. s.esp \in Nat
  BY <1>1
<1>4. n \in 0..Len(stack)
  BY <1>2, <1>3
<1>5. /\ stack' \in Seq(Words) /\ Len(stack') = Len(stack) - n
      /\ \A i \in 1..Len(stack) - n : stack'[i] = stack[i]
  BY <1>4, PopWords DEF Inv, Types
<1>6. Len(stack') = s.esp + e
  <2>1. Len(stack') = Len(stack) - n
    BY <1>5
  <2> QED
    BY <1>2, <1>3, <2>1
<1>7. \A k \in 1..Len(stack') : stack'[k] = stack[k]
  BY <1>5
<1>8. \A k \in 1..e : ~(k > d)
  BY <1>2
<1>9. stack' \in Seq(Words)
  BY <1>5
<1> QED
  BY <1>6, <1>7, <1>8, <1>9, StubMoveInv DEF d, e

\* The stub makes every frame the same.
LEMMA EntryInv == Inv /\ Entry => Inv'
<1> SUFFICES ASSUME Inv, Entry, NEW s, s = saved[Len(saved)] PROVE Inv'
  OBVIOUS
<1> DEFINE v == s.vector
           w == (IF v \in ISR_ERRCODE THEN << >> ELSE << <<"err_code", 0>> >>)
                \o << <<"int_no", v>> >>
<1>1. ip[1] = "entry"
  BY DEF Entry, Stub
<1>2. /\ s \in Interrupted /\ Len(saved) \in Nat \ {0}
      /\ Serves(stack, s, ip, intr, regs, Len(stack))
  BY <1>1, InStub
<1>3. ip[2] = v /\ regs = s.regs /\ v \in Vectors
  BY <1>1, <1>2 DEF Serves, Interrupted
<1>4. v \notin CpuPushesError => s.error = 0
  BY <1>2 DEF Inv, ErrorCodes
<1>5. /\ Push(w) /\ ip' = <<"pusha", v>> /\ intr' = 0
      /\ UNCHANGED <<interrupt_handlers, regs, masked, saved>>
  BY <1>3 DEF Entry, Stub, Goto
<1>6. CpuPushesError = ISR_ERRCODE
  BY DEF CpuPushesError, ISR_ERRCODE
<1> DEFINE a == <<"err_code", 0>>
           b == <<"int_no", v>>
<1>7. a \in Words /\ b \in Words
  <2>1. v \in Nat
    <3> HIDE DEF v
    <3> QED
      BY <1>3, PlaceIsWord
  <2> QED
    BY <2>1 DEF Words
<1>8. Frame(s)[4] = <<"err_code", s.error>> /\ Frame(s)[5] = b
  BY DEF Frame
<1>9. /\ w \in Seq(Words) /\ Depth("pusha", v) = Depth("entry", v) + Len(w)
      /\ \A i \in 1..Len(w) : w[i] = Frame(s)[Depth("entry", v) + i]
  <2> HIDE DEF v, a, b
  <2>1. << >> \o <<b>> = <<b>> /\ <<a>> \o <<b>> = <<a, b>>
    BY <1>7, Joined
  <2>2. CASE v \in CpuPushesError
    <3>1. w = <<b>>
      BY <1>6, <2>1, <2>2 DEF b
    <3>2. Depth("pusha", v) = 5 /\ Depth("entry", v) = 4
      BY <2>2 DEF Depth
    <3> HIDE DEF w
    <3> QED
      BY <1>7, <1>8, <3>1, <3>2
  <2>3. CASE v \notin CpuPushesError
    <3>1. w = <<a, b>>
      BY <1>6, <2>1, <2>3 DEF a, b
    <3>2. Depth("pusha", v) = 5 /\ Depth("entry", v) = 3
      BY <2>3 DEF Depth
    <3>3. Frame(s)[4] = a
      BY <1>4, <1>8, <2>3 DEF a, v
    <3> HIDE DEF w
    <3> QED
      BY <1>7, <1>8, <3>1, <3>2, <3>3
  <2> QED
    BY <2>2, <2>3
<1> HIDE DEF w
<1> QED
  <2>1. "pusha" \in StubSteps /\ ip[1] # "thread"
    BY <1>1 DEF StubSteps
  <2>2. regs' \in [Registers -> Values] /\ masked' \in BOOLEAN /\ regs' = s.regs
    BY <1>3, <1>5 DEF Inv, Types
  <2> QED
    BY <1>1, <1>5, <1>9, <2>1, <2>2, StubPushInv

\* The interrupt on top, at a step of its stub.
LEMMA AtStep ==
    ASSUME Inv, NEW step \in StubSteps, Stub(step), NEW s, s = saved[Len(saved)]
    PROVE  /\ s \in Interrupted /\ Len(saved) \in Nat \ {0} /\ s.esp \in Nat
           /\ s.vector \in Vectors /\ s.vector \in Nat /\ s.regs \in [Registers -> Values]
           /\ ip[1] = step /\ ip[1] # "thread" /\ ip[2] = s.vector /\ intr = 0
           /\ Serves(stack, s, ip, intr, regs, Len(stack))
           /\ regs \in [Registers -> Values] /\ masked \in BOOLEAN
           /\ interrupt_handlers' = interrupt_handlers
<1>1. ip[1] = step /\ ip[1] # "thread" /\ interrupt_handlers' = interrupt_handlers
  BY DEF Stub, StubSteps
<1>2. /\ s \in Interrupted /\ Len(saved) \in Nat \ {0} /\ intr = 0
      /\ Serves(stack, s, ip, intr, regs, Len(stack))
  BY <1>1, InStub
<1>3. s.vector \in Vectors /\ s.esp \in Nat /\ s.regs \in [Registers -> Values]
  BY <1>2 DEF Interrupted
<1>4. s.vector \in Nat
  <2>1. Vectors \subseteq Nat
    BY PlaceIsWord
  <2> QED
    BY <1>3, <2>1
<1>5. ip[2] = s.vector
  BY <1>2 DEF Serves
<1> QED
  BY <1>1, <1>2, <1>3, <1>4, <1>5 DEF Inv, Types

\* The words of pusha are those of a frame from the sixth on.
LEMMA PushaWords ==
    ASSUME NEW w, NEW f,
           f[6] = w[1], f[7] = w[2], f[8] = w[3], f[9] = w[4],
           f[10] = w[5], f[11] = w[6], f[12] = w[7], f[13] = w[8],
           NEW i \in 1..8
    PROVE  w[i] = f[5 + i]
<1>1. i = 1 \/ i = 2 \/ i = 3 \/ i = 4 \/ i = 5 \/ i = 6 \/ i = 7 \/ i = 8
  <2>1. i \in Int /\ 1 <= i /\ i <= 8
    OBVIOUS
  <2> QED
    BY <2>1
<1>2. /\ 5 + 1 = 6 /\ 5 + 2 = 7 /\ 5 + 3 = 8 /\ 5 + 4 = 9
      /\ 5 + 5 = 10 /\ 5 + 6 = 11 /\ 5 + 7 = 12 /\ 5 + 8 = 13
  OBVIOUS
<1>3. CASE i = 1
  BY <1>2, <1>3, Zenon
<1>4. CASE i = 2
  BY <1>2, <1>4, Zenon
<1>5. CASE i = 3
  BY <1>2, <1>5, Zenon
<1>6. CASE i = 4
  BY <1>2, <1>6, Zenon
<1>7. CASE i = 5
  BY <1>2, <1>7, Zenon
<1>8. CASE i = 6
  BY <1>2, <1>8, Zenon
<1>9. CASE i = 7
  BY <1>2, <1>9, Zenon
<1>10. CASE i = 8
  BY <1>2, <1>10, Zenon
<1> QED
  BY <1>1, <1>3, <1>4, <1>5, <1>6, <1>7, <1>8, <1>9, <1>10, Zenon

\* pusha: the registers are still those of the code that was interrupted.
LEMMA PushRegistersInv == Inv /\ PushRegisters => Inv'
<1> SUFFICES ASSUME Inv, PushRegisters, NEW s, s = saved[Len(saved)] PROVE Inv'
  OBVIOUS
<1> DEFINE w == [i \in 1..8 |->
                   IF Pusha[i] = "esp" THEN <<"esp", Len(stack)>> ELSE regs[Pusha[i]]]
<1>1. Stub("pusha") /\ "pusha" \in StubSteps /\ "push ds" \in StubSteps
  BY DEF PushRegisters, StubSteps
<1>2. /\ s.esp \in Nat /\ ip[1] = "pusha" /\ ip[2] = s.vector /\ intr = 0
      /\ regs \in [Registers -> Values] /\ masked \in BOOLEAN
      /\ interrupt_handlers' = interrupt_handlers
  BY <1>1, AtStep
<1>3. Len(stack) = s.esp + 5 /\ regs = s.regs
  BY <1>1, AtStep DEF Serves, Depth
<1>4. /\ Push(w) /\ ip' = <<"push ds", s.vector>> /\ intr' = 0
      /\ regs' = regs /\ masked' = masked /\ saved' = saved
  BY <1>2 DEF PushRegisters, Goto
<1>5. /\ w[1] = regs["eax"] /\ w[2] = regs["ecx"] /\ w[3] = regs["edx"]
      /\ w[4] = regs["ebx"] /\ w[5] = <<"esp", s.esp + 5>> /\ w[6] = regs["ebp"]
      /\ w[7] = regs["esi"] /\ w[8] = regs["edi"]
  BY <1>3, Layout
<1>6. w \in Seq(Words) /\ Len(w) = 8
  <2>1. Values \subseteq Words /\ <<"esp", s.esp + 5>> \in Words
    <3>1. s.esp + 5 \in Nat
      BY <1>2
    <3> QED
      BY <3>1 DEF Values, Words
  <2>2. \A r \in Registers : regs[r] \in Words
    BY <1>2, <2>1
  <2>3. \A i \in 1..8 : w[i] \in Words
    <3>1. \A i \in 1..8 : i \in {1, 2, 3, 4, 5, 6, 7, 8}
      OBVIOUS
    <3> HIDE DEF w
    <3> QED
      BY <1>5, <2>1, <2>2, <3>1, RegisterNames
  <2>4. w = [i \in 1..8 |-> w[i]]
    OBVIOUS
  <2> HIDE DEF w
  <2>5. w \in [1..8 -> Words]
    BY <2>3, <2>4
  <2>6. w \in Seq(Words)
    BY <2>5, SeqDef
  <2>7. Len(w) \in Nat /\ DOMAIN w = 1..Len(w)
    BY <2>6, LenProperties
  <2>8. \A i : i \in 1..Len(w) <=> i \in 1..8
    BY <2>5, <2>7
  <2>9. Len(w) = 8
    <3>1. 8 \in 1..Len(w) /\ Len(w) \in 1..Len(w)
      BY <2>7, <2>8
    <3>2. Len(w) \in 1..8
      BY <2>8, <3>1
    <3> DEFINE n == Len(w)
    <3>3. n \in Nat /\ 8 \in 1..n /\ n \in 1..8
      BY <2>7, <3>1, <3>2
    <3> HIDE DEF n
    <3>4. n = 8
      BY <3>3
    <3> QED
      BY <3>4 DEF n
  <2> QED
    BY <2>6, <2>9
<1> HIDE DEF w
<1>7. \A i \in 1..Len(w) : w[i] = Frame(s)[5 + i]
  <2> SUFFICES ASSUME NEW i \in 1..Len(w) PROVE w[i] = Frame(s)[5 + i]
    OBVIOUS
  <2> DEFINE n == Len(w)
  <2>1. i \in 1..n /\ n = 8
    BY <1>6
  <2> HIDE DEF n
  <2>2. i \in 1..8
    BY <2>1
  <2>3. /\ Frame(s)[6] = w[1] /\ Frame(s)[7] = w[2] /\ Frame(s)[8] = w[3]
        /\ Frame(s)[9] = w[4] /\ Frame(s)[10] = w[5] /\ Frame(s)[11] = w[6]
        /\ Frame(s)[12] = w[7] /\ Frame(s)[13] = w[8]
    BY <1>3, <1>5 DEF Frame
  <2> QED
    BY <2>2, <2>3, PushaWords, Zenon
<1>8. Depth("pusha", s.vector) = 5 /\ Depth("push ds", s.vector) = 13
  BY DEF Depth
<1>9. regs' \in [Registers -> Values] /\ regs' = s.regs /\ masked' \in BOOLEAN
  BY <1>2, <1>3, <1>4
<1>10. ip[1] # "thread"
  BY <1>2
<1>11. /\ Depth("push ds", s.vector) = Depth(ip[1], s.vector) + Len(w)
      /\ \A i \in 1..Len(w) : w[i] = Frame(s)[Depth(ip[1], s.vector) + i]
  <2>1. ip[1] = "pusha"
    BY <1>2
  <2>2. Depth(ip[1], s.vector) = 5 /\ Depth("push ds", s.vector) = 13 /\ Len(w) = 8
    BY <1>6, <1>8, <2>1
  <2>3. 13 = 5 + 8
    OBVIOUS
  <2>4. Depth("push ds", s.vector) = Depth(ip[1], s.vector) + Len(w)
    BY <2>2, <2>3
  <2> QED
    BY <1>7, <2>2, <2>4
<1> QED
  BY <1>1, <1>2, <1>4, <1>6, <1>9, <1>10, <1>11, StubPushInv

\* push ds.
LEMMA PushSegmentInv == Inv /\ PushSegment => Inv'
<1> SUFFICES ASSUME Inv, PushSegment, NEW s, s = saved[Len(saved)] PROVE Inv'
  OBVIOUS
<1> DEFINE w == << <<"ds", 16>> >>
<1>1. Stub("push ds") /\ "push ds" \in StubSteps /\ "call" \in StubSteps
  BY DEF PushSegment, StubSteps
<1>2. /\ ip[1] = "push ds" /\ ip[2] = s.vector /\ intr = 0
      /\ regs \in [Registers -> Values] /\ masked \in BOOLEAN
      /\ interrupt_handlers' = interrupt_handlers
  BY <1>1, AtStep
<1>3. /\ Push(w) /\ ip' = <<"call", s.vector>> /\ intr' = 0
      /\ regs' = [regs EXCEPT !.eax = <<"ds", 16>>] /\ masked' = masked /\ saved' = saved
  BY <1>2 DEF PushSegment, Goto
<1>4. regs' \in [Registers -> Values]
  <2>1. <<"ds", 16>> \in Values
    BY DEF Values
  <2> QED
    BY <1>2, <1>3, <2>1
<1>5. w \in Seq(Words) /\ Len(w) = 1 /\ w[1] = Frame(s)[14]
  BY DEF Words, Frame
<1> HIDE DEF w
<1>6. Depth("push ds", s.vector) = 13 /\ Depth("call", s.vector) = 14
  BY DEF Depth
<1>7. \A i \in 1..Len(w) : w[i] = Frame(s)[13 + i]
  <2>1. \A i \in 1..Len(w) : i = 1
    BY <1>5
  <2> QED
    BY <1>5, <2>1
<1>8. "call" \notin {"entry", "pusha", "iret"} /\ ip[1] # "thread" /\ masked' \in BOOLEAN
  BY <1>2, <1>3
<1>9. /\ Depth("call", s.vector) = Depth(ip[1], s.vector) + Len(w)
      /\ \A i \in 1..Len(w) : w[i] = Frame(s)[Depth(ip[1], s.vector) + i]
  <2>1. ip[1] = "push ds"
    BY <1>2
  <2>2. Depth(ip[1], s.vector) = 13 /\ Depth("call", s.vector) = 14 /\ Len(w) = 1
    BY <1>5, <1>6, <2>1
  <2>3. 14 = 13 + 1
    OBVIOUS
  <2>4. Depth("call", s.vector) = Depth(ip[1], s.vector) + Len(w)
    BY <2>2, <2>3
  <2> QED
    BY <1>7, <2>2, <2>4
<1> QED
  <2>1. w \in Seq(Words)
    BY <1>5
  <2>2. Push(w) /\ ip' = <<"call", s.vector>> /\ intr' = 0 /\ saved' = saved
        /\ interrupt_handlers' = interrupt_handlers /\ "call" \in StubSteps
    BY <1>1, <1>2, <1>3
  <2> QED
    BY <1>4, <1>8, <1>9, <2>1, <2>2, StubPushInv

\* push esp, call.
LEMMA CallHandlerInv == Inv /\ CallHandler => Inv'
<1> SUFFICES ASSUME Inv, CallHandler, NEW s, s = saved[Len(saved)] PROVE Inv'
  OBVIOUS
<1> DEFINE w == << <<"esp", Len(stack)>>, <<"unwind", s.vector>> >>
<1>1. Stub("call") /\ "call" \in StubSteps /\ "handler" \in StubSteps
  BY DEF CallHandler, StubSteps
<1>2. /\ s.esp \in Nat /\ ip[1] = "call" /\ ip[2] = s.vector /\ intr = 0
      /\ regs \in [Registers -> Values] /\ masked \in BOOLEAN
      /\ s.vector \in Nat /\ interrupt_handlers' = interrupt_handlers
  BY <1>1, AtStep
<1>3. Len(stack) = s.esp + 14
  BY <1>1, AtStep DEF Serves, Depth
<1>4. /\ Push(w) /\ ip' = <<"handler", s.vector>> /\ intr' = 0
      /\ regs' = regs /\ masked' = masked /\ saved' = saved
  BY <1>2 DEF CallHandler, Goto
<1>5. w \in Seq(Words) /\ Len(w) = 2
  <2>1. Len(stack) \in Nat
    BY <1>2, <1>3
  <2>2. <<"esp", Len(stack)>> \in Words /\ <<"unwind", s.vector>> \in Words
    BY <1>2, <2>1 DEF Words, Steps
  <2> QED
    BY <2>2
<1>6. w[1] = Frame(s)[15] /\ w[2] = Frame(s)[16]
  BY <1>3 DEF Frame
<1> HIDE DEF w
<1>7. Depth("call", s.vector) = 14 /\ Depth("handler", s.vector) = 16
  BY DEF Depth
<1>8. \A i \in 1..Len(w) : w[i] = Frame(s)[14 + i]
  <2>1. \A i \in 1..Len(w) : i \in {1, 2}
    BY <1>5
  <2> QED
    BY <1>6, <2>1
<1>9. "handler" \notin {"entry", "pusha", "iret"} /\ ip[1] # "thread"
      /\ masked' \in BOOLEAN /\ regs' \in [Registers -> Values]
  BY <1>2, <1>4
<1>10. /\ Depth("handler", s.vector) = Depth(ip[1], s.vector) + Len(w)
      /\ \A i \in 1..Len(w) : w[i] = Frame(s)[Depth(ip[1], s.vector) + i]
  <2>1. ip[1] = "call"
    BY <1>2
  <2>2. Depth(ip[1], s.vector) = 14 /\ Depth("handler", s.vector) = 16 /\ Len(w) = 2
    BY <1>5, <1>7, <2>1
  <2>3. 16 = 14 + 2
    OBVIOUS
  <2>4. Depth("handler", s.vector) = Depth(ip[1], s.vector) + Len(w)
    BY <2>2, <2>3
  <2> QED
    BY <1>8, <2>2, <2>4
<1> QED
  BY <1>1, <1>2, <1>4, <1>5, <1>9, <1>10, StubPushInv

\* A word of the frame on top, n words below the last one.
LEMMA FrameWord ==
    ASSUME NEW s \in Interrupted, Serves(stack, s, ip, intr, regs, Len(stack)),
           NEW d \in Nat, d = Depth(ip[1], s.vector), NEW n \in 0..d - 1
    PROVE  Word(n) = Frame(s)[d - n] /\ Len(stack) = s.esp + d
<1>1. s.esp \in Nat
  BY DEF Interrupted
<1>2. Len(stack) = s.esp + d /\ \A k \in 1..d : stack[s.esp + k] = Frame(s)[k]
  BY DEF Serves
<1>3. d - n \in 1..d /\ (s.esp + d) - n = s.esp + (d - n)
  BY <1>1
<1>4. stack[s.esp + (d - n)] = Frame(s)[d - n]
  BY <1>2, <1>3
<1>5. Word(n) = stack[s.esp + (d - n)]
  BY <1>2, <1>3 DEF Word
<1> QED
  BY <1>2, <1>4, <1>5

\* page_fault() stays where it is, every other handler returns to its stub.
LEMMA HandleInv == Inv /\ Handle => Inv'
<1> SUFFICES ASSUME Inv, Handle, NEW s, s = saved[Len(saved)] PROVE Inv'
  OBVIOUS
<1>1. /\ Stub("handler") /\ "handler" \in StubSteps /\ "unwind" \in StubSteps
      /\ "page_fault" \in StubSteps
  BY DEF Handle, StubSteps
<1>2. /\ s.esp \in Nat /\ ip[1] = "handler" /\ ip[2] = s.vector /\ intr = 0
      /\ regs \in [Registers -> Values] /\ masked \in BOOLEAN
      /\ s \in Interrupted /\ interrupt_handlers' = interrupt_handlers
      /\ Serves(stack, s, ip, intr, regs, Len(stack))
  BY <1>1, AtStep
<1>3. /\ intr' = 0 /\ masked' \in BOOLEAN /\ saved' = saved
      /\ UNCHANGED <<interrupt_handlers, saved>> /\ ip[1] # "thread"
  BY <1>2 DEF Handle
<1>4. regs' \in [Registers -> Values]
  <2>1. regs' = [r \in Registers |->
                   IF r \in {"eax", "ecx", "edx"} THEN <<"c", 0>> ELSE regs[r]]
    BY DEF Handle
  <2>2. <<"c", 0>> \in Values
    BY DEF Values
  <2> QED
    BY <1>2, <2>1, <2>2
<1>5. Depth("handler", s.vector) = 16 /\ Depth("unwind", s.vector) = 15
      /\ Depth("page_fault", s.vector) = 16
  BY DEF Depth
<1>6. \/ ip' = Word(0) /\ stack' = Popped(1)
      \/ ip' = <<"page_fault", s.vector>> /\ stack' = stack
  BY <1>2 DEF Handle, AfterPageFault, Goto
<1>7. CASE ip' = Word(0) /\ stack' = Popped(1)
  <2>1. Word(0) = Frame(s)[16]
    BY <1>2, <1>5, FrameWord
  <2>2. ip' = <<"unwind", s.vector>>
    BY <1>7, <2>1 DEF Frame
  <2>3. Depth(ip[1], s.vector) = Depth("unwind", s.vector) + 1
    BY <1>2, <1>5
  <2>4. "unwind" \notin {"entry", "pusha", "iret"} /\ 1 \in Nat
    OBVIOUS
  <2> QED
    BY <1>1, <1>3, <1>4, <1>7, <2>2, <2>3, <2>4, StubPopInv
<1>8. CASE ip' = <<"page_fault", s.vector>> /\ stack' = stack
  <2>1. stack' \in Seq(Words) /\ \A k \in 1..Len(stack') : stack'[k] = stack[k]
    BY <1>8 DEF Inv, Types
  <2>2. Len(stack') = s.esp + Depth("page_fault", s.vector)
    <3>1. Len(stack) = s.esp + 16
      BY <1>2, <1>5 DEF Serves
    <3> QED
      BY <1>5, <1>8, <3>1
  <2>3. \A k \in 1..Depth("page_fault", s.vector) : ~(k > Depth(ip[1], s.vector))
    BY <1>2, <1>5
  <2>4. "page_fault" \notin {"entry", "pusha", "iret"}
    OBVIOUS
  <2> QED
    BY <1>1, <1>3, <1>4, <1>8, <2>1, <2>2, <2>3, <2>4, StubMoveInv
<1> QED
  BY <1>6, <1>7, <1>8

\* add esp, 4; pop ebx.
LEMMA UnwindInv == Inv /\ Unwind => Inv'
<1> SUFFICES ASSUME Inv, Unwind, NEW s, s = saved[Len(saved)] PROVE Inv'
  OBVIOUS
<1>1. Stub("unwind") /\ "unwind" \in StubSteps /\ "popa" \in StubSteps
  BY DEF Unwind, StubSteps
<1>2. /\ s.esp \in Nat /\ ip[1] = "unwind" /\ ip[2] = s.vector /\ intr = 0
      /\ regs \in [Registers -> Values] /\ masked \in BOOLEAN
      /\ s \in Interrupted /\ interrupt_handlers' = interrupt_handlers
      /\ Serves(stack, s, ip, intr, regs, Len(stack))
  BY <1>1, AtStep
<1>3. /\ intr' = 0 /\ masked' \in BOOLEAN /\ saved' = saved
      /\ UNCHANGED <<interrupt_handlers, saved>> /\ ip[1] # "thread"
      /\ ip' = <<"popa", s.vector>> /\ stack' = Popped(2)
  BY <1>2 DEF Unwind, Goto
<1>4. Depth("unwind", s.vector) = 15 /\ Depth("popa", s.vector) = 13
  BY DEF Depth
<1>5. regs' \in [Registers -> Values]
  <2>1. Word(1) = Frame(s)[14]
    BY <1>2, <1>4, FrameWord
  <2>2. Word(1) \in Values
    BY <2>1 DEF Frame, Values
  <2>3. regs' = [regs EXCEPT !.ebx = Word(1)]
    BY DEF Unwind
  <2> QED
    BY <1>2, <2>2, <2>3
<1>6. Depth(ip[1], s.vector) = Depth("popa", s.vector) + 2
  BY <1>2, <1>4
<1>7. "popa" \notin {"entry", "pusha", "iret"} /\ 2 \in Nat
  OBVIOUS
<1> QED
  BY <1>1, <1>3, <1>5, <1>6, <1>7, StubPopInv

\* popa.
LEMMA PopRegistersInv == Inv /\ PopRegisters => Inv'
<1> SUFFICES ASSUME Inv, PopRegisters, NEW s, s = saved[Len(saved)] PROVE Inv'
  OBVIOUS
<1>1. Stub("popa") /\ "popa" \in StubSteps /\ "iret" \in StubSteps
  BY DEF PopRegisters, StubSteps
<1>2. /\ s.esp \in Nat /\ ip[1] = "popa" /\ ip[2] = s.vector /\ intr = 0
      /\ s.regs \in [Registers -> Values] /\ masked \in BOOLEAN
      /\ s \in Interrupted /\ interrupt_handlers' = interrupt_handlers
      /\ Serves(stack, s, ip, intr, regs, Len(stack))
  BY <1>1, AtStep
<1>3. /\ intr' = 0 /\ masked' \in BOOLEAN /\ saved' = saved
      /\ UNCHANGED <<interrupt_handlers, saved>> /\ ip[1] # "thread"
      /\ ip' = <<"iret", s.vector>> /\ stack' = Popped(8)
  BY <1>2 DEF PopRegisters, Goto
<1>4. Depth("popa", s.vector) = 13 /\ Depth("iret", s.vector) = 5
  BY DEF Depth
<1> DEFINE at(r) == CHOOSE i \in 1..8 : Popa[i] = r
<1>5. /\ at("edi") = 1 /\ at("esi") = 2 /\ at("ebp") = 3 /\ at("ebx") = 5
      /\ at("edx") = 6 /\ at("ecx") = 7 /\ at("eax") = 8
  <2> DEFINE Names == <<"edi", "esi", "ebp", "esp", "ebx", "edx", "ecx", "eax">>
  <2>1. \A i, k \in 1..8 : Names[i] = Names[k] => i = k
    OBVIOUS
  <2>2. Popa = Names
    BY Layout
  <2> HIDE DEF Names
  <2>3. \A k \in 1..8 : at(Popa[k]) = k
    BY <2>1, <2>2
  <2>4. /\ Popa[1] = "edi" /\ Popa[2] = "esi" /\ Popa[3] = "ebp" /\ Popa[5] = "ebx"
        /\ Popa[6] = "edx" /\ Popa[7] = "ecx" /\ Popa[8] = "eax"
    BY Layout
  <2> HIDE DEF at
  <2> QED
    BY <2>3, <2>4
<1>6. \A n \in 0..12 : Word(n) = Frame(s)[13 - n]
  BY <1>2, <1>4, FrameWord
<1>7. /\ Word(0) = s.regs["edi"] /\ Word(1) = s.regs["esi"] /\ Word(2) = s.regs["ebp"]
      /\ Word(4) = s.regs["ebx"] /\ Word(5) = s.regs["edx"] /\ Word(6) = s.regs["ecx"]
      /\ Word(7) = s.regs["eax"]
  BY <1>6 DEF Frame
<1>8. regs' = [r \in Registers |-> Word(at(r) - 1)]
  BY DEF PopRegisters
<1> HIDE DEF at
<1>9. \A r \in Registers : Word(at(r) - 1) = s.regs[r]
  BY <1>5, <1>7, RegisterNames
<1>10. regs' = s.regs /\ regs' \in [Registers -> Values]
  BY <1>2, <1>8, <1>9
<1>11. Depth(ip[1], s.vector) = Depth("iret", s.vector) + 8
  BY <1>2, <1>4
<1>12. 8 \in Nat
  OBVIOUS
<1> QED
  BY <1>1, <1>3, <1>10, <1>11, <1>12, StubPopInv

\* add esp, 8; iret: everything is again what it was.
LEMMA IretRestores ==
    ASSUME Inv, Iret, NEW s, s = saved[Len(saved)]
    PROVE  /\ regs' = s.regs /\ intr' = s.intr /\ ip' = s.ip /\ Len(stack') = s.esp
           /\ stack' \in Seq(Words) /\ \A i \in 1..s.esp : stack'[i] = stack[i]
           /\ saved' \in Seq(Interrupted) /\ Len(saved') = Len(saved) - 1
           /\ \A i \in 1..Len(saved) - 1 : saved'[i] = saved[i]
           /\ interrupt_handlers' = interrupt_handlers /\ masked' = FALSE /\ ip[1] = "iret"
<1>1. Stub("iret") /\ "iret" \in StubSteps
  BY DEF Iret, StubSteps
<1>2. /\ s.esp \in Nat /\ ip[1] = "iret" /\ s \in Interrupted
      /\ Len(saved) \in Nat \ {0} /\ interrupt_handlers' = interrupt_handlers
      /\ Serves(stack, s, ip, intr, regs, Len(stack))
  BY <1>1, AtStep
<1>3. Depth(ip[1], s.vector) = 5 /\ regs = s.regs
  BY <1>2 DEF Depth, Serves
<1>4. \A n \in 0..4 : Word(n) = Frame(s)[5 - n]
  BY <1>2, <1>3, FrameWord
<1>5. Word(2) = s.ip /\ Word(4) = <<"eflags", s.intr>>
  BY <1>4 DEF Frame
<1>6. regs' = s.regs /\ intr' = s.intr /\ ip' = s.ip
  BY <1>3, <1>5 DEF Iret
<1>7. Len(stack) = s.esp + 5
  BY <1>2, <1>3 DEF Serves
<1>8. 5 \in 0..Len(stack) /\ Len(stack) - 5 = s.esp
  BY <1>2, <1>7
<1>9. stack' = Popped(5) /\ stack \in Seq(Words)
  BY DEF Iret, Inv, Types
<1>10. /\ Len(stack') = s.esp /\ stack' \in Seq(Words)
       /\ \A i \in 1..s.esp : stack'[i] = stack[i]
  BY <1>8, <1>9, PopWords
<1>11. /\ saved' \in Seq(Interrupted) /\ Len(saved') = Len(saved) - 1
       /\ \A i \in 1..Len(saved) - 1 : saved'[i] = saved[i]
  <2>1. saved' = SubSeq(saved, 1, Len(saved) - 1)
    BY DEF Iret, Front
  <2>2. saved \in Seq(Interrupted)
    BY DEF Inv, Types
  <2>3. \A i \in 1..Len(saved) - 1 : saved[i] \in Interrupted
    BY <1>2, <2>2, ElementOfSeq
  <2> DEFINE n == Len(saved) - 1
  <2>4. n \in Nat /\ \A i \in 1..n : saved[i] \in Interrupted
    BY <1>2, <2>3
  <2>5. saved' = SubSeq(saved, 1, n)
    BY <2>1
  <2> HIDE DEF n
  <2>6. /\ saved' \in Seq(Interrupted) /\ Len(saved') = n
        /\ \A i \in 1..n : saved'[i] = saved[i]
    BY <2>2, <2>4, <2>5, SubSeqProperties
  <2> QED
    BY <2>6 DEF n
<1> QED
  BY <1>2, <1>6, <1>10, <1>11 DEF Iret

LEMMA IretInv == Inv /\ Iret => Inv'
<1> SUFFICES ASSUME Inv, Iret, NEW s, s = saved[Len(saved)] PROVE Inv'
  OBVIOUS
<1> DEFINE n == Len(saved)
<1>1. /\ regs' = s.regs /\ intr' = s.intr /\ ip' = s.ip /\ Len(stack') = s.esp
      /\ stack' \in Seq(Words) /\ \A i \in 1..s.esp : stack'[i] = stack[i]
      /\ saved' \in Seq(Interrupted) /\ Len(saved') = n - 1
      /\ \A i \in 1..n - 1 : saved'[i] = saved[i]
      /\ interrupt_handlers' = interrupt_handlers /\ masked' = FALSE /\ ip[1] = "iret"
  BY IretRestores
<1>2. n \in Nat \ {0} /\ s \in Interrupted /\ s = saved[n]
  BY <1>1, InStub
<1>3. Types'
  BY <1>1, <1>2 DEF Inv, Types, Interrupted
<1>4. ASSUME NEW i \in 1..n - 1
      PROVE  /\ saved[i] \in Interrupted /\ saved[i + 1].esp \in Nat
             /\ saved[i + 1].esp <= s.esp
  <2>1. i \in 1..n /\ i + 1 \in 1..n /\ i + 1 <= n /\ n \in 1..n
    <3>1. n \in Nat \ {0}
      BY <1>2
    <3> HIDE DEF n
    <3> QED
      BY <3>1
  <2>2. saved[i] \in Interrupted /\ saved[i + 1] \in Interrupted
    BY <2>1, ElementOfSeq DEF Inv, Types
  <2> QED
    BY <1>2, <2>1, <2>2 DEF Inv, Nested, Interrupted
<1>5. ASSUME NEW i \in 1..n - 1
      PROVE  Serves(stack', saved[i], saved[i + 1].ip, saved[i + 1].intr,
                    saved[i + 1].regs, saved[i + 1].esp)
  <2>1. Serves(stack, saved[i], saved[i + 1].ip, saved[i + 1].intr,
               saved[i + 1].regs, saved[i + 1].esp)
    BY DEF Inv, Chain
  <2>2. s.esp \in Nat
    BY <1>2 DEF Interrupted
  <2>3. \A j \in 1..saved[i + 1].esp : stack'[j] = stack[j]
    BY <1>1, <1>4, <2>2
  <2> QED
    BY <1>4, <2>1, <2>3, FrameKept
<1>6. InThread(saved[1].ip, saved[1].intr, saved[1].esp)
  BY <1>2 DEF Inv, Chain
<1>7. Chain'
  <2>1. CASE n = 1
    <3>1. Len(saved') = 0 /\ InThread(s.ip, s.intr, s.esp)
      BY <1>1, <1>2, <1>6, <2>1
    <3>2. InThread(ip, intr, Len(stack))'
      BY <1>1, <3>1 DEF InThread
    <3> QED
      BY <3>1, <3>2 DEF Chain
  <2>2. CASE n # 1
    <3>1. Len(saved') = n - 1 /\ n - 1 \in Nat \ {0} /\ n - 1 \in 1..n - 1 /\ (n - 1) + 1 = n
          /\ 1 \in 1..n - 1
      BY <1>1, <1>2, <2>2
    <3>2. Serves(stack', saved[n - 1], s.ip, s.intr, s.regs, s.esp)
      BY <1>2, <1>5, <3>1
    <3>3. Serves(stack', saved'[n - 1], ip', intr', regs', Len(stack'))
      BY <1>1, <3>1, <3>2
    <3>4. InThread(saved[1].ip, saved[1].intr, saved[1].esp)'
      BY <1>1, <1>6, <3>1 DEF InThread
    <3>5. ASSUME NEW i \in 1..Len(saved') - 1
          PROVE  Serves(stack', saved'[i], saved'[i + 1].ip, saved'[i + 1].intr,
                        saved'[i + 1].regs, saved'[i + 1].esp)
      <4>1. i \in 1..n - 1 /\ i + 1 \in 1..n - 1
        BY <1>1, <1>2
      <4>2. saved'[i] = saved[i] /\ saved'[i + 1] = saved[i + 1]
        BY <1>1, <4>1
      <4> QED
        BY <1>5, <4>1, <4>2
    <3> QED
      BY <3>1, <3>3, <3>4, <3>5 DEF Chain
  <2> QED
    BY <2>1, <2>2
<1>8. \A i \in 1..Len(saved') : i \in 1..n /\ saved'[i] = saved[i]
  BY <1>1, <1>2
<1>9. ErrorCodes'
  BY <1>8 DEF Inv, ErrorCodes
<1>10. IrqFirst'
  <2>1. \A i \in 2..Len(saved') : i \in 1..Len(saved') /\ i \in 2..n
    BY <1>1, <1>2
  <2> QED
    BY <1>8, <2>1 DEF Inv, IrqFirst
<1>11. Nested'
  BY <1>8 DEF Inv, Nested
<1> QED
  BY <1>3, <1>7, <1>9, <1>10, <1>11 DEF Inv

\* A line interrupts nothing but kern_init.
LEMMA IrqInThread == Inv /\ intr = 1 => ip[1] = "thread" /\ Len(saved) = 0
BY InStub, NoneInThread

LEMMA NextInv == Inv /\ [Next]_vars => Inv'
<1> SUFFICES ASSUME Inv, [Next]_vars PROVE Inv'
  OBVIOUS
<1>1. CASE Statement
  BY <1>1, StatementInv
<1>2. ASSUME NEW v \in Faults, NEW e \in Errors, Fault(v, e) PROVE Inv'
  <2>1. v \in Vectors /\ v \notin Irqs /\ e \in Errors \cup {0}
    BY PlaceIsWord DEF Vectors
  <2>2. Deliver(v, e) /\ masked' \in BOOLEAN
    BY <1>2 DEF Fault, Inv, Types
  <2> QED
    BY <2>1, <2>2, DeliverInv
<1>3. CASE Nmi
  <2>1. NMI \in Vectors /\ NMI \notin Irqs /\ 0 \in Errors \cup {0}
    BY PlaceIsWord DEF Vectors
  <2>2. Deliver(NMI, 0) /\ masked' \in BOOLEAN
    BY <1>3 DEF Nmi
  <2> QED
    BY <2>1, <2>2, DeliverInv
<1>4. ASSUME NEW v \in Irqs, Irq(v) PROVE Inv'
  <2>1. v \in Vectors /\ 0 \in Errors \cup {0}
    BY DEF Vectors
  <2>2. Deliver(v, 0) /\ masked' \in BOOLEAN /\ Len(saved) = 0
    BY <1>4, IrqInThread DEF Irq, Inv, Types
  <2> QED
    BY <2>1, <2>2, DeliverInv
<1>5. CASE UNCHANGED vars
  <2>1. /\ interrupt_handlers' = interrupt_handlers /\ stack' = stack /\ regs' = regs
        /\ intr' = intr /\ masked' = masked /\ ip' = ip /\ saved' = saved
    BY <1>5 DEF vars
  <2>2. Types'
    BY <2>1, Zenon DEF Inv, Types
  <2>3. Chain'
    BY <2>1, Zenon DEF Inv, Chain, InThread
  <2>4. ErrorCodes' /\ IrqFirst' /\ Nested'
    BY <2>1, Zenon DEF Inv, ErrorCodes, IrqFirst, Nested
  <2> QED
    BY <2>2, <2>3, <2>4 DEF Inv
<1>6. CASE Loop
  BY <1>5, <1>6 DEF Loop
<1> QED
  BY <1>1, <1>2, <1>3, <1>4, <1>5, <1>6, EntryInv, PushRegistersInv, PushSegmentInv,
     CallHandlerInv, HandleInv, UnwindInv, PopRegistersInv, IretInv DEF Next

LEMMA Invariance == Spec => []Inv
BY InitInv, NextInv, PTL DEF Spec

-----------------------------------------------------------------------------
(* What follows from the invariant. *)

\* Interrupt code never meets an unexpected interrupt, nor thread code a
\* missing handler: of all frames on the stack only the lowest can be that of
\* a line, since the gates clear IF, and IF is set last in kern_init.
THEOREM InterruptsStaySound == Spec => []InterruptsSound
<1>1. Inv => InterruptsSound
  <2> SUFFICES ASSUME Inv PROVE InterruptsSound
    OBVIOUS
  <2>1. TypeOK
    <3>1. ip[1] \in Steps /\ ip[2] \in IF ip[1] = "thread" THEN 1..LoopEnd ELSE Vectors
      BY DEF Inv, Types, Places, StubSteps, Steps
    <3>2. ip[1] = "thread" => stack = << >>
      <4> SUFFICES ASSUME ip[1] = "thread" PROVE stack = << >>
        OBVIOUS
      <4>1. Len(stack) = 0 /\ stack \in Seq(Words)
        BY NoneInThread DEF InThread, Inv, Types
      <4> QED
        BY <4>1, EmptySeq
    <3> QED
      BY <3>1, <3>2 DEF Inv, Types, Values, TypeOK
  <2>2. OneIrqAtATime
    <3> SUFFICES ASSUME NEW i \in 1..Len(saved), NEW j \in 1..Len(saved),
                        saved[i].vector \in Irqs, saved[j].vector \in Irqs
                 PROVE  i = j
      BY DEF OneIrqAtATime
    <3>1. Len(saved) \in Nat
      BY LenProperties DEF Inv, Types
    <3>2. i \notin 2..Len(saved) /\ j \notin 2..Len(saved)
      BY DEF Inv, IrqFirst
    <3>3. i = 1 /\ j = 1
      BY <3>1, <3>2
    <3> QED
      BY <3>3
  <2>3. HandlersInPlace
    <3> SUFFICES ASSUME ip[1] = "thread", intr = 1
                 PROVE  interrupt_handlers[32] = "timer_callback"
                        /\ interrupt_handlers[14] = "page_fault"
      BY DEF HandlersInPlace
    <3>1. InThread(ip, intr, Len(stack))
      BY NoneInThread
    <3>2. ip[2] \in 1..6 /\ ip[2] > 4
      BY <3>1, PlaceIsWord DEF InThread
    <3> QED
      BY <3>1, <3>2 DEF InThread
  <2> QED
    BY <2>1, <2>2, <2>3 DEF InterruptsSound
<1> QED
  BY <1>1, Invariance, PTL

\* A handler finds in pt_regs what its interrupt interrupted and why, however
\* many other interrupts are on the stack: the CPU, the macros of idt_s.s,
\* pusha and the struct of idt.h agree on where every field is.
THEOREM HandlersReadTheirFrames == Spec => []HandlerReadsItsFrame
<1>1. Inv => HandlerReadsItsFrame
  <2> SUFFICES ASSUME Inv, ip[1] = "handler", NEW s, s = Last(saved)
               PROVE  /\ Field("int_no") = <<"int_no", s.vector>>
                      /\ Field("err_code") = <<"err_code", s.error>>
                      /\ Field("eip") = s.ip
                      /\ Field("eflags") = <<"eflags", s.intr>>
                      /\ \A r \in Registers : Field(r) = s.regs[r]
    BY DEF HandlerReadsItsFrame
  <2>1. s \in Interrupted /\ Serves(stack, s, ip, intr, regs, Len(stack))
    <3>1. s = saved[Len(saved)] /\ ip[1] # "thread"
      BY DEF Last
    <3> QED
      BY <3>1, InStub
  <2>2. \A k \in 1..14 : Field(pt_regs[k]) = Frame(s)[15 - k]
    BY <2>1, FieldAt
  <2>3. /\ pt_regs[2] = "edi" /\ pt_regs[3] = "esi" /\ pt_regs[4] = "ebp"
        /\ pt_regs[6] = "ebx" /\ pt_regs[7] = "edx" /\ pt_regs[8] = "ecx"
        /\ pt_regs[9] = "eax" /\ pt_regs[10] = "int_no" /\ pt_regs[11] = "err_code"
        /\ pt_regs[12] = "eip" /\ pt_regs[14] = "eflags"
    BY Layout
  <2>4. /\ Field("edi") = Frame(s)[13] /\ Field("esi") = Frame(s)[12]
        /\ Field("ebp") = Frame(s)[11] /\ Field("ebx") = Frame(s)[9]
        /\ Field("edx") = Frame(s)[8] /\ Field("ecx") = Frame(s)[7]
        /\ Field("eax") = Frame(s)[6] /\ Field("int_no") = Frame(s)[5]
        /\ Field("err_code") = Frame(s)[4] /\ Field("eip") = Frame(s)[3]
        /\ Field("eflags") = Frame(s)[1]
    BY <2>2, <2>3
  <2> QED
    BY <2>4, RegisterNames DEF Frame
<1> QED
  BY <1>1, Invariance, PTL

\* Every iret of the stubs restores the registers, IF, the stack pointer and
\* the instruction of what was interrupted, even of a stub half way through
\* its pushes.
THEOREM InterruptsAreInvisible == Spec => ResumesWhereInterrupted
<1>1. Inv /\ [Next]_vars =>
        [Iret => LET top == Last(saved)
                 IN  <<regs', intr', ip', Len(stack')>>
                       = <<top.regs, top.intr, top.ip, top.esp>>]_vars
  BY IretRestores DEF Last
<1> QED
  BY <1>1, Invariance, PTL DEF Spec, ResumesWhereInterrupted

\* Only the CPU adds an interrupt, and the ones it had keep what they are.
LEMMA Delivered ==
    ASSUME Inv, NEW v, NEW e, Deliver(v, e)
    PROVE  /\ Len(saved) \in Nat /\ Len(saved') = Len(saved) + 1
           /\ \A i \in 1..Len(saved) : saved'[i] = saved[i]
           /\ Last(saved').vector = v /\ saved'[Len(saved) + 1].ip = ip
<1> DEFINE s == Taken(v, e)
           S == Interrupted \cup {s}
<1>1. saved' = Append(saved, s) /\ s.vector = v /\ s.ip = ip
  BY DEF Deliver, Taken
<1>2. saved \in Seq(S) /\ s \in S
  <2>1. saved \in Seq(Interrupted) /\ Interrupted \subseteq S
    BY DEF Inv, Types
  <2>2. Len(saved) \in Nat /\ \A i \in 1..Len(saved) : saved[i] \in S
    BY <2>1, LenProperties, ElementOfSeq
  <2> QED
    BY <2>1, <2>2, SeqMonotonic
<1> HIDE DEF s, S
<1>3. /\ Len(saved') = Len(saved) + 1 /\ \A i \in 1..Len(saved) : saved'[i] = saved[i]
      /\ saved'[Len(saved) + 1] = s
  BY <1>1, <1>2, AppendProperties
<1>4. Len(saved) \in Nat
  BY <1>2, LenProperties
<1> QED
  BY <1>1, <1>3, <1>4 DEF Last

\* Once page_fault() has been called it is never left, and what interrupts it
\* is no line: the code that faulted, any other thread and the timer are over.
LEMMA StoppedStays ==
    Inv /\ Stopped /\ Next =>
        /\ Stopped'
        /\ Len(saved') > Len(saved) => Last(saved').vector \notin Irqs
<1> SUFFICES ASSUME Inv, Stopped, Next
             PROVE  /\ Stopped'
                    /\ Len(saved') > Len(saved) => Last(saved').vector \notin Irqs
  OBVIOUS
<1> DEFINE n == Len(saved)
<1>1. n \in Nat /\ ip[1] # "thread" /\ intr = 0
  <2>1. n \in Nat
    BY LenProperties DEF Inv, Types
  <2>2. ip[1] # "thread"
    BY NoneInThread DEF Stopped
  <2> QED
    BY <2>1, <2>2, InStub
<1>2. ASSUME NEW v \in Vectors \ Irqs, NEW e, Deliver(v, e)
      PROVE  Stopped' /\ Last(saved').vector \notin Irqs
  <2>1. /\ Len(saved') = n + 1 /\ \A i \in 1..n : saved'[i] = saved[i]
        /\ Last(saved').vector = v /\ saved'[n + 1].ip = ip
    BY <1>2, Delivered
  <2>2. n + 1 \in 1..Len(saved') /\ \A i \in 1..n : i \in 1..Len(saved')
    BY <1>1, <2>1
  <2>3. Stopped'
    BY <2>1, <2>2 DEF Stopped
  <2> QED
    BY <2>1, <2>3
<1>3. CASE Iret
  <2> DEFINE s == saved[n]
  <2>1. /\ ip' = s.ip /\ Len(saved') = n - 1 /\ ip[1] = "iret"
        /\ \A i \in 1..n - 1 : saved'[i] = saved[i]
    BY <1>3, IretRestores
  <2>2. PICK i \in 1..n : saved[i].ip[1] = "page_fault"
    BY <2>1 DEF Stopped
  <2>3. CASE i = n
    BY <1>1, <2>1, <2>2, <2>3 DEF Stopped
  <2>4. CASE i # n
    <3>1. i \in 1..n - 1 /\ i \in 1..Len(saved')
      BY <1>1, <2>1, <2>4
    <3>2. saved'[i].ip[1] = "page_fault"
      BY <2>1, <2>2, <3>1
    <3> QED
      BY <1>1, <2>1, <3>1, <3>2 DEF Stopped
  <2> QED
    BY <2>3, <2>4
<1>4. CASE \E v \in Faults, e \in Errors : Fault(v, e)
  <2>1. PICK v \in Faults, e \in Errors : Fault(v, e)
    BY <1>4
  <2>2. v \in Vectors \ Irqs /\ Deliver(v, e)
    BY <2>1, PlaceIsWord DEF Fault, Vectors
  <2> QED
    BY <1>2, <2>2
<1>5. CASE Nmi
  <2>1. NMI \in Vectors \ Irqs /\ Deliver(NMI, 0)
    BY <1>5, PlaceIsWord DEF Nmi, Vectors
  <2> QED
    BY <1>2, <2>1
<1>6. CASE \E step \in StubSteps \ {"page_fault", "iret"} : Stub(step) /\ saved' = saved
  <2>1. ip[1] # "page_fault" /\ saved' = saved
    BY <1>6 DEF Stub
  <2> QED
    BY <1>1, <2>1 DEF Stopped
<1>7. CASE UNCHANGED vars
  BY <1>1, <1>7 DEF vars, Stopped
<1>8. ~Statement /\ \A v \in Irqs : ~Irq(v)
  BY <1>1 DEF Statement, Irq
<1> QED
  BY <1>3, <1>4, <1>5, <1>6, <1>7, <1>8
  DEF Next, Entry, PushRegisters, PushSegment, CallHandler, Handle, Unwind, PopRegisters,
      Loop, StubSteps

\* A page fault is reported by a handler that does not return.
LEMMA ReportStops == Inv /\ Reports => Stopped' /\ saved' = saved
<1> SUFFICES ASSUME Inv, Reports, NEW s, s = saved[Len(saved)] PROVE Stopped' /\ saved' = saved
  OBVIOUS
<1>1. Handle /\ interrupt_handlers[s.vector] = "page_fault"
  BY DEF Reports, Last
<1>2. s \in Interrupted /\ Serves(stack, s, ip, intr, regs, Len(stack)) /\ ip[1] = "handler"
  <2>1. Stub("handler") /\ "handler" \in StubSteps
    BY <1>1 DEF Handle, StubSteps
  <2> QED
    BY <2>1, AtStep
<1>3. Field("int_no") = <<"int_no", s.vector>>
  <2>1. Field(pt_regs[10]) = Frame(s)[15 - 10]
    BY <1>2, FieldAt
  <2>2. pt_regs[10] = "int_no" /\ 15 - 10 = 5 /\ Frame(s)[5] = <<"int_no", s.vector>>
    BY Layout DEF Frame
  <2> QED
    BY <2>1, <2>2
<1>4. Field("int_no")[2] = s.vector
  BY <1>3
<1>5. ip'[1] = "page_fault" /\ saved' = saved
  BY <1>1, <1>4 DEF Handle, AfterPageFault, Goto
<1> QED
  BY <1>5 DEF Stopped

THEOREM PageFaultsAreFinal == Spec => PageFaultStops
<1>1. Inv /\ [Next]_vars =>
        [/\ Reports => Stopped'
         /\ Stopped => Stopped' /\ (Len(saved') > Len(saved) => Last(saved').vector \notin Irqs)]_vars
  BY ReportStops, StoppedStays
<1> QED
  BY <1>1, Invariance, PTL DEF Spec, PageFaultStops

-----------------------------------------------------------------------------
(* From boot.s to panic(): every call leaves a return address and the       *)
(* caller's ebp on the stack, the first one on the stack of boot.s, the     *)
(* others on kern_stack.                                                    *)

\* Where the stacks begin: boot.s rounds down, kern_entry exclusive-ors.
FirstTop == STACK_TOP - (STACK_TOP % 16)
NewTop == ExclusiveOr(kern_stack_top, FirstTop - 8)

\* The frame of the n-th call from start on, where its saved ebp lies: the
\* address in the address space of the kernel and the physical one.
CallFrame(n) == CASE n = 0 -> 0 [] n = 1 -> FirstTop - 8 [] OTHER -> NewTop - 8 * (n - 1)
CallFramePhysical(n) == IF n = 1 THEN CallFrame(1) ELSE CallFrame(n) - PAGE_OFFSET

\* The frames of all calls in progress are in memory, each with the address of
\* the one before it and with the return address, up to the 0 of boot.s.
FramesLinked ==
    \A n \in 1..Len(calls) :
        /\ {CallFramePhysical(n), CallFramePhysical(n) + 4} \subseteq DOMAIN mem
        /\ mem[CallFramePhysical(n)] = CallFrame(n - 1)
        /\ mem[CallFramePhysical(n) + 4] = calls[Len(calls) + 1 - n]

\* How many calls are in progress at a stage, and which was the last.
CallDepth(stage) ==
    CASE stage = "start" -> 0
      [] stage \in {"kern_entry", "stack", "mboot", "kern_init"} -> 1
      [] stage \in {"init_debug", "init_pmm", "init_vmm", "run"} -> 2
      [] stage = "assert" -> 3
      [] stage = "panic" -> 4
      [] stage \in {"trace", "stopped", "fault"} -> 5
Stages == {"start", "kern_entry", "stack", "mboot", "kern_init", "init_debug", "init_pmm",
           "init_vmm", "run", "assert", "panic", "trace", "stopped", "fault"}
Returns == {ReturnInto(f) : f \in {"start", "kern_entry", "kern_init", "pmm_free_page", "panic"}}

\* Which address space, which stack and which pointers go with a stage.
StageKnown ==
    /\ pc \in Stages
    /\ kern_stack \in KernStacks /\ mboot_ptr_tmp \in MbootPtrs
    /\ calls \in Seq(Returns) /\ Len(calls) = CallDepth(pc)
    /\ pc \in {"start", "kern_entry"} => paging = "off"
    /\ pc \in {"stack", "mboot", "kern_init", "init_debug", "init_pmm", "init_vmm"}
          => paging = "pgd_tmp"
    /\ pc \in {"assert", "panic", "trace", "stopped"} => paging \in {"pgd_tmp", "pgd_kern"}
    /\ pc \in {"run", "fault"} => paging = "pgd_kern"
    /\ pc # "start" => ebp = CallFrame(CallDepth(pc))
    /\ pc \notin {"start", "kern_entry", "stack"} => esp = NewTop - 8 * (CallDepth(pc) - 1)
    /\ pc \notin {"start", "kern_entry", "stack", "mboot"} => glb_mboot_ptr = mboot_ptr_tmp

\* The stack trace has listed the innermost calls; the next frame is that of
\* the call that is listed next.
Tracing ==
    /\ pc \notin {"trace", "stopped", "fault"} => trace = << >>
    /\ pc \in {"trace", "stopped", "fault"} =>
          /\ trace \in Seq(Returns) /\ Len(trace) <= 5
          /\ \A i \in 1..Len(trace) : trace[i] = calls[i]
          /\ frame = CallFrame(5 - Len(trace))
          /\ calls[1] = ReturnInto("panic")
    /\ pc = "stopped" => Len(trace) = 5
    /\ pc = "fault" => trace # << >>

BootInv == StageKnown /\ FramesLinked /\ Tracing

\* The first stack lies below the first page; kern_stack, with room for the
\* calls, in the part of the kernel's addresses that both directories map.
LEMMA StackPlaces ==
    ASSUME kern_stack \in KernStacks
    PROVE  /\ {PAGE_OFFSET, PAGE_SIZE, LOW_SIZE, RAM_SIZE, WORD} \subseteq Nat
           /\ PAGE_SIZE < LOW_SIZE /\ LOW_SIZE <= RAM_SIZE /\ LOW_SIZE <= PAGE_OFFSET
           /\ FirstTop \in Nat /\ 16 <= FirstTop /\ FirstTop < PAGE_SIZE
           /\ NewTop \in Nat /\ PAGE_OFFSET + PAGE_SIZE + 40 <= NewTop
           /\ NewTop < PAGE_OFFSET + LOW_SIZE
<1>1. /\ {WORD, PAGE_OFFSET, PAGE_SIZE, LOW_SIZE, RAM_SIZE, STACK_TOP, STACK_SIZE} \subseteq Nat
      /\ LOW_SIZE <= PAGE_OFFSET /\ LOW_SIZE <= RAM_SIZE
      /\ 32 <= STACK_TOP /\ STACK_TOP < PAGE_SIZE /\ STACK_TOP + 32 <= STACK_SIZE
      /\ kern_stack \in Nat
      /\ PAGE_OFFSET + PAGE_SIZE < kern_stack
      /\ kern_stack + 2 * STACK_SIZE < PAGE_OFFSET + LOW_SIZE
  BY BootAssumption DEF BootAssumption
<1>2. STACK_TOP % 16 \in 0..15
  BY <1>1
<1>3. FirstTop \in Nat /\ 16 <= FirstTop /\ FirstTop <= STACK_TOP
  BY <1>1, <1>2 DEF FirstTop
<1> HIDE DEF FirstTop
<1> DEFINE b == FirstTop - 8
<1>4. b \in 0..STACK_TOP /\ b + 8 <= STACK_TOP
  BY <1>1, <1>3
<1> HIDE DEF b
<1>5. NewTop \in (kern_stack + STACK_SIZE - b)..(kern_stack + STACK_SIZE + b)
  <2>1. NewTop = ExclusiveOr(kern_stack + STACK_SIZE, b)
    BY DEF NewTop, kern_stack_top, b
  <2> QED
    BY <1>4, <2>1, XorAssumption DEF XorAssumption
<1> QED
  BY <1>1, <1>3, <1>4, <1>5

\* The frames do not touch one another, and physical addresses tell them apart.
LEMMA FrameFacts ==
    ASSUME kern_stack \in KernStacks, NEW n \in 1..5
    PROVE  /\ CallFrame(0) = 0
           /\ CallFrame(1) = FirstTop - 8
           /\ CallFrame(n) \in Nat /\ CallFrame(n) # 0 /\ CallFramePhysical(n) \in Nat
           /\ n # 1 => /\ CallFrame(n) = NewTop - 8 * (n - 1)
                       /\ CallFramePhysical(n) = NewTop - 8 * (n - 1) - PAGE_OFFSET
           /\ n = 1 => CallFramePhysical(n) = FirstTop - 8
           /\ paging # "off" => /\ Physical(CallFrame(n)) = CallFramePhysical(n)
                                /\ Physical(CallFrame(n) + 4) = CallFramePhysical(n) + 4
           /\ paging = "pgd_tmp" => Mapped(CallFrame(n)) /\ Mapped(CallFrame(n) + 4) /\ Mapped(0)
           /\ paging = "pgd_kern" /\ n # 1 => Mapped(CallFrame(n)) /\ Mapped(CallFrame(n) + 4)
<1>1. /\ {PAGE_OFFSET, PAGE_SIZE, LOW_SIZE, RAM_SIZE, WORD} \subseteq Nat
      /\ PAGE_SIZE < LOW_SIZE /\ LOW_SIZE <= RAM_SIZE /\ LOW_SIZE <= PAGE_OFFSET
      /\ FirstTop \in Nat /\ 16 <= FirstTop /\ FirstTop < PAGE_SIZE
      /\ NewTop \in Nat /\ PAGE_OFFSET + PAGE_SIZE + 40 <= NewTop
      /\ NewTop < PAGE_OFFSET + LOW_SIZE
  BY StackPlaces
<1>2. CallFrame(0) = 0 /\ CallFrame(1) = FirstTop - 8
  BY DEF CallFrame
<1>3. n # 1 => CallFrame(n) = NewTop - 8 * (n - 1)
  BY DEF CallFrame
<1>4. n # 1 => 8 * (n - 1) \in 8..32
  OBVIOUS
<1> DEFINE f == CallFrame(n)
<1>5. /\ f \in Nat /\ f # 0
      /\ n = 1 => f = FirstTop - 8
      /\ n # 1 => PAGE_OFFSET + PAGE_SIZE + 8 <= f /\ f + 8 <= NewTop
  BY <1>1, <1>2, <1>3, <1>4
<1>6. CallFramePhysical(n) = IF n = 1 THEN f ELSE f - PAGE_OFFSET
  BY DEF CallFramePhysical
<1> HIDE DEF f
<1>7. CallFramePhysical(n) \in Nat
  BY <1>1, <1>5, <1>6
<1>8. paging # "off" => /\ Physical(f) = CallFramePhysical(n)
                        /\ Physical(f + 4) = CallFramePhysical(n) + 4
  BY <1>1, <1>5, <1>6 DEF Physical
<1>9. paging = "pgd_tmp" => Mapped(f) /\ Mapped(f + 4) /\ Mapped(0)
  BY <1>1, <1>5 DEF Mapped, Temporary
<1>10. paging = "pgd_kern" /\ n # 1 => Mapped(f) /\ Mapped(f + 4)
  BY <1>1, <1>5 DEF Mapped
<1>11. n # 1 => CallFramePhysical(n) = NewTop - 8 * (n - 1) - PAGE_OFFSET
  BY <1>3, <1>6 DEF f
<1>12. n = 1 => CallFramePhysical(n) = FirstTop - 8
  BY <1>5, <1>6
<1> QED
  BY <1>2, <1>3, <1>5, <1>7, <1>8, <1>9, <1>10, <1>11, <1>12 DEF f

LEMMA FramesApart ==
    ASSUME kern_stack \in KernStacks, NEW m \in 1..5, NEW n \in 1..5, m # n
    PROVE  {CallFramePhysical(m), CallFramePhysical(m) + 4} \cap {CallFramePhysical(n), CallFramePhysical(n) + 4} = {}
<1> DEFINE p == CallFramePhysical(m)
           q == CallFramePhysical(n)
<1>1. /\ PAGE_OFFSET \in Nat /\ PAGE_SIZE \in Nat
      /\ FirstTop \in Nat /\ 16 <= FirstTop /\ FirstTop < PAGE_SIZE
      /\ NewTop \in Nat /\ PAGE_OFFSET + PAGE_SIZE + 40 <= NewTop
  BY StackPlaces
<1>2. /\ p \in Nat /\ (m = 1 => p = FirstTop - 8)
      /\ m # 1 => p = NewTop - 8 * (m - 1) - PAGE_OFFSET
  BY FrameFacts
<1>3. /\ q \in Nat /\ (n = 1 => q = FirstTop - 8)
      /\ n # 1 => q = NewTop - 8 * (n - 1) - PAGE_OFFSET
  BY FrameFacts
<1> HIDE DEF p, q
<1>4. p + 8 <= q \/ q + 8 <= p
  BY <1>1, <1>2, <1>3
<1>5. p # q /\ p # q + 4 /\ p + 4 # q /\ p + 4 # q + 4
  BY <1>2, <1>3, <1>4
<1> QED
  BY <1>5 DEF p, q

\* call and push ebp add a frame to the chain and leave the others.
LEMMA CallLinks ==
    ASSUME kern_stack' = kern_stack, kern_stack \in KernStacks, FramesLinked,
           calls \in Seq(Returns), NEW n \in 1..5, Len(calls) = n - 1,
           NEW f, ReturnInto(f) \in Returns,
           NEW sp \in Int, Physical(sp - 8) = CallFramePhysical(n), Physical(sp - 4) = CallFramePhysical(n) + 4,
           NEW bp, bp = CallFrame(n - 1), Call(f, sp, bp)
    PROVE  /\ FramesLinked' /\ calls' \in Seq(Returns) /\ Len(calls') = n
           /\ calls'[1] = ReturnInto(f)
<1> DEFINE x == ReturnInto(f)
           p == CallFramePhysical(n)
<1>1. /\ calls' = <<x>> \o calls
      /\ mem' = [a \in DOMAIN mem \cup {p + 4, p} |->
                    CASE a = p + 4 -> x [] a = p -> bp [] OTHER -> mem[a]]
  BY DEF Call
<1>2. \A m : CallFrame(m)' = CallFrame(m) /\ CallFramePhysical(m)' = CallFramePhysical(m)
  BY DEF CallFrame, CallFramePhysical, NewTop, kern_stack_top
<1>3. p \in Nat
  BY FrameFacts
<1> HIDE DEF p
<1>4. <<x>> \in Seq(Returns) /\ Len(<<x>>) = 1 /\ <<x>>[1] = x
  OBVIOUS
<1> HIDE DEF x
<1>5. /\ calls' \in Seq(Returns) /\ Len(calls') = 1 + Len(calls)
      /\ \A i \in 1..1 + Len(calls) :
            calls'[i] = IF i <= 1 THEN <<x>>[i] ELSE calls[i - 1]
  BY <1>1, <1>4, ConcatProperties
<1>6. Len(calls') = n /\ calls'[1] = x
  BY <1>4, <1>5
<1>7. ASSUME NEW m \in 1..n
      PROVE  /\ {CallFramePhysical(m), CallFramePhysical(m) + 4} \subseteq DOMAIN mem'
             /\ mem'[CallFramePhysical(m)] = CallFrame(m - 1)
             /\ mem'[CallFramePhysical(m) + 4] = calls'[n + 1 - m]
  <2>1. CASE m = n
    <3>1. p # p + 4 /\ n + 1 - m = 1
      BY <1>3, <2>1
    <3> QED
      BY <1>1, <1>6, <2>1, <3>1 DEF p
  <2>2. CASE m # n
    <3>1. m \in 1..Len(calls) /\ m \in 1..5 /\ n + 1 - m \in 1..1 + Len(calls)
          /\ ~(n + 1 - m <= 1) /\ (n + 1 - m) - 1 = Len(calls) + 1 - m
      BY <2>2
    <3>2. calls'[n + 1 - m] = calls[Len(calls) + 1 - m]
      BY <1>5, <3>1
    <3>3. /\ {CallFramePhysical(m), CallFramePhysical(m) + 4} \subseteq DOMAIN mem
          /\ mem[CallFramePhysical(m)] = CallFrame(m - 1)
          /\ mem[CallFramePhysical(m) + 4] = calls[Len(calls) + 1 - m]
      BY <3>1 DEF FramesLinked
    <3>4. {CallFramePhysical(m), CallFramePhysical(m) + 4} \cap {p, p + 4} = {}
      BY <2>2, <3>1, FramesApart DEF p
    <3> QED
      BY <1>1, <3>2, <3>3, <3>4
  <2> QED
    BY <2>1, <2>2
<1> QED
  BY <1>2, <1>5, <1>6, <1>7 DEF FramesLinked, x

\* The offset that is too large by the size of the structure is no offset.
LEMMA MbootPointer ==
    ASSUME NEW p \in MbootPtrs, kern_stack \in KernStacks
    PROVE  (p + PAGE_OFFSET * MBOOT_SIZE) % WORD = p
<1>1. /\ PAGE_OFFSET \in Nat /\ WORD \in Nat /\ p \in Nat /\ p < WORD /\ (4 * PAGE_OFFSET) % WORD = 0
  <2>1. /\ PAGE_OFFSET \in Nat /\ WORD \in Nat /\ RAM_SIZE \in Nat /\ LOW_SIZE \in Nat
        /\ p \in Nat /\ p < LOW_SIZE /\ LOW_SIZE <= RAM_SIZE
        /\ PAGE_OFFSET + RAM_SIZE <= WORD /\ (4 * PAGE_OFFSET) % WORD = 0
    BY BootAssumption DEF BootAssumption
  <2> QED
    BY <2>1
<1> DEFINE q == 4 * PAGE_OFFSET
           k == q \div WORD
<1>2. q \in Nat /\ WORD > 0 /\ q % WORD = 0
  BY <1>1
<1> HIDE DEF q
<1>3. k \in Nat /\ q = WORD * k
  BY <1>1, <1>2
<1> HIDE DEF k
<1>4. PAGE_OFFSET * MBOOT_SIZE = 24 * q
  BY <1>1 DEF MBOOT_SIZE, q
<1>5. 24 * q = WORD * (24 * k)
  BY <1>1, <1>3
<1> DEFINE j == 24 * k
<1>6. j \in Nat
  BY <1>3
<1> HIDE DEF j
<1>7. (p + WORD * j) % WORD = p
  BY <1>1, <1>6
<1> QED
  BY <1>4, <1>5, <1>7 DEF j

LEMMA BootStart == BootInit => BootInv
<1> SUFFICES ASSUME BootInit PROVE BootInv
  OBVIOUS
<1>1. calls \in Seq(Returns) /\ Len(calls) = 0
  BY EmptySeq DEF BootInit
<1>2. StageKnown
  BY <1>1 DEF BootInit, StageKnown, Stages, CallDepth
<1>3. FramesLinked
  BY <1>1 DEF FramesLinked
<1> QED
  BY <1>2, <1>3 DEF BootInit, BootInv, Tracing

\* The stages before kern_init().
LEMMA KernEntryInv ==
    ASSUME BootInv, start \/ EnablePaging \/ SwitchStack \/ UpdateMboot
    PROVE  BootInv'
<1> USE DEF BootInv
<1>1. /\ kern_stack \in KernStacks /\ mboot_ptr_tmp \in MbootPtrs
      /\ calls \in Seq(Returns)
  BY DEF StageKnown
<1>2. CASE start
  <2>1. /\ pc = "start" /\ pc' = "kern_entry" /\ paging = "off" /\ Len(calls) = 0
        /\ UNCHANGED <<paging, data, frame, trace>>
        /\ Call("start", FirstTop, 0)
    BY <1>2 DEF start, Stage, StageKnown, CallDepth, FirstFrame, FirstTop
  <2>2. /\ FirstTop - 8 = CallFrame(1) /\ CallFrame(0) = 0 /\ CallFramePhysical(1) = FirstTop - 8
        /\ FirstTop \in Int
    BY <1>1, FrameFacts, StackPlaces
  <2>3. Physical(FirstTop - 8) = CallFramePhysical(1) /\ Physical(FirstTop - 4) = CallFramePhysical(1) + 4
    BY <2>1, <2>2 DEF Physical
  <2>4. ReturnInto("start") \in Returns
    BY DEF Returns
  <2>5. FramesLinked' /\ calls' \in Seq(Returns) /\ Len(calls') = 1
    BY <1>1, <2>1, <2>2, <2>3, <2>4, CallLinks DEF data
  <2>6. ebp' = CallFrame(1)'
    BY <2>1, <2>2 DEF Call, CallFrame, NewTop, kern_stack_top, data
  <2>7. StageKnown'
    BY <1>1, <2>1, <2>5, <2>6 DEF StageKnown, Stages, CallDepth, data
  <2> QED
    BY <2>1, <2>5, <2>7 DEF Tracing
<1>3. CASE EnablePaging
  <2>1. /\ pc = "kern_entry" /\ pc' = "stack" /\ paging' = "pgd_tmp"
        /\ UNCHANGED <<esp, ebp, mem, data, frame, history>>
    BY <1>3 DEF EnablePaging, Stage
  <2>2. StageKnown'
    BY <2>1 DEF StageKnown, Stages, CallDepth, data, history, CallFrame, NewTop, kern_stack_top
  <2>3. FramesLinked'
    BY <2>1 DEF FramesLinked, CallFramePhysical, CallFrame, NewTop, kern_stack_top, data, history
  <2> QED
    BY <2>1, <2>2, <2>3 DEF Tracing, history
<1>4. ReturnInto("kern_entry") \in 0..LOW_SIZE - 1 /\ LOW_SIZE \in Nat
  BY <1>1, LinkAssumption, StackPlaces DEF LinkAssumption
<1>5. paging = "pgd_tmp" => Mapped(ReturnInto("kern_entry"))
  BY <1>4 DEF Mapped, Temporary
<1>6. CASE SwitchStack
  <2>1. /\ pc = "stack" /\ pc' = "mboot"
        /\ esp' = ExclusiveOr(kern_stack_top, ebp)
        /\ UNCHANGED <<paging, ebp, mem, data, frame, history>>
    BY <1>5, <1>6 DEF SwitchStack, Stage, StageKnown
  <2>2. ebp = FirstTop - 8
    BY <1>1, <2>1, FrameFacts DEF StageKnown, CallDepth
  <2>3. esp' = NewTop'
    BY <2>1, <2>2 DEF NewTop, kern_stack_top, data
  <2>4. NewTop' \in Int
    BY <1>1, <2>1, StackPlaces DEF NewTop, kern_stack_top, data
  <2>5. esp' = NewTop' - 8 * (CallDepth("mboot") - 1)
    BY <2>3, <2>4 DEF CallDepth
  <2>6. StageKnown'
    BY <2>1, <2>5
       DEF StageKnown, Stages, CallDepth, data, history, CallFrame, NewTop, kern_stack_top
  <2>7. FramesLinked'
    BY <2>1 DEF FramesLinked, CallFramePhysical, CallFrame, NewTop, kern_stack_top, data, history
  <2> QED
    BY <2>1, <2>6, <2>7 DEF Tracing, history
<1>7. CASE UpdateMboot
  <2>1. /\ pc = "mboot" /\ pc' = "kern_init"
        /\ glb_mboot_ptr' = (mboot_ptr_tmp + PAGE_OFFSET * MBOOT_SIZE) % WORD
        /\ UNCHANGED <<machine, kern_stack, mboot_ptr_tmp, frame, history>>
    BY <1>5, <1>7 DEF UpdateMboot, Stage, StageKnown
  <2>2. glb_mboot_ptr' = mboot_ptr_tmp
    BY <1>1, <2>1, MbootPointer
  <2>3. StageKnown'
    BY <2>1, <2>2
       DEF StageKnown, Stages, CallDepth, machine, history, CallFrame, NewTop, kern_stack_top
  <2>4. FramesLinked'
    BY <2>1 DEF FramesLinked, CallFramePhysical, CallFrame, NewTop, kern_stack_top, machine, history
  <2> QED
    BY <2>1, <2>3, <2>4 DEF Tracing, history
<1> QED
  BY <1>2, <1>3, <1>6, <1>7

\* A call on kern_stack, whose frame is the n-th: its words are mapped.
LEMMA CallReaches ==
    ASSUME kern_stack \in KernStacks, NEW n \in 2..5, paging \in {"pgd_tmp", "pgd_kern"},
           NEW sp, sp = NewTop - 8 * (n - 2)
    PROVE  /\ sp \in Int /\ sp - 8 = CallFrame(n)
           /\ Physical(sp - 8) = CallFramePhysical(n) /\ Physical(sp - 4) = CallFramePhysical(n) + 4
           /\ Mapped(sp - 8) /\ Mapped(sp - 4)
<1>1. NewTop \in Nat
  BY StackPlaces
<1>2. CallFrame(n) = NewTop - 8 * (n - 1) /\ n \in 1..5 /\ n # 1
  BY FrameFacts
<1>3. sp - 8 = CallFrame(n) /\ sp - 4 = CallFrame(n) + 4 /\ sp \in Int
  BY <1>1, <1>2
<1> QED
  BY <1>2, <1>3, FrameFacts

\* The stages of kern_init().
LEMMA KernInitInv ==
    ASSUME BootInv, CallKernInit \/ init_debug \/ init_pmm \/ init_vmm \/ Run
    PROVE  BootInv'
<1> USE DEF BootInv
<1>1. /\ kern_stack \in KernStacks /\ mboot_ptr_tmp \in MbootPtrs
      /\ calls \in Seq(Returns)
  BY DEF StageKnown
<1>2. /\ {PAGE_OFFSET, PAGE_SIZE, LOW_SIZE, RAM_SIZE} \subseteq Nat
      /\ LOW_SIZE <= RAM_SIZE /\ PAGE_SIZE < LOW_SIZE
      /\ ReturnInto("kern_init") \in PAGE_OFFSET + PAGE_SIZE..PAGE_OFFSET + LOW_SIZE - 1
      /\ mboot_ptr_tmp \in 0..LOW_SIZE - 1 /\ TablesAt \in 0..LOW_SIZE - 1
  <2>1. /\ {PAGE_OFFSET, PAGE_SIZE, LOW_SIZE, RAM_SIZE} \subseteq Nat
        /\ LOW_SIZE <= RAM_SIZE /\ PAGE_SIZE < LOW_SIZE
    BY <1>1, StackPlaces
  <2>2. ReturnInto("kern_init") \in PAGE_OFFSET + PAGE_SIZE..PAGE_OFFSET + LOW_SIZE - 1
    BY LinkAssumption DEF LinkAssumption
  <2>3. mboot_ptr_tmp \in Nat /\ mboot_ptr_tmp < LOW_SIZE /\ TablesAt \in Nat /\ TablesAt < LOW_SIZE
    BY <1>1, BootAssumption DEF BootAssumption
  <2>4. mboot_ptr_tmp \in 0..LOW_SIZE - 1 /\ TablesAt \in 0..LOW_SIZE - 1
    BY <2>1, <2>3
  <2> QED
    BY <2>1, <2>2, <2>4
<1>3. paging \in {"pgd_tmp", "pgd_kern"} => Mapped(ReturnInto("kern_init"))
  <2> SUFFICES ASSUME NEW a, a \in PAGE_OFFSET + PAGE_SIZE..PAGE_OFFSET + LOW_SIZE - 1,
                      paging \in {"pgd_tmp", "pgd_kern"}
               PROVE  Mapped(a)
    BY <1>2
  <2>1. a \in PAGE_OFFSET..PAGE_OFFSET + LOW_SIZE - 1
    BY <1>2
  <2>2. a \in PAGE_OFFSET + PAGE_SIZE..PAGE_OFFSET + RAM_SIZE - 1
    BY <1>2
  <2>3. CASE paging = "pgd_tmp"
    BY <2>1, <2>3 DEF Mapped, Temporary
  <2>4. CASE paging = "pgd_kern"
    BY <2>2, <2>4 DEF Mapped
  <2> QED
    BY <2>3, <2>4
<1>4. paging = "pgd_tmp" => Mapped(mboot_ptr_tmp) /\ Mapped(TablesAt) /\ Mapped(TablesAt + PAGE_OFFSET)
  BY <1>2 DEF Mapped, Temporary
<1>5. CASE CallKernInit
  <2>1. /\ pc = "kern_init" /\ paging = "pgd_tmp" /\ Len(calls) = 1
        /\ esp = NewTop - 8 * (2 - 2) /\ ebp = CallFrame(1)
        /\ glb_mboot_ptr = mboot_ptr_tmp /\ trace = << >>
    <3>1. pc = "kern_init"
      BY <1>5 DEF CallKernInit, Stage
    <3> QED
      BY <1>1, <3>1, StackPlaces DEF StageKnown, CallDepth, Tracing
  <2>2. /\ esp \in Int /\ esp - 8 = CallFrame(2)
        /\ Physical(esp - 8) = CallFramePhysical(2) /\ Physical(esp - 4) = CallFramePhysical(2) + 4
        /\ Mapped(esp - 8) /\ Mapped(esp - 4)
    BY <1>1, <2>1, CallReaches
  <2>3. /\ pc' = "init_debug" /\ Call("kern_entry", esp, ebp)
        /\ UNCHANGED <<paging, data, frame, trace>>
    BY <1>3, <1>5, <2>1, <2>2 DEF CallKernInit, Stage
  <2>4. ReturnInto("kern_entry") \in Returns
    BY DEF Returns
  <2>5. FramesLinked' /\ calls' \in Seq(Returns) /\ Len(calls') = 2
    BY <1>1, <2>1, <2>2, <2>3, <2>4, CallLinks DEF data
  <2>6. ebp' = CallFrame(2)' /\ esp' = NewTop' - 8 * (CallDepth("init_debug") - 1)
    <3>1. NewTop' = NewTop /\ CallFrame(2)' = CallFrame(2) /\ NewTop \in Int
      BY <1>1, <2>3, StackPlaces DEF CallFrame, NewTop, kern_stack_top, data
    <3> QED
      BY <2>1, <2>2, <2>3, <3>1 DEF Call, CallDepth
  <2>7. StageKnown'
    BY <1>1, <2>1, <2>3, <2>5, <2>6 DEF StageKnown, Stages, CallDepth, data
  <2> QED
    BY <2>1, <2>3, <2>5, <2>7 DEF Tracing
<1>6. CASE init_debug \/ init_pmm \/ init_vmm \/ Run
  <2>1. /\ pc \in {"init_debug", "init_pmm", "init_vmm", "run"} /\ Len(calls) = 2
        /\ paging \in {"pgd_tmp", "pgd_kern"}
        /\ pc # "run" => paging = "pgd_tmp"
        /\ pc = "run" => paging = "pgd_kern"
        /\ esp = CallFrame(2) /\ glb_mboot_ptr = mboot_ptr_tmp /\ trace = << >>
    <3>1. pc \in {"init_debug", "init_pmm", "init_vmm", "run"}
      BY <1>6 DEF init_debug, init_pmm, init_vmm, Run, Stage
    <3>2. CallFrame(2) = NewTop - 8 * (2 - 1)
      BY <1>1, FrameFacts
    <3> QED
      BY <1>1, <3>1, <3>2, StackPlaces DEF StageKnown, CallDepth, Tracing
  <2>2. Mapped(esp)
    BY <1>1, <2>1, FrameFacts
  <2>3. /\ pc' \in {"init_pmm", "init_vmm", "run"} /\ UNCHANGED <<esp, ebp, mem, data, frame, history>>
        /\ paging' = IF pc' = "run" THEN "pgd_kern" ELSE "pgd_tmp"
    BY <1>3, <1>4, <1>6, <2>1, <2>2
       DEF init_debug, init_pmm, init_vmm, Run, Stage, machine
  <2>4. StageKnown'
    BY <2>1, <2>3
       DEF StageKnown, Stages, CallDepth, data, history, CallFrame, NewTop, kern_stack_top
  <2>5. FramesLinked'
    BY <2>3 DEF FramesLinked, CallFramePhysical, CallFrame, NewTop, kern_stack_top, data, history
  <2> QED
    BY <2>1, <2>3, <2>4, <2>5 DEF Tracing, history
<1> QED
  BY <1>5, <1>6

\* The calls from kern_init() down to print_stack_trace().
LEMMA PanicInv ==
    ASSUME BootInv, CallStage \/ Panic \/ PrintStackTrace
    PROVE  BootInv'
<1> USE DEF BootInv
<1>1. /\ kern_stack \in KernStacks /\ mboot_ptr_tmp \in MbootPtrs
      /\ calls \in Seq(Returns)
  BY DEF StageKnown
<1>2. PICK n \in 3..5 :
         \/ n = 3 /\ CallStage /\ pc \in {"init_pmm", "run"}
         \/ n = 4 /\ Panic /\ pc = "assert"
         \/ n = 5 /\ PrintStackTrace /\ pc = "panic"
  <2>1. CASE CallStage
    <3>1. 3 \in 3..5 /\ pc \in {"init_pmm", "run"}
      BY <2>1 DEF CallStage, Stage
    <3> QED
      BY <2>1, <3>1
  <2>2. CASE Panic
    <3>1. 4 \in 3..5 /\ pc = "assert"
      BY <2>2 DEF Panic, Stage
    <3> QED
      BY <2>2, <3>1
  <2>3. CASE PrintStackTrace
    <3>1. 5 \in 3..5 /\ pc = "panic"
      BY <2>3 DEF PrintStackTrace, Stage
    <3> QED
      BY <2>3, <3>1
  <2> QED
    BY <2>1, <2>2, <2>3
<1>3. /\ Len(calls) = n - 1 /\ esp = NewTop - 8 * (n - 2) /\ ebp = CallFrame(n - 1)
      /\ paging \in {"pgd_tmp", "pgd_kern"} /\ glb_mboot_ptr = mboot_ptr_tmp /\ trace = << >>
  <2>1. CallDepth(pc) = n - 1
    BY <1>2 DEF CallDepth
  <2> QED
    BY <1>2, <2>1 DEF StageKnown, Tracing
<1>4. /\ esp \in Int /\ esp - 8 = CallFrame(n)
      /\ Physical(esp - 8) = CallFramePhysical(n) /\ Physical(esp - 4) = CallFramePhysical(n) + 4
      /\ Mapped(esp - 8) /\ Mapped(esp - 4)
  <2>1. n \in 2..5
    OBVIOUS
  <2> QED
    BY <1>1, <1>3, <2>1, CallReaches
<1> DEFINE f == CASE n = 3 -> "kern_init" [] n = 4 -> "pmm_free_page" [] n = 5 -> "panic"
<1>5. /\ pc' = (CASE n = 3 -> "assert" [] n = 4 -> "panic" [] n = 5 -> "trace")
      /\ Call(f, esp, ebp) /\ (n = 5 => frame' = ebp')
      /\ UNCHANGED <<paging, data, trace>>
  BY <1>2, <1>4 DEF CallStage, Panic, PrintStackTrace, Stage
<1>6. ReturnInto(f) \in Returns
  BY DEF Returns
<1> HIDE DEF f
<1>7. FramesLinked' /\ calls' \in Seq(Returns) /\ Len(calls') = n /\ calls'[1] = ReturnInto(f)
  <2>1. n \in 1..5 /\ kern_stack' = kern_stack
    BY <1>5 DEF data
  <2> QED
    BY <1>1, <1>3, <1>4, <1>5, <1>6, <2>1, CallLinks
<1>8. NewTop' = NewTop /\ \A m : CallFrame(m)' = CallFrame(m)
  BY <1>5 DEF CallFrame, NewTop, kern_stack_top, data
<1>9. CallDepth(pc') = n
  BY <1>5 DEF CallDepth
<1>10. ebp' = CallFrame(n) /\ esp' = NewTop - 8 * (n - 1)
  <2>1. NewTop \in Int
    BY <1>1, StackPlaces
  <2>2. esp' = esp - 8 /\ ebp' = esp - 8
    BY <1>5 DEF Call
  <2> QED
    BY <1>3, <1>4, <2>1, <2>2
<1>11. StageKnown'
  BY <1>1, <1>3, <1>5, <1>7, <1>8, <1>9, <1>10 DEF StageKnown, Stages, data
<1>12. Tracing'
  <2>1. trace' = << >> /\ trace' \in Seq(Returns) /\ Len(trace') = 0
    BY <1>3, <1>5, EmptySeq
  <2>2. CASE n # 5
    BY <1>5, <2>1, <2>2 DEF Tracing
  <2>3. CASE n = 5
    BY <1>5, <1>7, <1>8, <1>10, <2>1, <2>3 DEF Tracing, f
  <2> QED
    BY <2>2, <2>3
<1> QED
  BY <1>7, <1>11, <1>12

LEMMA UpToFive ==
    ASSUME NEW k \in Nat, k <= 5
    PROVE  k \in 0..5 /\ (k # 5 => 5 - k \in 1..5)
OBVIOUS

\* The symbols and their names are mapped in both address spaces.
LEMMA TablesMapped ==
    ASSUME paging \in {"pgd_tmp", "pgd_kern"}
    PROVE  Mapped(TablesAt + PAGE_OFFSET)
<1>1. /\ {PAGE_OFFSET, PAGE_SIZE, LOW_SIZE, RAM_SIZE} \subseteq Nat /\ LOW_SIZE <= RAM_SIZE
      /\ TablesAt \in Nat /\ PAGE_SIZE <= TablesAt /\ TablesAt < LOW_SIZE
  BY BootAssumption DEF BootAssumption
<1>2. CASE paging = "pgd_tmp"
  <2>1. TablesAt + PAGE_OFFSET \in PAGE_OFFSET..PAGE_OFFSET + LOW_SIZE - 1
    BY <1>1
  <2> QED
    BY <1>2, <2>1 DEF Mapped, Temporary
<1>3. CASE paging = "pgd_kern"
  <2>1. TablesAt + PAGE_OFFSET \in PAGE_OFFSET + PAGE_SIZE..PAGE_OFFSET + RAM_SIZE - 1
    BY <1>1
  <2> QED
    BY <1>3, <2>1 DEF Mapped
<1> QED
  BY <1>2, <1>3

\* A round of print_stack_trace() prints the call whose frame it has reached.
\* Only the frame of boot.s, the last one, may be unmapped, and the first name
\* is known: when a round faults something has been printed.
LEMMA TraceInv ==
    ASSUME BootInv, TraceFrame
    PROVE  BootInv'
<1> USE DEF BootInv
<1>1. /\ kern_stack \in KernStacks /\ mboot_ptr_tmp \in MbootPtrs /\ calls \in Seq(Returns)
      /\ pc = "trace" /\ Len(calls) = 5 /\ paging \in {"pgd_tmp", "pgd_kern"}
  BY DEF StageKnown, TraceFrame, Stage, CallDepth
<1>2. /\ trace \in Seq(Returns) /\ Len(trace) \in 0..5
      /\ \A i \in 1..Len(trace) : trace[i] = calls[i]
      /\ frame = CallFrame(5 - Len(trace)) /\ calls[1] = ReturnInto("panic")
  <2>1. trace \in Seq(Returns)
    BY <1>1 DEF Tracing
  <2>2. Len(trace) \in Nat
    BY <2>1, LenProperties
  <2>3. Len(trace) <= 5
    BY <1>1 DEF Tracing
  <2>4. /\ \A i \in 1..Len(trace) : trace[i] = calls[i]
        /\ frame = CallFrame(5 - Len(trace)) /\ calls[1] = ReturnInto("panic")
    BY <1>1 DEF Tracing
  <2>5. Len(trace) \in 0..5
    BY <2>2, <2>3, UpToFive
  <2> QED
    BY <2>1, <2>4, <2>5
<1> DEFINE k == Len(trace)
           n == 5 - k
           eip == Read(frame + 4)
           name == IF Mapped(frame + 4) /\ elf_lookup_symbol(eip) = "NULL" THEN {0} ELSE {}
<1>3. /\ frame # 0
      /\ Stage("trace", {frame, frame + 4, TablesAt + PAGE_OFFSET} \cup name, "trace")
      /\ IF pc' = "fault" THEN UNCHANGED <<frame, trace>>
         ELSE /\ frame' = Read(frame)
              /\ trace' = IF Len(trace) > Len(calls) THEN trace ELSE Append(trace, eip)
      /\ UNCHANGED <<machine, data, calls>>
  BY DEF TraceFrame
<1>4. k \in 0..4 /\ n \in 1..5
  <2>1. k # 5
    <3>1. CallFrame(0) = 0 /\ 5 - 5 = 0
      BY DEF CallFrame
    <3> QED
      BY <1>2, <1>3, <3>1
  <2> QED
    BY <1>2, <2>1
<1>5. eip = calls[k + 1] /\ Read(frame) = CallFrame(n - 1) /\ eip \in Returns
  <2>1. /\ {CallFramePhysical(n), CallFramePhysical(n) + 4} \subseteq DOMAIN mem
        /\ mem[CallFramePhysical(n)] = CallFrame(n - 1)
        /\ mem[CallFramePhysical(n) + 4] = calls[5 + 1 - n]
    BY <1>1, <1>4 DEF FramesLinked
  <2>2. Physical(frame) = CallFramePhysical(n) /\ Physical(frame + 4) = CallFramePhysical(n) + 4
    BY <1>1, <1>2, <1>4, FrameFacts
  <2>3. 5 + 1 - n = k + 1 /\ k + 1 \in 1..Len(calls)
    BY <1>1, <1>4
  <2>4. calls[k + 1] \in Returns
    BY <1>1, <2>3, ElementOfSeq
  <2> QED
    BY <2>1, <2>2, <2>3, <2>4 DEF Read
<1>6. pc' = "trace" \/ pc' = "fault"
  BY <1>3 DEF Stage
<1>7. CASE pc' = "fault"
  <2>1. paging = "pgd_kern"
    <3> SUFFICES ASSUME paging = "pgd_tmp" PROVE FALSE
      BY <1>1
    <3>1. Mapped(frame) /\ Mapped(frame + 4) /\ Mapped(0)
      BY <1>1, <1>2, <1>4, FrameFacts
    <3> QED
      BY <1>3, <1>7, <3>1, TablesMapped DEF Stage
  <2>2. k # 0
    <3> SUFFICES ASSUME k = 0 PROVE FALSE
      OBVIOUS
    <3>1. Mapped(frame) /\ Mapped(frame + 4)
      BY <1>1, <1>2, <1>4, <2>1, FrameFacts
    <3>2. elf_lookup_symbol(eip) # "NULL"
      BY <1>2, <1>5, LinkAssumption DEF LinkAssumption
    <3> QED
      BY <1>3, <1>7, <2>1, <3>1, <3>2, TablesMapped DEF Stage
  <2>3. trace # << >>
    BY <2>2, EmptySeq
  <2>4. UNCHANGED <<frame, trace>>
    BY <1>3, <1>7
  <2>5. StageKnown'
    BY <1>1, <1>3, <1>7, <2>1
       DEF StageKnown, Stages, CallDepth, machine, data, CallFrame, NewTop, kern_stack_top
  <2>6. FramesLinked'
    BY <1>3 DEF FramesLinked, CallFramePhysical, CallFrame, NewTop, kern_stack_top, machine, data
  <2>7. Tracing'
    BY <1>1, <1>2, <1>3, <1>7, <2>3, <2>4 DEF Tracing, CallFrame, NewTop, kern_stack_top, data
  <2> QED
    BY <2>5, <2>6, <2>7
<1>8. CASE pc' = "trace"
  <2>1. frame' = CallFrame(n - 1) /\ trace' = Append(trace, eip)
    BY <1>1, <1>3, <1>4, <1>5, <1>8
  <2>2. /\ Append(trace, eip) \in Seq(Returns)
        /\ Len(Append(trace, eip)) = k + 1
        /\ \A i \in 1..k : Append(trace, eip)[i] = trace[i]
        /\ Append(trace, eip)[k + 1] = eip
    BY <1>2, <1>5, AppendProperties
  <2>3. StageKnown'
    BY <1>1, <1>3, <1>8
       DEF StageKnown, Stages, CallDepth, machine, data, CallFrame, NewTop, kern_stack_top
  <2>4. FramesLinked'
    BY <1>3 DEF FramesLinked, CallFramePhysical, CallFrame, NewTop, kern_stack_top, machine, data
  <2>5. CallFrame(5 - Len(trace))' = CallFrame(n - 1)
    <3>1. 5 - Len(trace') = n - 1
      BY <1>4, <2>1, <2>2
    <3>2. CallFrame(5 - Len(trace))' = CallFrame(5 - Len(trace'))
      BY <1>3 DEF CallFrame, NewTop, kern_stack_top, data
    <3> QED
      BY <3>1, <3>2
  <2>6. /\ trace' \in Seq(Returns) /\ Len(trace') <= 5
        /\ \A i \in 1..Len(trace') : trace'[i] = calls'[i]
        /\ frame' = CallFrame(5 - Len(trace))'
        /\ calls'[1] = ReturnInto("panic")
    <3>1. calls' = calls
      BY <1>3
    <3>2. Len(trace') = k + 1 /\ k + 1 <= 5
      BY <1>4, <2>1, <2>2
    <3>3. ASSUME NEW i \in 1..k + 1 PROVE trace'[i] = calls[i]
      <4>1. CASE i = k + 1
        BY <1>5, <2>1, <2>2, <4>1
      <4>2. CASE i # k + 1
        <5>1. i \in 1..k
          BY <1>4, <4>2
        <5> QED
          BY <1>2, <2>1, <2>2, <5>1
      <4> QED
        BY <4>1, <4>2
    <3> QED
      BY <1>2, <2>1, <2>2, <2>5, <3>1, <3>2, <3>3
  <2>7. Tracing'
    BY <1>8, <2>6 DEF Tracing
  <2> QED
    BY <2>3, <2>4, <2>7
<1> QED
  BY <1>6, <1>7, <1>8

LEMMA TraceDoneInv ==
    ASSUME BootInv, TraceDone
    PROVE  BootInv'
<1> USE DEF BootInv
<1>1. /\ pc = "trace" /\ pc' = "stopped" /\ frame = 0
      /\ UNCHANGED <<machine, data, frame, history>>
  BY DEF TraceDone, Stage
<1>2. Len(trace) = 5
  <2>1. frame = CallFrame(5 - Len(trace)) /\ Len(trace) \in Nat /\ Len(trace) <= 5 /\ kern_stack \in KernStacks
    <3>1. trace \in Seq(Returns) /\ Len(trace) <= 5 /\ frame = CallFrame(5 - Len(trace))
          /\ kern_stack \in KernStacks
      BY <1>1 DEF Tracing, StageKnown
    <3>2. Len(trace) \in Nat
      BY <3>1, LenProperties
    <3> QED
      BY <3>1, <3>2
  <2>2. Len(trace) # 5 => 5 - Len(trace) \in 1..5
    BY <2>1, UpToFive
  <2> QED
    BY <1>1, <2>1, <2>2, FrameFacts
<1>3. StageKnown'
  BY <1>1
     DEF StageKnown, Stages, CallDepth, machine, data, history, CallFrame, NewTop, kern_stack_top
<1>4. FramesLinked'
  BY <1>1
     DEF FramesLinked, CallFramePhysical, CallFrame, NewTop, kern_stack_top, machine, data, history
<1>5. Tracing'
  BY <1>1, <1>2 DEF Tracing, CallFrame, NewTop, kern_stack_top, data, history
<1> QED
  BY <1>3, <1>4, <1>5

LEMMA BootStep ==
    ASSUME BootInv, [BootNext]_bootVars
    PROVE  BootInv'
<1>1. CASE UNCHANGED bootVars
  BY <1>1 DEF bootVars, BootInv, StageKnown, FramesLinked, Tracing, machine, data, history,
              CallFrame, CallFramePhysical, NewTop, kern_stack_top
<1> QED
  BY <1>1, KernEntryInv, KernInitInv, PanicInv, TraceInv, TraceDoneInv
     DEF BootNext, panic, Halt

LEMMA BootInvariant == BootSpec => []BootInv
<1>1. BootInv /\ [BootNext]_bootVars => BootInv'
  BY BootStep
<1> QED
  BY <1>1, BootStart, PTL DEF BootSpec

\* The kernel touches nothing unmapped until panic() has printed something:
\* the identity map lasts as long as a physical address is used, and the
\* pointer arithmetic that is off by a factor hits the right address.
THEOREM BootIsMapped == BootSpec => []BootNeverFaults
<1>1. BootInv => BootNeverFaults
  BY DEF BootInv, StageKnown, Tracing, BootNeverFaults
<1> QED
  BY <1>1, BootInvariant, PTL

LEMMA PrefixFacts ==
    ASSUME NEW S, NEW s \in Seq(S), NEW t \in Seq(S), Len(s) <= Len(t),
           \A i \in 1..Len(s) : s[i] = t[i]
    PROVE  IsPrefix(s, t) /\ (Len(s) = Len(t) => s = t)
<1> DEFINE n == Len(s)
           u == SubSeq(t, 1, n)
<1>1. n \in Nat /\ Len(t) \in Nat
  BY LenProperties
<1>2. ASSUME NEW i \in 1..n PROVE t[i] \in S
  BY <1>1, ElementOfSeq
<1>3. /\ u \in Seq(S) /\ Len(u) = (IF 1 <= n THEN n - 1 + 1 ELSE 0)
      /\ \A i \in 1..n - 1 + 1 : u[i] = t[1 + i - 1]
  BY <1>1, <1>2, SubSeqProperties
<1> HIDE DEF u
<1>4. Len(u) = Len(s) /\ \A i \in 1..Len(s) : s[i] = u[i]
  BY <1>1, <1>3
<1>5. s = u
  BY <1>3, <1>4, SeqEqual
<1>6. SubSeq(s, 1, n) = s
  BY SubSeqFull
<1>7. Len(s) = Len(t) => s = t
  BY SeqEqual
<1> QED
  BY <1>5, <1>6, <1>7 DEF IsPrefix, u

\* print_stack_trace() follows the saved ebp from kern_stack to the first stack
\* and prints the calls in progress, all of them when it comes to the end.
THEOREM TraceIsCallers == BootSpec => []TraceListsCallers
<1>1. BootInv => TraceListsCallers
  <2> SUFFICES ASSUME BootInv PROVE TraceListsCallers
    OBVIOUS
  <2>1. calls \in Seq(Returns) /\ Len(calls) \in Nat /\ Len(calls) = CallDepth(pc) /\ pc \in Stages
    BY LenProperties DEF BootInv, StageKnown
  <2>2. /\ trace \in Seq(Returns) /\ Len(trace) <= Len(calls)
        /\ \A i \in 1..Len(trace) : trace[i] = calls[i]
        /\ pc = "stopped" => Len(trace) = Len(calls)
    <3>1. CASE pc \in {"trace", "stopped", "fault"}
      BY <2>1, <3>1 DEF BootInv, Tracing, CallDepth
    <3>2. CASE pc \notin {"trace", "stopped", "fault"}
      <4>1. trace = << >> /\ trace \in Seq(Returns) /\ Len(trace) = 0
        BY <3>2, EmptySeq DEF BootInv, Tracing
      <4> QED
        BY <2>1, <3>2, <4>1
    <3> QED
      BY <3>1, <3>2
  <2> QED
    BY <2>1, <2>2, PrefixFacts DEF TraceListsCallers
<1> QED
  BY <1>1, BootInvariant, PTL
-----------------------------------------------------------------------------
(* Boot: panic() comes to its end. *)

\* How many steps panic() has ahead of it, when n addresses are printed.
PanicLeft(at, n) ==
    CASE at = "assert" -> 8 [] at = "panic" -> 7 [] at = "trace" -> 6 - n [] OTHER -> 0

\* Each step of panic() and of print_stack_trace() is one less to go: the walk
\* along the frames meets none of them twice.
PanicAdvances ==
    [][panic => /\ PanicLeft(pc, Len(trace)) \in Nat
                /\ PanicLeft(pc', Len(trace')) \in Nat
                /\ PanicLeft(pc', Len(trace')) < PanicLeft(pc, Len(trace))]_bootVars

\* A round of the loop prints a return address, of which there are five, or
\* faults.
LEMMA TraceFrameCounts ==
    ASSUME BootInv, TraceFrame
    PROVE  /\ Len(trace) \in 0..4
           /\ \/ pc' = "fault"
              \/ pc' = "trace" /\ Len(trace') = Len(trace) + 1
<1> DEFINE k == Len(trace)
           eip == Read(frame + 4)
<1>1. pc = "trace" /\ frame # 0 /\ pc' \in {"trace", "fault"}
  BY DEF TraceFrame, Stage
<1>2. trace \in Seq(Returns) /\ k <= 5 /\ frame = CallFrame(5 - k) /\ Len(calls) = 5
  BY <1>1 DEF BootInv, StageKnown, Tracing, CallDepth
<1>3. k \in 0..4
  <2>1. k \in Nat
    BY <1>2, LenProperties
  <2>2. k # 5
    <3>1. CallFrame(0) = 0 /\ 5 - 5 = 0
      BY DEF CallFrame
    <3> QED
      BY <1>1, <1>2, <3>1
  <2>3. k <= 5
    BY <1>2
  <2> HIDE DEF k
  <2> QED
    BY <2>1, <2>2, <2>3
<1>4. CASE pc' = "trace"
  <2>1. trace' = IF k > Len(calls) THEN trace ELSE Append(trace, eip)
    BY <1>4 DEF TraceFrame
  <2>2. trace' = Append(trace, eip)
    BY <1>2, <1>3, <2>1
  <2> DEFINE S == Returns \cup {eip}
  <2>3. trace \in Seq(S) /\ eip \in S
    BY <1>2
  <2> HIDE DEF S
  <2>4. Len(Append(trace, eip)) = k + 1
    BY <2>3, AppendProperties
  <2> QED
    BY <1>3, <1>4, <2>2, <2>4
<1> QED
  BY <1>1, <1>3, <1>4

\* print_stack_trace() cannot go round in a circle: panic() always gets to its
\* endless loop, or to a page fault and the one there (PanicEnds, but for the
\* fairness and for ENABLED).
THEOREM PanicComesToItsEnd == BootSpec => PanicAdvances
<1>1. ASSUME BootInv, panic
      PROVE  /\ PanicLeft(pc, Len(trace)) \in Nat
             /\ PanicLeft(pc', Len(trace')) \in Nat
             /\ PanicLeft(pc', Len(trace')) < PanicLeft(pc, Len(trace))
  <2>1. CASE Panic
    <3>1. pc = "assert" /\ pc' \in {"panic", "fault"}
      BY <2>1 DEF Panic, Stage
    <3> QED
      BY <3>1 DEF PanicLeft
  <2>2. CASE PrintStackTrace
    <3>1. pc = "panic" /\ pc' \in {"trace", "fault"} /\ trace' = trace
      BY <2>2 DEF PrintStackTrace, Stage
    <3>2. Len(trace') = 0
      BY <1>1, <3>1, EmptySeq DEF BootInv, Tracing
    <3> QED
      BY <3>1, <3>2 DEF PanicLeft
  <2>3. CASE TraceFrame
    <3>1. /\ pc = "trace" /\ Len(trace) \in 0..4
          /\ \/ pc' = "fault"
             \/ pc' = "trace" /\ Len(trace') = Len(trace) + 1
      BY <1>1, <2>3, TraceFrameCounts DEF TraceFrame, Stage
    <3> DEFINE k == Len(trace)
    <3>2. k \in 0..4 /\ (pc' = "fault" \/ (pc' = "trace" /\ Len(trace') = k + 1))
      BY <3>1
    <3> HIDE DEF k
    <3>3. PanicLeft("trace", k) = 6 - k /\ PanicLeft(pc, Len(trace)) = 6 - k
      BY <3>1 DEF PanicLeft, k
    <3>4. CASE pc' = "fault"
      <4>1. PanicLeft(pc', Len(trace')) = 0
        BY <3>4 DEF PanicLeft
      <4> QED
        BY <3>2, <3>3, <4>1
    <3>5. CASE pc' = "trace" /\ Len(trace') = k + 1
      <4>1. PanicLeft(pc', Len(trace')) = 6 - (k + 1)
        BY <3>5 DEF PanicLeft
      <4> QED
        BY <3>2, <3>3, <4>1
    <3> QED
      BY <3>2, <3>4, <3>5
  <2>4. CASE TraceDone
    <3>1. pc = "trace" /\ pc' = "stopped"
      BY <2>4 DEF TraceDone, Stage
    <3> DEFINE k == Len(trace)
    <3>2. trace \in Seq(Returns) /\ k <= 5
      BY <1>1, <3>1 DEF BootInv, Tracing
    <3>3. k \in Nat
      BY <3>2, LenProperties
    <3>4. PanicLeft(pc, k) = 6 - k /\ PanicLeft(pc', Len(trace')) = 0
      BY <3>1 DEF PanicLeft
    <3>5. k <= 5
      BY <3>2
    <3> HIDE DEF k
    <3>6. PanicLeft(pc, k) \in Nat /\ 0 < PanicLeft(pc, k)
      BY <3>3, <3>4, <3>5
    <3> QED
      BY <3>4, <3>6 DEF k
  <2> QED
    BY <1>1, <2>1, <2>2, <2>3, <2>4 DEF panic
<1>2. BootInv /\ [BootNext]_bootVars =>
        [panic => /\ PanicLeft(pc, Len(trace)) \in Nat
                  /\ PanicLeft(pc', Len(trace')) \in Nat
                  /\ PanicLeft(pc', Len(trace')) < PanicLeft(pc, Len(trace))]_bootVars
  BY <1>1
<1> QED
  BY <1>2, BootInvariant, PTL DEF BootSpec, PanicAdvances
=============================================================================
