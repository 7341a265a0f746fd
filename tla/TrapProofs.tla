------------------------------ MODULE TrapProofs ------------------------------
(***************************************************************************)
(* The entry code is transparent for every set of IRQs and of faults, as   *)
(* long as no fault pushes an error code. Chain says what was interrupted: *)
(* nothing, the scheduler's loop or user code, or a system call inside     *)
(* user code; each is on the stack of what interrupted it, word for word.  *)
(* Running says where in the entry code the CPU is and what it has pushed  *)
(* so far. InService says that only the innermost trap can have an         *)
(* interrupt that is not yet acknowledged: from its entry to its EOI no    *)
(* other can come.                                                         *)
(***************************************************************************)
EXTENDS Trap, SequenceTheorems, TLAPS

-----------------------------------------------------------------------------
(* The inductive invariant *)

\* No fault that occurs pushes an error code.
NoErrorCodes == Exceptions \cap ErrVectors = {}

Regs == [edi : Int, esi : Int, ebp : Int, ebx : Int, edx : Int, ecx : Int, eax : Int,
         gs : Int, fs : Int, es : {KDATA, UDATA}, ds : {KDATA, UDATA}, eip : Int, cs : Int,
         eflags : {0, FL_IF}, esp : Int, ss : Int]
Contexts == [regs : Regs, stk : {SCHED, PROC, USTACK}, stack : Seq(Int)]
Entries == [ctx : Contexts, v : 0 .. 255, irq : BOOLEAN, acked : BOOLEAN]

\* The words the processor pushes for context c, on top of its stack.
Frame(c) ==
    <<c.regs.eip, c.regs.cs, c.regs.eflags>>
        \o (IF c.stk = USTACK THEN <<c.regs.esp, c.regs.ss>> ELSE c.stack)

\* What alltraps pushes on top of the vector number.
Saved(r, o) == <<r.edi, r.esi, r.ebp, o, r.ebx, r.edx, r.ecx, r.eax, r.gs, r.fs, r.es, r.ds>>
Below(e) == <<e.v, 0>> \o Frame(e.ctx)

\* The registers that the processor's entry leaves alone.
Same(r, q) ==
    /\ r.edi = q.edi /\ r.esi = q.esi /\ r.ebp = q.ebp /\ r.ebx = q.ebx
    /\ r.edx = q.edx /\ r.ecx = q.ecx /\ r.eax = q.eax
    /\ r.gs = q.gs /\ r.fs = q.fs /\ r.es = q.es /\ r.ds = q.ds

InKernel(c) == c.regs.cs = KCODE /\ c.regs.ss = KDATA /\ c.regs.esp = 0

\* The scheduler's loop, or user code.
Resting(c) ==
    /\ c.regs.eflags = FL_IF /\ c.stack = << >>
    /\ \/ c.regs.eip = LOOP /\ c.stk = SCHED /\ InKernel(c)
       \/ c.regs.eip = START /\ c.stk = USTACK /\ c.regs.cs = UCODE /\ c.regs.ss = UDATA

\* Context c is at some point of the code that handles e, with e's frame below it. It can be
\* interrupted only in a system call.
Handles(c, e) ==
    /\ InKernel(c) /\ (c.regs.eflags = FL_IF => e.v = T_SYSCALL)
    /\ c.stk = IF e.ctx.stk = USTACK THEN PROC ELSE e.ctx.stk
    /\ \/ /\ c.regs.eip = VECTOR + e.v /\ ~e.acked
          /\ Same(c.regs, e.ctx.regs) /\ c.stack = Frame(e.ctx)
       \/ /\ c.regs.eip = ALLTRAPS /\ ~e.acked
          /\ Same(c.regs, e.ctx.regs) /\ c.stack = Below(e)
       \/ /\ c.regs.eip = TRAP /\ ~e.acked
          /\ \E o \in Int : c.stack = <<TRAPRET, Len(Below(e)) + 12>>
                                        \o (Saved(e.ctx.regs, o) \o Below(e))
       \/ /\ c.regs.eip = TRAPRET /\ e.acked
          /\ \E o \in Int : c.stack = Saved(e.ctx.regs, o) \o Below(e)
       \/ /\ c.regs.eip = IRET /\ e.acked
          /\ Same(c.regs, e.ctx.regs) /\ c.stack = Frame(e.ctx)

\* In forkret, or stopped there: the stack that alloc_proc laid out, from trapret on.
Forking(c, e) ==
    /\ c.regs.eip \in {FORKRET, PANIC} /\ InKernel(c) /\ c.regs.eflags = 0 /\ c.stk = PROC
    /\ e.ctx = UserContext /\ e.acked
    /\ c.stack = <<TRAPRET>> \o (Saved(UserContext.regs, 0) \o Below(e))

\* One is inside the other: below the innermost there is at most a system call.
Chain ==
    /\ entered \in Seq(Entries) /\ Len(entered) <= 2
    /\ \A i \in 1 .. Len(entered) : entered[i].irq => entered[i].v \in Irqs
    /\ \A i \in 1 .. Len(entered) : entered[i].acked \/ entered[i].v \notin ErrVectors
    /\ Len(entered) = 1 => Resting(entered[1].ctx)
    /\ Len(entered) = 2 => /\ Handles(entered[1].ctx, entered[2]) /\ Resting(entered[2].ctx)
                           /\ entered[1].v # T_SYSCALL /\ entered[2].v = T_SYSCALL

\* What runs now.
Running ==
    /\ entered = << >> => Resting(Context)
    /\ entered # << >> => \/ Handles(Context, entered[1])
                          \/ Len(entered) = 1 /\ Forking(Context, entered[1])

Types ==
    /\ regs \in Regs /\ stk \in {SCHED, PROC, USTACK} /\ stacks \in [{SCHED, PROC} -> Seq(Int)]
    /\ irr \in SUBSET Irqs /\ quiet \in SUBSET Irqs /\ first_time \in BOOLEAN
    /\ stk = SCHED => stacks[PROC] = NewStack

\* Only the innermost handler can have an interrupt in service.
InService ==
    isr = IF entered # << >> /\ entered[1].irq /\ ~entered[1].acked THEN {entered[1].v} ELSE {}

Inv == Types /\ Chain /\ Running /\ InService

-----------------------------------------------------------------------------
(* Stacks *)

\* Words pushed on a stack, and taken off again.
LEMMA Pushed ==
    ASSUME NEW x \in Seq(Int), NEW t \in Seq(Int)
    PROVE  /\ x \o t \in Seq(Int) /\ Len(x \o t) = Len(x) + Len(t)
           /\ \A i \in 1 .. Len(x) : (x \o t)[i] = x[i]
           /\ SubSeq(x \o t, Len(x) + 1, Len(x \o t)) = t
OBVIOUS

\* The words below those pushed.
LEMMA Beneath ==
    ASSUME NEW x \in Seq(Int), NEW t \in Seq(Int)
    PROVE  \A i \in Len(x) + 1 .. Len(x) + Len(t) : (x \o t)[i] = t[i - Len(x)]
<1>1. \A i \in 1 .. Len(x) + Len(t) : (x \o t)[i] = IF i <= Len(x) THEN x[i] ELSE t[i - Len(x)]
  BY ConcatProperties, Zenon
<1>2. Len(x) \in Nat /\ Len(t) \in Nat
  OBVIOUS
<1>3. \A i \in Len(x) + 1 .. Len(x) + Len(t) : i \in 1 .. Len(x) + Len(t) /\ ~(i <= Len(x))
  BY <1>2
<1>. QED BY <1>1, <1>3, Zenon

\* Pushing twice is pushing once.
LEMMA PushedTwice ==
    ASSUME NEW x \in Seq(Int), NEW y \in Seq(Int), NEW t \in Seq(Int)
    PROVE  (x \o y) \o t = x \o (y \o t)
OBVIOUS

\* Pushing nothing.
LEMMA PushedNothing == ASSUME NEW t \in Seq(Int) PROVE t \o << >> = t /\ << >> \o t = t
OBVIOUS

\* Sequences with the same words are the same.
LEMMA SameWords ==
    ASSUME NEW x \in Seq(Int), NEW t \in Seq(Int), Len(x) = Len(t),
           \A i \in 1 .. Len(x) : x[i] = t[i]
    PROVE  x = t
OBVIOUS

\* The parts of an entry.
LEMMA EntryType ==
    ASSUME NEW e \in Entries
    PROVE  e.ctx \in Contexts /\ e.ctx.regs \in Regs /\ e.v \in Int
<1>1. e.ctx \in Contexts /\ e.v \in Int
  BY DEF Entries
<1>2. \A c \in Contexts : c.regs \in Regs
  BY Zenon DEF Contexts
<1>. QED BY <1>1, <1>2, Zenon

\* The parts of a context that end up in a frame are words.
LEMMA ContextWords ==
    ASSUME NEW c \in Contexts
    PROVE  /\ c.regs.eip \in Int /\ c.regs.cs \in Int /\ c.regs.eflags \in Int
           /\ c.regs.esp \in Int /\ c.regs.ss \in Int /\ c.stack \in Seq(Int)
<1>1. c.regs \in Regs /\ c.stack \in Seq(Int)
  BY Zenon DEF Contexts
<1>2. \A r \in Regs : /\ r.eip \in Int /\ r.cs \in Int /\ r.eflags \in Int
                     /\ r.esp \in Int /\ r.ss \in Int
  BY DEF Regs, FL_IF
<1>. QED BY <1>1, <1>2, Zenon

\* ... and so are those of the frame.
LEMMA FrameType == ASSUME NEW c \in Contexts PROVE Frame(c) \in Seq(Int)
<1>. DEFINE x == <<c.regs.eip, c.regs.cs, c.regs.eflags>>  y == <<c.regs.esp, c.regs.ss>>
            z == IF c.stk = USTACK THEN y ELSE c.stack
<1>1. x \in Seq(Int) /\ y \in Seq(Int)
  BY ContextWords
<1>. HIDE DEF x, y
<1>2. z \in Seq(Int)
  BY <1>1, ContextWords, Zenon
<1>. HIDE DEF z
<1>3. x \o z \in Seq(Int)
  BY <1>1, <1>2, Pushed, Zenon
<1>. QED BY <1>3, Zenon DEF Frame, x, y, z

\* ... with the vector and the 0 on top.
LEMMA BelowType ==
    ASSUME NEW e \in Entries
    PROVE  Below(e) \in Seq(Int) /\ Frame(e.ctx) \in Seq(Int) /\ Len(Below(e)) \in Nat
<1>1. e.ctx \in Contexts /\ e.v \in Int
  BY DEF Entries
<1>2. Frame(e.ctx) \in Seq(Int)
  BY <1>1, FrameType, Zenon
<1>3. Below(e) \in Seq(Int)
  BY <1>1, <1>2 DEF Below
<1>. QED BY <1>2, <1>3

\* The registers that trapret pops off s are those of r.
Pops(s, r) ==
    /\ s[1] = r.edi /\ s[2] = r.esi /\ s[3] = r.ebp /\ s[5] = r.ebx /\ s[6] = r.edx
    /\ s[7] = r.ecx /\ s[8] = r.eax /\ s[9] = r.gs /\ s[10] = r.fs /\ s[11] = r.es
    /\ s[12] = r.ds

\* The words that alltraps pushes.
LEMMA SavedWords ==
    ASSUME NEW r \in Regs, NEW o \in Int
    PROVE  Saved(r, o) \in Seq(Int) /\ Len(Saved(r, o)) = 12 /\ Pops(Saved(r, o), r)
<1>1. /\ r.edi \in Int /\ r.esi \in Int /\ r.ebp \in Int /\ r.ebx \in Int /\ r.edx \in Int
      /\ r.ecx \in Int /\ r.eax \in Int /\ r.gs \in Int /\ r.fs \in Int /\ r.es \in Int
      /\ r.ds \in Int
  BY DEF Regs, KDATA, UDATA
<1>. QED BY <1>1 DEF Saved, Pops

\* trapret and iret unwind what alltraps and the vector have pushed.
LEMMA Unwound ==
    ASSUME NEW e \in Entries, NEW o \in Int, NEW s, s = Saved(e.ctx.regs, o) \o Below(e)
    PROVE  s \in Seq(Int) /\ SubSeq(s, 15, Len(s)) = Frame(e.ctx) /\ Pops(s, e.ctx.regs)
<1>. DEFINE r == e.ctx.regs  x == Saved(r, o)  y == <<e.v, 0>>  t == Frame(e.ctx)
<1>1. r \in Regs /\ y \in Seq(Int) /\ Len(y) = 2
  <2>1. r \in Regs /\ e.v \in Int
    BY EntryType, Zenon
  <2>2. \A k \in Int : <<k, 0>> \in Seq(Int) /\ Len(<<k, 0>>) = 2
    OBVIOUS
  <2>. QED BY <2>1, <2>2, Zenon
<1>2. x \in Seq(Int) /\ Len(x) = 12 /\ t \in Seq(Int)
  BY <1>1, SavedWords, BelowType, Zenon
<1>3. Pops(x, r)
  BY <1>1, SavedWords, Zenon
<1>4. s = x \o (y \o t) /\ s = (x \o y) \o t
  BY <1>1, <1>2, PushedTwice, Zenon DEF Below
<1>. HIDE DEF r, x, y, t
<1>5. x \o y \in Seq(Int) /\ Len(x \o y) = 14 /\ y \o t \in Seq(Int)
  <2>1. x \o y \in Seq(Int) /\ Len(x \o y) = Len(x) + Len(y) /\ y \o t \in Seq(Int)
    BY <1>1, <1>2, Pushed, Zenon
  <2>2. 12 + 2 = 14
    OBVIOUS
  <2>. QED BY <1>1, <1>2, <2>1, <2>2, Zenon
<1>. DEFINE z == x \o y  u == y \o t
<1>6. SubSeq(z \o t, Len(z) + 1, Len(z \o t)) = t /\ z \o t \in Seq(Int)
  BY <1>2, <1>5, Pushed, Zenon
<1>7. \A i \in 1 .. Len(x) : (x \o u)[i] = x[i]
  BY <1>2, <1>5, Pushed, Zenon
<1>8. SubSeq(s, 15, Len(s)) = t /\ s \in Seq(Int)
  <2>1. Len(z) + 1 = 15
    BY <1>5
  <2>. QED BY <1>4, <1>6, <2>1, Zenon
<1>9. \A i \in 1 .. 12 : s[i] = x[i]
  BY <1>2, <1>4, <1>7, Zenon
<1>10. Pops(s, r)
  <2>1. {1, 2, 3, 5, 6, 7, 8, 9, 10, 11, 12} \subseteq 1 .. 12
    OBVIOUS
  <2>. QED BY <1>3, <1>9, <2>1, Zenon DEF Pops
<1>. QED BY <1>8, <1>10, Zenon DEF r, t

-----------------------------------------------------------------------------
(* What runs *)

\* The points of the code that handles an entry, one at a time.
LEMMA At ==
    ASSUME NEW e \in Entries, NEW c, Handles(c, e)
    PROVE  /\ c.regs.eip \notin {LOOP, START, FORKRET, PANIC} /\ c.regs.eip \in Points
           /\ c.regs.eip = VECTOR + e.v =>
                ~e.acked /\ Same(c.regs, e.ctx.regs) /\ c.stack = Frame(e.ctx)
           /\ c.regs.eip = ALLTRAPS =>
                ~e.acked /\ Same(c.regs, e.ctx.regs) /\ c.stack = Below(e)
           /\ c.regs.eip = TRAP =>
                ~e.acked /\ \E o \in Int : c.stack = <<TRAPRET, Len(Below(e)) + 12>>
                                                      \o (Saved(e.ctx.regs, o) \o Below(e))
           /\ c.regs.eip = TRAPRET =>
                e.acked /\ \E o \in Int : c.stack = Saved(e.ctx.regs, o) \o Below(e)
           /\ c.regs.eip = IRET =>
                e.acked /\ Same(c.regs, e.ctx.regs) /\ c.stack = Frame(e.ctx)
           /\ \A v \in 0 .. 255 : c.regs.eip = VECTOR + v => v = e.v
<1>. DEFINE V == VECTOR + e.v
<1>1. /\ V \notin {LOOP, START, FORKRET, PANIC, ALLTRAPS, TRAP, TRAPRET, IRET} /\ V \in Points
      /\ \A v \in 0 .. 255 : VECTOR + v = V => v = e.v
      /\ \A v \in 0 .. 255 : VECTOR + v \notin {ALLTRAPS, TRAP, TRAPRET, IRET}
  <2>1. e.v \in 0 .. 255
    BY Zenon DEF Entries
  <2>2. V \in Points
    BY <2>1, Zenon DEF Points
  <2>. DEFINE w == e.v
  <2>3. w \in 0 .. 255
    BY <2>1, Zenon
  <2>. HIDE DEF w
  <2>4. /\ VECTOR + w \notin {LOOP, START, FORKRET, PANIC, ALLTRAPS, TRAP, TRAPRET, IRET}
        /\ \A v \in 0 .. 255 : VECTOR + v = VECTOR + w => v = w
        /\ \A v \in 0 .. 255 : VECTOR + v \notin {ALLTRAPS, TRAP, TRAPRET, IRET}
    BY <2>3 DEF VECTOR, LOOP, START, FORKRET, PANIC, ALLTRAPS, TRAP, TRAPRET, IRET
  <2>. QED BY <2>2, <2>4, Zenon DEF w
<1>2. {ALLTRAPS, TRAP, TRAPRET, IRET} \subseteq Points \ {LOOP, START, FORKRET, PANIC}
  BY DEF Points, VECTOR, LOOP, START, FORKRET, PANIC, ALLTRAPS, TRAP, TRAPRET, IRET
<1>3. /\ ALLTRAPS \notin {TRAP, TRAPRET, IRET} /\ TRAP \notin {TRAPRET, IRET} /\ TRAPRET # IRET
  BY DEF ALLTRAPS, TRAP, TRAPRET, IRET
<1>. QED BY <1>1, <1>2, <1>3, Zenon DEF Handles

\* A resting context is at a point of its own.
LEMMA RestingAt ==
    ASSUME NEW c, Resting(c)
    PROVE  /\ c.regs.eip \in {LOOP, START}
           /\ c.regs.eip \notin {ALLTRAPS, TRAP, TRAPRET, IRET, FORKRET, PANIC}
           /\ \A v \in 0 .. 255 : c.regs.eip # VECTOR + v
<1>1. /\ {LOOP, START} \cap {ALLTRAPS, TRAP, TRAPRET, IRET, FORKRET, PANIC} = {}
      /\ \A v \in 0 .. 255 : VECTOR + v \notin {LOOP, START}
  BY DEF VECTOR, LOOP, START, FORKRET, PANIC, ALLTRAPS, TRAP, TRAPRET, IRET
<1>. QED BY <1>1, Zenon DEF Resting

\* ... and so is forkret.
LEMMA ForkingAt ==
    ASSUME NEW c, NEW e, Forking(c, e)
    PROVE  /\ c.regs.eip \notin {ALLTRAPS, TRAP, TRAPRET, IRET, LOOP, START}
           /\ \A v \in 0 .. 255 : c.regs.eip # VECTOR + v
<1>1. /\ {FORKRET, PANIC} \cap {ALLTRAPS, TRAP, TRAPRET, IRET, LOOP, START} = {}
      /\ \A v \in 0 .. 255 : VECTOR + v \notin {FORKRET, PANIC}
  BY DEF VECTOR, LOOP, START, FORKRET, PANIC, ALLTRAPS, TRAP, TRAPRET, IRET
<1>. QED BY <1>1, Zenon DEF Forking

\* The context is made of the registers and the current stack.
LEMMA ContextParts ==
    ASSUME Types
    PROVE  /\ Context \in Contexts /\ Context.regs = regs /\ Context.stk = stk
           /\ Context.stack = IF stk = USTACK THEN << >> ELSE stacks[stk]
           /\ stk # USTACK => stacks[stk] \in Seq(Int)
<1>1. /\ Context.regs = regs /\ Context.stk = stk
      /\ Context.stack = IF stk = USTACK THEN << >> ELSE stacks[stk]
  BY Zenon DEF Context
<1>2. stk # USTACK => stacks[stk] \in Seq(Int)
  BY Zenon DEF Types
<1>3. Context.stack \in Seq(Int)
  <2>1. << >> \in Seq(Int)
    OBVIOUS
  <2>. QED BY <1>1, <1>2, <2>1, Zenon
<1>4. Context \in Contexts
  <2>. DEFINE w == IF stk = USTACK THEN << >> ELSE stacks[stk]
  <2>1. regs \in Regs /\ stk \in {SCHED, PROC, USTACK} /\ w \in Seq(Int)
    BY <1>1, <1>3, Zenon DEF Types
  <2>2. Context = [regs |-> regs, stk |-> stk, stack |-> w]
    BY Zenon DEF Context
  <2>. HIDE DEF w
  <2>. QED BY <2>1, <2>2, Zenon DEF Contexts
<1>. QED BY <1>1, <1>2, <1>4, Zenon

\* The innermost entry.
LEMMA Innermost ==
    ASSUME Chain, entered # << >>
    PROVE  entered[1] \in Entries /\ Len(entered) \in {1, 2}
<1>1. entered \in Seq(Entries) /\ Len(entered) <= 2
  BY Zenon DEF Chain
<1>2. \A s \in Seq(Entries) : s # << >> /\ Len(s) <= 2 => s[1] \in Entries /\ Len(s) \in {1, 2}
  <2>. SUFFICES ASSUME NEW s \in Seq(Entries), s # << >>, Len(s) <= 2
                PROVE  s[1] \in Entries /\ Len(s) \in {1, 2}
    BY Zenon
  <2>1. Len(s) \in Nat /\ s \in [1 .. Len(s) -> Entries] /\ Len(s) # 0
    BY LenProperties, EmptySeq, Zenon
  <2>2. Len(s) \in {1, 2} /\ 1 \in 1 .. Len(s)
    BY <2>1
  <2>. QED BY <2>1, <2>2, Zenon
<1>. QED BY <1>1, <1>2, Zenon

\* User code, and only it, runs on no kernel stack.
LEMMA Ring ==
    ASSUME Types, Chain, Running
    PROVE  /\ FromUser <=> stk = USTACK
           /\ stk = USTACK => entered = << >>
           /\ regs.cs \in {KCODE, UCODE} /\ (stk = USTACK <=> regs.cs = UCODE)
           /\ regs.ss \in {KDATA, UDATA} /\ regs.eip \in Points
           /\ stk # USTACK => regs.cs = KCODE /\ regs.ss = KDATA /\ regs.esp = 0
<1>0. KCODE % 4 # 3 /\ UCODE % 4 = 3 /\ KCODE # UCODE /\ PROC # USTACK /\ SCHED # USTACK
  BY DEF KCODE, UCODE, PROC, SCHED, USTACK
<1>1. Context.regs = regs /\ Context.stk = stk
  BY ContextParts, Zenon
<1>2. CASE entered = << >>
  <2>1. Resting(Context)
    BY <1>2, Zenon DEF Running
  <2>. QED BY <1>0, <1>1, <1>2, <2>1, Zenon DEF Resting, InKernel, FromUser, Points
<1>3. CASE entered # << >>
  <2>1. CASE Handles(Context, entered[1])
    <3>1. /\ InKernel(Context)
          /\ Context.stk = IF entered[1].ctx.stk = USTACK THEN PROC ELSE entered[1].ctx.stk
      BY <2>1, Zenon DEF Handles
    <3>2. stk # USTACK /\ regs.cs = KCODE /\ regs.ss = KDATA /\ regs.esp = 0
      BY <1>0, <1>1, <3>1, Zenon DEF InKernel
    <3>3. regs.eip \in Points
      BY <1>1, <1>3, <2>1, Innermost, At, Zenon
    <3>. QED BY <1>0, <3>2, <3>3, Zenon DEF FromUser
  <2>2. CASE Forking(Context, entered[1])
    BY <1>0, <1>1, <1>3, <2>2, Zenon DEF Forking, InKernel, FromUser, Points
  <2>. QED BY <1>3, <2>1, <2>2, Zenon DEF Running
<1>. QED BY <1>2, <1>3, Zenon

-----------------------------------------------------------------------------
(* The processor's entry *)

\* What the processor pushes is the frame of the context it interrupts, and its handler
\* starts.
LEMMA EnterHandles ==
    ASSUME Types, Chain, Running, NEW v \in 0 .. 255, v \notin ErrVectors, NEW irq \in BOOLEAN,
           Enter(v, irq)
    PROVE  LET e == [ctx |-> Context, v |-> v, irq |-> irq, acked |-> FALSE]
           IN  /\ e \in Entries /\ entered' = <<e>> \o entered /\ Handles(Context', e)
               /\ regs' \in Regs /\ stk' \in {SCHED, PROC}
               /\ stacks' \in [{SCHED, PROC} -> Seq(Int)]
               /\ stk' = SCHED => stk = SCHED /\ stacks'[PROC] = stacks[PROC]
<1>. DEFINE e == [ctx |-> Context, v |-> v, irq |-> irq, acked |-> FALSE]
            to == IF FromUser THEN PROC ELSE stk
            below == IF FromUser THEN << >> ELSE stacks[stk]
            err == IF v \in ErrVectors THEN <<ERROR_CODE>> ELSE << >>
            outer == IF FromUser THEN <<regs.esp, regs.ss>> ELSE << >>
            pushed == (err \o <<regs.eip, regs.cs, regs.eflags>>) \o outer
<1>1. /\ stacks' = [stacks EXCEPT ![to] = pushed \o below] /\ stk' = to
      /\ regs' = [regs EXCEPT !.eip = VECTOR + v, !.cs = KCODE, !.ss = KDATA, !.esp = 0,
                              !.eflags = IF v = T_SYSCALL THEN @ ELSE 0]
      /\ entered' = <<e>> \o entered
  BY Zenon DEF Enter
<1>2. e \in Entries /\ e.ctx = Context /\ e.v = v /\ e.acked = FALSE
  <2>1. Context \in Contexts
    BY ContextParts, Zenon
  <2>. DEFINE c == Context
  <2>. HIDE DEF c
  <2>2. c \in Contexts
    BY <2>1, Zenon DEF c
  <2>3. /\ [ctx |-> c, v |-> v, irq |-> irq, acked |-> FALSE] \in Entries
        /\ [ctx |-> c, v |-> v, irq |-> irq, acked |-> FALSE].ctx = c
        /\ [ctx |-> c, v |-> v, irq |-> irq, acked |-> FALSE].v = v
        /\ [ctx |-> c, v |-> v, irq |-> irq, acked |-> FALSE].acked = FALSE
    BY <2>2, Zenon DEF Entries
  <2>. QED BY <2>3, Zenon DEF c
<1>3. FromUser <=> stk = USTACK
  BY Ring, Zenon
<1>4. to \in {SCHED, PROC} /\ PROC # USTACK /\ SCHED # PROC
  BY <1>3 DEF Types, SCHED, PROC, USTACK
<1>5. /\ regs.eip \in Int /\ regs.cs \in Int /\ regs.eflags \in Int /\ regs.esp \in Int
      /\ regs.ss \in Int
  <2>1. regs \in Regs
    BY Zenon DEF Types
  <2>. QED BY <2>1 DEF Regs, FL_IF
<1>6. pushed \o below = Frame(Context) /\ Frame(Context) \in Seq(Int)
  <2>1. /\ Context.regs = regs /\ Context.stk = stk /\ Context \in Contexts
        /\ stk # USTACK => Context.stack = stacks[stk] /\ stacks[stk] \in Seq(Int)
    BY ContextParts, Zenon
  <2>. DEFINE A == <<regs.eip, regs.cs, regs.eflags>>
  <2>2. A \in Seq(Int) /\ <<regs.esp, regs.ss>> \in Seq(Int) /\ << >> \in Seq(Int)
    BY <1>5
  <2>. HIDE DEF A
  <2>3. << >> \o A = A /\ A \o << >> = A
    BY <2>2, PushedNothing, Zenon
  <2>4. err = << >>
    BY Zenon
  <2>. HIDE DEF err
  <2>5. (err \o A) = A
    BY <2>3, <2>4, Zenon
  <2>6. Frame(Context) \in Seq(Int)
    BY <2>1, FrameType, Zenon
  <2>7. CASE stk = USTACK
    <3>1. Frame(Context) = A \o <<regs.esp, regs.ss>>
      BY <2>1, <2>7, Zenon DEF Frame, A
    <3>2. outer = <<regs.esp, regs.ss>> /\ below = << >>
      BY <1>3, <2>7, Zenon
    <3>. HIDE DEF outer, below
    <3>3. (A \o outer) \o below = Frame(Context)
      BY <2>6, <3>1, <3>2, PushedNothing, Zenon
    <3>. QED BY <2>5, <2>6, <3>3, Zenon DEF A
  <2>8. CASE stk # USTACK
    <3>1. Frame(Context) = A \o stacks[stk]
      BY <2>1, <2>8, Zenon DEF Frame, A
    <3>2. outer = << >> /\ below = stacks[stk]
      BY <1>3, <2>8, Zenon
    <3>. HIDE DEF outer, below
    <3>3. (A \o outer) \o below = Frame(Context)
      BY <2>3, <3>1, <3>2, Zenon
    <3>. QED BY <2>5, <2>6, <3>3, Zenon DEF A
  <2>. QED BY <2>7, <2>8, Zenon
<1>. HIDE DEF pushed, below
<1>7. stacks' \in [{SCHED, PROC} -> Seq(Int)] /\ stacks'[to] = Frame(Context)
  BY <1>1, <1>4, <1>6, Zenon DEF Types
<1>8. stk' = SCHED => stk = SCHED /\ stacks'[PROC] = stacks[PROC]
  BY <1>1, <1>4, Zenon DEF Types
<1>9. /\ regs' \in Regs /\ Same(regs', regs) /\ regs'.eip = VECTOR + v /\ regs'.cs = KCODE
      /\ regs'.ss = KDATA /\ regs'.esp = 0 /\ (regs'.eflags = FL_IF => v = T_SYSCALL)
  <2>. DEFINE f == IF v = T_SYSCALL THEN regs.eflags ELSE 0
  <2>1. regs \in Regs /\ VECTOR + v \in Int /\ KCODE \in Int /\ KDATA \in Int /\ 0 \in Int
    BY DEF Types, VECTOR, KCODE, KDATA
  <2>2. f \in {0, FL_IF} /\ (f = FL_IF => v = T_SYSCALL)
    <3>1. regs.eflags \in {0, FL_IF} /\ FL_IF # 0
      BY <2>1 DEF Regs, FL_IF
    <3>. QED BY <3>1, Zenon
  <2>3. regs' = [regs EXCEPT !.eip = VECTOR + v, !.cs = KCODE, !.ss = KDATA, !.esp = 0,
                             !.eflags = f]
    BY <1>1, Zenon
  <2>. HIDE DEF f
  <2>4. /\ regs' \in Regs /\ Same(regs', regs) /\ regs'.eip = VECTOR + v /\ regs'.cs = KCODE
        /\ regs'.ss = KDATA /\ regs'.esp = 0 /\ regs'.eflags = f
    <3>1. regs' \in Regs
      BY <2>1, <2>2, <2>3, Zenon DEF Regs
    <3>2. /\ regs'.eip = VECTOR + v /\ regs'.cs = KCODE /\ regs'.ss = KDATA /\ regs'.esp = 0
          /\ regs'.eflags = f
      BY <2>1, <2>3, Zenon DEF Regs
    <3>3. Same(regs', regs)
      BY <2>1, <2>3, Zenon DEF Regs, Same
    <3>. QED BY <3>1, <3>2, <3>3, Zenon
  <2>. QED BY <2>2, <2>4, Zenon
<1>10. Context'.regs = regs' /\ Context'.stk = to /\ Context'.stack = Frame(Context)
  <2>1. Context' = [regs |-> regs', stk |-> to, stack |-> stacks'[to]]
    BY <1>1, <1>3, <1>4, Zenon DEF Context, Types
  <2>. QED BY <1>7, <2>1, Zenon
<1>11. Handles(Context', e)
  <2>1. Context.stk = stk /\ Context.regs = regs
    BY ContextParts, Zenon
  <2>. HIDE DEF e
  <2>. QED BY <1>2, <1>3, <1>9, <1>10, <2>1, Zenon DEF Handles, InKernel
<1>. QED BY <1>1, <1>2, <1>4, <1>7, <1>8, <1>9, <1>11, Zenon

\* An entry put in front of the others.
LEMMA Prepended ==
    ASSUME NEW S, NEW a \in S, NEW s \in Seq(S)
    PROVE  /\ <<a>> \o s \in Seq(S) /\ Len(<<a>> \o s) = 1 + Len(s) /\ <<a>> \o s # << >>
           /\ (<<a>> \o s)[1] = a /\ (Len(s) = 1 => (<<a>> \o s)[2] = s[1])
<1>1. /\ <<a>> \o s \in Seq(S) /\ Len(<<a>> \o s) = 1 + Len(s)
      /\ (<<a>> \o s)[1] = a /\ (Len(s) = 1 => (<<a>> \o s)[2] = s[1])
  OBVIOUS
<1>2. <<a>> \o s # << >>
  <2>1. Len(s) \in Nat
    BY LenProperties, Zenon
  <2>2. 1 + Len(s) # 0
    BY <2>1
  <2>. QED BY <1>1, <2>2, EmptySeq, Zenon
<1>. QED BY <1>1, <1>2, Zenon

\* Interrupts are taken in the loop, in user code, and in a system call.
LEMMA Interruptible ==
    ASSUME Inv, regs.eflags = FL_IF, entered # << >>
    PROVE  /\ Handles(Context, entered[1]) /\ Len(entered) = 1 /\ entered[1].v = T_SYSCALL
           /\ Resting(entered[1].ctx) /\ ~entered[1].irq /\ isr = {}
<1>1. Context.regs = regs
  BY ContextParts, Zenon DEF Inv
<1>2. entered[1] \in Entries /\ Len(entered) \in {1, 2}
  BY Innermost, Zenon DEF Inv
<1>3. Handles(Context, entered[1])
  <2>1. FL_IF # 0
    BY DEF FL_IF
  <2>. QED BY <1>1, <2>1, Zenon DEF Inv, Running, Forking
<1>4. entered[1].v = T_SYSCALL
  BY <1>1, <1>3, Zenon DEF Handles
<1>5. Len(entered) = 1
  BY <1>2, <1>4, Zenon DEF Inv, Chain
<1>6. ~entered[1].irq
  <2>1. 1 \in 1 .. 1
    OBVIOUS
  <2>2. T_SYSCALL \notin Irqs
    BY TrapAssumption DEF T_SYSCALL
  <2>. QED BY <1>4, <1>5, <2>1, <2>2, Zenon DEF Inv, Chain
<1>. QED BY <1>3, <1>4, <1>5, <1>6, Zenon DEF Inv, Chain, InService

\* An entry keeps the invariant: it interrupts what rests, or a system call.
LEMMA EnterStep ==
    ASSUME Inv, NEW v \in 0 .. 255, v \notin ErrVectors, NEW irq \in BOOLEAN, Enter(v, irq),
           regs.eflags = FL_IF, entered = << >> \/ v # T_SYSCALL, irq => v \in Irqs,
           irr' \in SUBSET Irqs, UNCHANGED <<quiet, first_time>>,
           isr' = isr \cup (IF irq THEN {v} ELSE {})
    PROVE  Inv'
<1>. DEFINE e == [ctx |-> Context, v |-> v, irq |-> irq, acked |-> FALSE]
<1>1. /\ e \in Entries /\ entered' = <<e>> \o entered /\ Handles(Context', e)
      /\ regs' \in Regs /\ stk' \in {SCHED, PROC} /\ stacks' \in [{SCHED, PROC} -> Seq(Int)]
      /\ stk' = SCHED => stk = SCHED /\ stacks'[PROC] = stacks[PROC]
  BY EnterHandles, Zenon DEF Inv
<1>2. e.ctx = Context /\ e.v = v /\ e.irq = irq /\ e.acked = FALSE
  BY Zenon
<1>. HIDE DEF e
<1>3. Types'
  BY <1>1, Zenon DEF Inv, Types
<1>4. entered \in Seq(Entries) /\ << >> \in Seq(Entries) /\ Len(<< >>) = 0
  BY EmptySeq, Zenon DEF Inv, Chain
<1>5. /\ entered' \in Seq(Entries) /\ Len(entered') = 1 + Len(entered) /\ entered' # << >>
      /\ entered'[1] = e /\ (Len(entered) = 1 => entered'[2] = entered[1])
  <2>. DEFINE s == <<e>> \o entered
  <2>1. /\ s \in Seq(Entries) /\ Len(s) = 1 + Len(entered) /\ s # << >>
        /\ s[1] = e /\ (Len(entered) = 1 => s[2] = entered[1])
    BY <1>1, <1>4, Prepended
  <2>2. entered' = s
    BY <1>1, Zenon
  <2>. HIDE DEF s
  <2>. QED BY <2>1, <2>2, Zenon
<1>6. Running'
  BY <1>1, <1>5, Zenon DEF Running
<1>7. CASE entered = << >>
  <2>1. Len(entered') = 1 /\ Len(entered') <= 2 /\ Len(entered') # 2 /\ 1 .. Len(entered') = {1}
    BY <1>4, <1>5, <1>7
  <2>2. Resting(e.ctx)
    BY <1>2, <1>7, Zenon DEF Inv, Running
  <2>3. Chain'
    BY <1>2, <1>5, <2>1, <2>2, Zenon DEF Chain
  <2>4. isr = {}
    BY <1>7, Zenon DEF Inv, InService
  <2>5. InService'
    BY <1>2, <1>5, <2>4, Zenon DEF InService
  <2>. QED BY <1>3, <1>6, <2>3, <2>5, Zenon DEF Inv
<1>8. CASE entered # << >>
  <2>1. /\ Handles(Context, entered[1]) /\ Len(entered) = 1 /\ entered[1].v = T_SYSCALL
        /\ Resting(entered[1].ctx) /\ ~entered[1].irq /\ isr = {}
    BY <1>8, Interruptible, Zenon
  <2>2. Len(entered') = 2 /\ Len(entered') <= 2 /\ Len(entered') # 1 /\ 1 .. Len(entered') = {1, 2}
    BY <1>5, <2>1
  <2>3. Chain'
    <3>1. T_SYSCALL \notin ErrVectors
      BY TrapAssumption DEF T_SYSCALL
    <3>. QED BY <1>2, <1>5, <1>8, <2>1, <2>2, <3>1, Zenon DEF Chain
  <2>4. InService'
    BY <1>2, <1>5, <2>1, Zenon DEF InService
  <2>. QED BY <1>3, <1>6, <2>3, <2>4, Zenon DEF Inv
<1>. QED BY <1>7, <1>8, Zenon

\* User code runs with interrupts enabled, and nothing below it.
LEMMA UserRests ==
    ASSUME Inv, FromUser
    PROVE  regs.eflags = FL_IF /\ entered = << >>
<1>1. Context.regs = regs
  BY ContextParts, Zenon DEF Inv
<1>2. entered = << >>
  BY Ring, Zenon DEF Inv
<1>. QED BY <1>1, <1>2, Zenon DEF Inv, Running, Resting

LEMMA DeliverStep == ASSUME Inv, NEW v \in Irqs, Deliver(v) PROVE Inv'
<1>1. v \in 0 .. 255 /\ v \notin ErrVectors /\ v # T_SYSCALL
  BY TrapAssumption DEF T_SYSCALL
<1>2. /\ regs.eflags = FL_IF /\ irr' = irr \ {v} /\ isr' = isr \cup {v} /\ Enter(v, TRUE)
      /\ UNCHANGED <<quiet, first_time>>
  BY Zenon DEF Deliver
<1>3. irr' \in SUBSET Irqs
  BY <1>2, Zenon DEF Inv, Types
<1>4. isr' = isr \cup (IF TRUE THEN {v} ELSE {})
  BY <1>2, Zenon
<1>. QED BY <1>1, <1>2, <1>3, <1>4, EnterStep, Zenon

\* The entries that leave the local APIC alone.
LEMMA QuietEntryStep ==
    ASSUME Inv, NEW v \in 0 .. 255, v \notin ErrVectors, Enter(v, FALSE), regs.eflags = FL_IF,
           entered = << >> \/ v # T_SYSCALL, UNCHANGED <<irr, isr, quiet, first_time>>
    PROVE  Inv'
<1>1. irr' \in SUBSET Irqs /\ isr' = isr \cup (IF FALSE THEN {v} ELSE {})
  BY Zenon DEF Inv, Types
<1>2. UNCHANGED <<quiet, first_time>> /\ FALSE \in BOOLEAN /\ (FALSE => v \in Irqs)
  BY Zenon
<1>. QED BY <1>1, <1>2, EnterStep, Zenon

LEMMA SpuriousStep == ASSUME Inv, Spurious PROVE Inv'
<1>1. SPURIOUS \in 0 .. 255 /\ SPURIOUS \notin ErrVectors /\ SPURIOUS # T_SYSCALL
  BY TrapAssumption DEF SPURIOUS, T_SYSCALL
<1>. QED BY <1>1, QuietEntryStep, Zenon DEF Spurious

LEMMA SyscallStep == ASSUME Inv, Syscall PROVE Inv'
<1>1. T_SYSCALL \in 0 .. 255 /\ T_SYSCALL \notin ErrVectors
  BY TrapAssumption DEF T_SYSCALL
<1>. QED BY <1>1, UserRests, QuietEntryStep, Zenon DEF Syscall

LEMMA FaultStep == ASSUME Inv, NoErrorCodes, NEW v \in Exceptions, Fault(v) PROVE Inv'
<1>1. v \in 0 .. 255 /\ v \notin ErrVectors
  BY TrapAssumption DEF NoErrorCodes
<1>. QED BY <1>1, UserRests, QuietEntryStep, Zenon DEF Fault

LEMMA RaiseStep == ASSUME Inv, NEW v \in Irqs, Raise(v) PROVE Inv'
<1>1. /\ irr' = irr \cup {v} /\ quiet' = IF v = TIMER THEN quiet ELSE quiet \cup {v}
      /\ UNCHANGED <<regs, stk, stacks, isr, first_time, entered>>
  BY Zenon DEF Raise
<1>2. irr' \in SUBSET Irqs /\ quiet' \in SUBSET Irqs
  BY <1>1, Zenon DEF Inv, Types
<1>3. Types'
  BY <1>1, <1>2, Zenon DEF Inv, Types
<1>4. Context' = Context
  BY <1>1, Zenon DEF Context
<1>. QED BY <1>1, <1>3, <1>4, Zenon DEF Inv, Chain, Running, InService

-----------------------------------------------------------------------------
(* The kernel's entry code *)

\* A step on a kernel stack that leaves the rest of the machine alone.
LEMMA Within ==
    ASSUME Types, stk # USTACK, NEW t \in Seq(Int), stacks' = [stacks EXCEPT ![stk] = t],
           regs' \in Regs, stk' = stk, irr' = irr, quiet' = quiet, first_time' \in BOOLEAN
    PROVE  Types' /\ Context'.regs = regs' /\ Context'.stk = stk /\ Context'.stack = t
<1>1. stk \in {SCHED, PROC} /\ SCHED # PROC
  BY Zenon DEF Types, SCHED, PROC, USTACK
<1>2. /\ stacks' \in [{SCHED, PROC} -> Seq(Int)] /\ stacks'[stk] = t
      /\ stk = SCHED => stacks'[PROC] = stacks[PROC]
  BY <1>1, Zenon DEF Types
<1>3. Types'
  BY <1>2, Zenon DEF Types
<1>4. Context' = [regs |-> regs', stk |-> stk, stack |-> t]
  BY <1>2, Zenon DEF Context
<1>. QED BY <1>3, <1>4, Zenon

\* The registers after a jump.
LEMMA Jump ==
    ASSUME NEW r \in Regs, NEW ip \in Int
    PROVE  [r EXCEPT !.eip = ip] \in Regs
BY Zenon DEF Regs

\* ... and after alltraps has loaded the kernel's data segments.
LEMMA Loaded ==
    ASSUME NEW r \in Regs, NEW ip \in Int, NEW x \in Int, NEW d \in {KDATA, UDATA}
    PROVE  [r EXCEPT !.eax = x, !.ds = d, !.es = d, !.eip = ip] \in Regs
BY Zenon DEF Regs

\* The code at a point of a handler has the innermost entry's frame below it.
LEMMA Handling ==
    ASSUME Inv, \/ regs.eip \in {ALLTRAPS, TRAP, TRAPRET, IRET}
                \/ \E v \in 0 .. 255 : regs.eip = VECTOR + v
    PROVE  /\ entered # << >> /\ entered[1] \in Entries /\ Handles(Context, entered[1])
           /\ Context.regs = regs /\ Context.stk = stk /\ stk # USTACK
           /\ Context.stack = stacks[stk] /\ stacks[stk] \in Seq(Int) /\ regs \in Regs
<1>1. /\ Context.regs = regs /\ Context.stk = stk
      /\ Context.stack = IF stk = USTACK THEN << >> ELSE stacks[stk]
      /\ stk # USTACK => stacks[stk] \in Seq(Int)
  BY ContextParts, Zenon DEF Inv
<1>2. ~Resting(Context) /\ ~Forking(Context, entered[1])
  <2>1. ~Resting(Context)
    BY <1>1, RestingAt, Zenon
  <2>2. ~Forking(Context, entered[1])
    BY <1>1, ForkingAt, Zenon
  <2>. QED BY <2>1, <2>2, Zenon
<1>3. entered # << >> /\ Handles(Context, entered[1])
  BY <1>2, Zenon DEF Inv, Running
<1>4. stk # USTACK
  BY <1>3, Ring, Zenon DEF Inv
<1>5. entered[1] \in Entries
  BY <1>3, Innermost, Zenon DEF Inv
<1>. QED BY <1>1, <1>3, <1>4, <1>5, Zenon DEF Inv, Types

\* What is left to show of a step that neither enters nor leaves a handler.
LEMMA Onward ==
    ASSUME Inv, entered # << >>, Types', Handles(Context', entered[1]), entered' = entered,
           isr' = isr
    PROVE  Inv'
<1>1. Chain'
  BY Zenon DEF Inv, Chain
<1>2. Running'
  BY Zenon DEF Running
<1>3. InService'
  BY Zenon DEF Inv, InService
<1>. QED BY <1>1, <1>2, <1>3, Zenon DEF Inv

LEMMA StubStep == ASSUME Inv, NEW v \in 0 .. 255, Stub(v) PROVE Inv'
<1>. DEFINE e == entered[1]  t == <<v, 0>> \o stacks[stk]
<1>1. /\ regs.eip = VECTOR + v /\ regs' = [regs EXCEPT !.eip = ALLTRAPS]
      /\ stk' = stk /\ irr' = irr /\ isr' = isr /\ quiet' = quiet /\ first_time' = first_time
      /\ entered' = entered
  BY Zenon DEF Stub
<1>2. /\ entered # << >> /\ e \in Entries /\ Handles(Context, e)
      /\ Context.regs = regs /\ Context.stk = stk /\ stk # USTACK
      /\ Context.stack = stacks[stk] /\ stacks[stk] \in Seq(Int) /\ regs \in Regs
  BY <1>1, Handling, Zenon
<1>3. v = e.v
  BY <1>1, <1>2, At, Zenon
<1>4. ~e.acked /\ Same(regs, e.ctx.regs) /\ t = Below(e)
  <2>1. ~e.acked /\ Same(regs, e.ctx.regs) /\ stacks[stk] = Frame(e.ctx)
    <3>1. Context.regs.eip = VECTOR + e.v
      BY <1>1, <1>2, <1>3, Zenon
    <3>2. ~e.acked /\ Same(Context.regs, e.ctx.regs) /\ Context.stack = Frame(e.ctx)
      <4>. HIDE DEF e
      <4>. QED BY <1>2, <3>1, At, Zenon
    <3>. QED BY <1>2, <3>2, Zenon
  <2>2. <<v, 0>> = <<e.v, 0>>
    BY <1>3, Zenon
  <2>. QED BY <2>1, <2>2, Zenon DEF Below
<1>5. t \in Seq(Int)
  BY <1>2, <1>4, BelowType, Zenon
<1>6. stacks' = [stacks EXCEPT ![stk] = t]
  BY Zenon DEF Stub, Push
<1>7. regs' \in Regs
  <2>1. ALLTRAPS \in Int
    BY DEF ALLTRAPS
  <2>. QED BY <1>1, <1>2, <2>1, Jump, Zenon
<1>8. /\ regs'.eip = ALLTRAPS /\ regs'.cs = regs.cs /\ regs'.ss = regs.ss
      /\ regs'.esp = regs.esp /\ regs'.eflags = regs.eflags
  BY <1>1, <1>2, Zenon DEF Regs
<1>9. Same(regs', regs)
  BY <1>1, <1>2, Zenon DEF Regs, Same
<1>. HIDE DEF t
<1>10. Types' /\ Context'.regs = regs' /\ Context'.stk = stk /\ Context'.stack = t
  BY <1>1, <1>2, <1>5, <1>6, <1>7, Within, Zenon DEF Inv, Types
<1>. HIDE DEF e
<1>11. Same(regs', e.ctx.regs)
  BY <1>4, <1>9, Zenon DEF Same
<1>12. Handles(Context', e)
  BY <1>2, <1>4, <1>8, <1>10, <1>11, Zenon DEF Handles, InKernel
<1>. QED BY <1>1, <1>2, <1>10, <1>12, Onward, Zenon DEF e

LEMMA AllTrapsStep == ASSUME Inv, AllTraps PROVE Inv'
<1>. DEFINE e == entered[1]  s == stacks[stk]  o == Len(s) + 4
            top == <<TRAPRET, Len(s) + 12>>
            t == (top \o Saved(regs, o)) \o s
<1>1. /\ regs.eip = ALLTRAPS
      /\ regs' = [regs EXCEPT !.eax = KDATA, !.ds = KDATA, !.es = KDATA, !.eip = TRAP]
      /\ stk' = stk /\ irr' = irr /\ isr' = isr /\ quiet' = quiet /\ first_time' = first_time
      /\ entered' = entered
  BY Zenon DEF AllTraps
<1>2. /\ entered # << >> /\ e \in Entries /\ Handles(Context, e)
      /\ Context.regs = regs /\ Context.stk = stk /\ stk # USTACK
      /\ Context.stack = s /\ s \in Seq(Int) /\ regs \in Regs
  BY <1>1, Handling, Zenon
<1>3. ~e.acked /\ Same(regs, e.ctx.regs) /\ s = Below(e)
  BY <1>1, <1>2, At, Zenon
<1>4. stacks' = [stacks EXCEPT ![stk] = t]
  BY Zenon DEF AllTraps, Push, Stack, Saved
<1>5. regs' \in Regs
  <2>1. TRAP \in Int /\ KDATA \in Int /\ KDATA \in {KDATA, UDATA}
    BY DEF TRAP, KDATA
  <2>. QED BY <1>1, <1>2, <2>1, Loaded, Zenon
<1>6. /\ regs'.eip = TRAP /\ regs'.cs = regs.cs /\ regs'.ss = regs.ss
      /\ regs'.esp = regs.esp /\ regs'.eflags = regs.eflags
  BY <1>1, <1>2, Zenon DEF Regs
<1>7. top \in Seq(Int) /\ o \in Int
  <2>1. Len(s) \in Nat
    BY <1>2, LenProperties, Zenon
  <2>. HIDE DEF s
  <2>. QED BY <2>1 DEF TRAPRET
<1>8. Saved(regs, o) = Saved(e.ctx.regs, o)
  BY <1>3, Zenon DEF Same, Saved
<1>9. Saved(regs, o) \in Seq(Int)
  BY <1>2, <1>7, SavedWords, Zenon
<1>10. t = top \o (Saved(regs, o) \o s) /\ Saved(regs, o) \o s \in Seq(Int)
  <2>. DEFINE x == Saved(regs, o)
  <2>. HIDE DEF s, top, o, x
  <2>1. x \in Seq(Int) /\ s \in Seq(Int) /\ top \in Seq(Int)
    BY <1>2, <1>7, <1>9, Zenon DEF x
  <2>2. (top \o x) \o s = top \o (x \o s) /\ x \o s \in Seq(Int)
    BY <2>1, Pushed, PushedTwice, Zenon
  <2>. QED BY <2>2, Zenon DEF x
<1>11. t \in Seq(Int)
  BY <1>7, <1>10, Pushed, Zenon
<1>12. t = <<TRAPRET, Len(Below(e)) + 12>> \o (Saved(e.ctx.regs, o) \o Below(e))
  BY <1>3, <1>8, <1>10, Zenon
<1>. HIDE DEF t
<1>13. Types' /\ Context'.regs = regs' /\ Context'.stk = stk /\ Context'.stack = t
  BY <1>1, <1>2, <1>4, <1>5, <1>11, Within, Zenon DEF Inv, Types
<1>. HIDE DEF e, s, o
<1>14. Handles(Context', e)
  BY <1>2, <1>3, <1>6, <1>7, <1>12, <1>13, Zenon DEF Handles, InKernel
<1>. QED BY <1>1, <1>2, <1>13, <1>14, Onward, Zenon DEF e

\* trap() may change the caller-saved registers.
LEMMA Clobbered ==
    ASSUME NEW r \in Regs, NEW ip \in Int, NEW j \in Int
    PROVE  [r EXCEPT !.eax = j, !.ecx = j, !.edx = j, !.eip = ip] \in Regs
BY Zenon DEF Regs

\* The entry that has been acknowledged is the same otherwise.
LEMMA Acknowledged ==
    ASSUME NEW s \in Seq(Entries), Len(s) \in {1, 2}, NEW u, u = [s EXCEPT ![1].acked = TRUE]
    PROVE  /\ u \in Seq(Entries) /\ Len(u) = Len(s) /\ (Len(s) = 2 => u[2] = s[2])
           /\ u[1].ctx = s[1].ctx /\ u[1].v = s[1].v /\ u[1].irq = s[1].irq /\ u[1].acked
<1>. DEFINE b == [s[1] EXCEPT !.acked = TRUE]
<1>1. Len(s) \in Nat /\ 1 \in 1 .. Len(s) /\ (Len(s) = 2 => 2 \in 1 .. Len(s)) /\ 1 # 2
  OBVIOUS
<1>2. s[1] \in Entries
  BY <1>1, LenProperties, Zenon
<1>3. /\ b \in Entries /\ b.ctx = s[1].ctx /\ b.v = s[1].v /\ b.irq = s[1].irq
      /\ b.acked = TRUE
  BY <1>2, Zenon DEF Entries
<1>4. u = [s EXCEPT ![1] = b]
  BY Zenon
<1>. HIDE DEF b
<1>5. /\ u \in Seq(Entries) /\ Len(u) = Len(s)
      /\ \A j \in 1 .. Len(s) : u[j] = IF j = 1 THEN b ELSE s[j]
  <2>1. DOMAIN s = 1 .. Len(s) /\ s \in [1 .. Len(s) -> Entries]
    BY LenProperties, Zenon
  <2>2. /\ u \in [1 .. Len(s) -> Entries]
        /\ \A j \in 1 .. Len(s) : u[j] = IF j = 1 THEN b ELSE s[j]
    BY <1>1, <1>3, <1>4, <2>1, Zenon
  <2>3. \A n \in Nat : \A f \in [1 .. n -> Entries] : f \in Seq(Entries) /\ Len(f) = n
    OBVIOUS
  <2>. QED BY <1>1, <2>2, <2>3, Zenon
<1>. QED BY <1>1, <1>3, <1>5, Zenon

LEMMA TrapStep == ASSUME Inv, Trap PROVE Inv'
<1>. DEFINE e == entered[1]  s == stacks[stk]
<1>1. /\ regs.eip = TRAP
      /\ regs' = [regs EXCEPT !.eax = JUNK, !.ecx = JUNK, !.edx = JUNK, !.eip = s[1]]
      /\ stk' = stk /\ irr' = irr /\ quiet' = quiet /\ first_time' = first_time
      /\ entered' = [entered EXCEPT ![1].acked = TRUE]
      /\ isr' = IF isr = {} THEN {} ELSE isr \ {Max(isr)}
  BY Zenon DEF Trap, Stack
<1>2. /\ entered # << >> /\ e \in Entries /\ Handles(Context, e)
      /\ Context.regs = regs /\ Context.stk = stk /\ stk # USTACK
      /\ Context.stack = s /\ s \in Seq(Int) /\ regs \in Regs
  BY <1>1, Handling, Zenon
<1>3. PICK o \in Int : s = <<TRAPRET, Len(Below(e)) + 12>> \o (Saved(e.ctx.regs, o) \o Below(e))
  <2>1. \E o \in Int : Context.stack = <<TRAPRET, Len(Below(e)) + 12>>
                                          \o (Saved(e.ctx.regs, o) \o Below(e))
    <3>1. Context.regs.eip = TRAP
      BY <1>1, <1>2, Zenon
    <3>. HIDE DEF e
    <3>. QED BY <1>2, <3>1, At, Zenon
  <2>. QED BY <1>2, <2>1, Zenon
<1>. DEFINE t == Saved(e.ctx.regs, o) \o Below(e)
<1>4. t \in Seq(Int)
  BY <1>2, Unwound, Zenon
<1>5. s[1] = TRAPRET /\ SubSeq(s, 3, Len(s)) = t
  <2>. DEFINE x == <<TRAPRET, Len(Below(e)) + 12>>
  <2>1. x \in Seq(Int) /\ Len(x) = 2 /\ x[1] = TRAPRET
    <3>1. Len(Below(e)) \in Nat
      BY <1>2, BelowType, Zenon
    <3>. DEFINE n == Len(Below(e))
    <3>2. n \in Nat
      BY <3>1, Zenon
    <3>. HIDE DEF n
    <3>3. /\ <<TRAPRET, n + 12>> \in Seq(Int) /\ Len(<<TRAPRET, n + 12>>) = 2
          /\ <<TRAPRET, n + 12>>[1] = TRAPRET
      BY <3>2 DEF TRAPRET
    <3>. QED BY <3>3, Zenon DEF n
  <2>2. s = x \o t
    BY <1>3, Zenon
  <2>. HIDE DEF x, t, s
  <2>3. /\ \A i \in 1 .. Len(x) : (x \o t)[i] = x[i]
        /\ SubSeq(x \o t, Len(x) + 1, Len(x \o t)) = t
    BY <1>4, <2>1, Pushed, Zenon
  <2>4. 1 \in 1 .. Len(x) /\ Len(x) + 1 = 3
    BY <2>1
  <2>. QED BY <2>1, <2>2, <2>3, <2>4, Zenon
<1>6. stacks' = [stacks EXCEPT ![stk] = t]
  <2>1. stacks' = [stacks EXCEPT ![stk] = SubSeq(s, 2 + 1, Len(s))]
    BY Zenon DEF Trap, Drop
  <2>2. 2 + 1 = 3
    OBVIOUS
  <2>. QED BY <1>5, <2>1, <2>2, Zenon
<1>7. TRAPRET \in Int /\ JUNK \in Int
  BY DEF TRAPRET, JUNK
<1>8. regs' \in Regs
  <2>1. regs' = [regs EXCEPT !.eax = JUNK, !.ecx = JUNK, !.edx = JUNK, !.eip = TRAPRET]
    BY <1>1, <1>5, Zenon
  <2>. QED BY <1>2, <1>7, <2>1, Clobbered, Zenon
<1>9. /\ regs'.eip = TRAPRET /\ regs'.cs = regs.cs /\ regs'.ss = regs.ss
      /\ regs'.esp = regs.esp /\ regs'.eflags = regs.eflags
  <2>. HIDE DEF s
  <2>. QED BY <1>1, <1>2, <1>5, Zenon DEF Regs
<1>. HIDE DEF t
<1>10. Types' /\ Context'.regs = regs' /\ Context'.stk = stk /\ Context'.stack = t
  BY <1>1, <1>2, <1>4, <1>6, <1>8, Within, Zenon DEF Inv, Types
<1>11. entered \in Seq(Entries) /\ Len(entered) \in {1, 2}
  BY <1>2, Innermost, Zenon DEF Inv, Chain
<1>12. /\ entered' \in Seq(Entries) /\ Len(entered') = Len(entered)
       /\ Len(entered) = 2 => entered'[2] = entered[2]
       /\ entered'[1].ctx = e.ctx /\ entered'[1].v = e.v /\ entered'[1].irq = e.irq
       /\ entered'[1].acked
  BY <1>1, <1>11, Acknowledged, Zenon
<1>13. Chain'
  <2>1. /\ 1 <= 2 /\ 2 <= 2 /\ \A i \in 1 .. 1 : i = 1
        /\ \A i \in 1 .. 2 : i = 1 \/ i = 2
    OBVIOUS
  <2>2. Len(entered') <= 2
    BY <1>11, <1>12, <2>1, Zenon
  <2>3. \A i \in 1 .. Len(entered') :
          /\ entered'[i].irq = entered[i].irq /\ entered'[i].v = entered[i].v
          /\ entered[i].acked => entered'[i].acked
    BY <1>11, <1>12, <2>1, Zenon
  <2>. QED BY <1>12, <2>2, <2>3, Zenon DEF Inv, Chain
<1>14. isr' = {}
  <2>1. isr = {} \/ isr = {e.v}
    BY Zenon DEF Inv, InService
  <2>2. Max({e.v}) = e.v
    <3>1. e.v \in Int
      BY <1>2, EntryType, Zenon
    <3>. DEFINE w == e.v
    <3>2. w >= w
      BY <3>1
    <3>. HIDE DEF w
    <3>. QED BY <3>2, Zenon DEF Max, w
  <2>. QED BY <1>1, <2>1, <2>2, Zenon
<1>15. InService'
  BY <1>12, <1>14, Zenon DEF InService
<1>16. Handles(Context', entered'[1])
  <2>. DEFINE f == entered'[1]
  <2>1. Saved(f.ctx.regs, o) \o Below(f) = t
    BY <1>12, Zenon DEF Below, t
  <2>. HIDE DEF f, e
  <2>2. f.ctx = e.ctx /\ f.v = e.v /\ f.acked
    BY <1>12, Zenon DEF f
  <2>3. Handles(Context', f)
    BY <1>2, <1>9, <1>10, <2>1, <2>2, Zenon DEF Handles, InKernel
  <2>. QED BY <2>3, Zenon DEF f
<1>17. entered' # << >>
  <2>1. Len(entered') # 0
    BY <1>11, <1>12
  <2>. QED BY <2>1, EmptySeq, Zenon
<1>18. Running'
  BY <1>16, <1>17, Zenon DEF Running
<1>. QED BY <1>10, <1>13, <1>15, <1>18, Zenon DEF Inv

\* The registers after trapret has popped those of q.
LEMMA Restored ==
    ASSUME NEW r \in Regs, NEW q \in Regs, NEW ip \in Int
    PROVE  [r EXCEPT !.edi = q.edi, !.esi = q.esi, !.ebp = q.ebp, !.ebx = q.ebx, !.edx = q.edx,
                     !.ecx = q.ecx, !.eax = q.eax, !.gs = q.gs, !.fs = q.fs, !.es = q.es,
                     !.ds = q.ds, !.eip = ip] \in Regs
BY Zenon DEF Regs

LEMMA TrapRetStep == ASSUME Inv, TrapRet PROVE Inv'
<1>. DEFINE e == entered[1]  s == stacks[stk]  t == Frame(e.ctx)  q == e.ctx.regs
<1>1. /\ regs.eip = TRAPRET
      /\ regs' = [regs EXCEPT !.edi = s[1], !.esi = s[2], !.ebp = s[3], !.ebx = s[5],
                              !.edx = s[6], !.ecx = s[7], !.eax = s[8], !.gs = s[9],
                              !.fs = s[10], !.es = s[11], !.ds = s[12], !.eip = IRET]
      /\ stk' = stk /\ irr' = irr /\ isr' = isr /\ quiet' = quiet /\ first_time' = first_time
      /\ entered' = entered
  BY Zenon DEF TrapRet, Stack
<1>2. /\ entered # << >> /\ e \in Entries /\ Handles(Context, e)
      /\ Context.regs = regs /\ Context.stk = stk /\ stk # USTACK
      /\ Context.stack = s /\ s \in Seq(Int) /\ regs \in Regs
  BY <1>1, Handling, Zenon
<1>3. e.acked /\ \E o \in Int : s = Saved(q, o) \o Below(e)
  <2>1. Context.regs.eip = TRAPRET
    BY <1>1, <1>2, Zenon
  <2>2. e.acked /\ \E o \in Int : Context.stack = Saved(e.ctx.regs, o) \o Below(e)
    <3>. HIDE DEF e
    <3>. QED BY <1>2, <2>1, At, Zenon
  <2>. QED BY <1>2, <2>2, Zenon
<1>4. PICK o \in Int : s = Saved(q, o) \o Below(e)
  BY <1>3, Zenon
<1>5. SubSeq(s, 15, Len(s)) = t /\ Pops(s, q)
  <2>. HIDE DEF e, s
  <2>. QED BY <1>2, <1>4, Unwound, Zenon
<1>6. t \in Seq(Int) /\ q \in Regs
  BY <1>2, BelowType, EntryType, Zenon
<1>7. stacks' = [stacks EXCEPT ![stk] = t]
  <2>1. stacks' = [stacks EXCEPT ![stk] = SubSeq(s, 14 + 1, Len(s))]
    BY Zenon DEF TrapRet, Drop
  <2>2. 14 + 1 = 15
    OBVIOUS
  <2>. QED BY <1>5, <2>1, <2>2, Zenon
<1>8. regs' = [regs EXCEPT !.edi = q.edi, !.esi = q.esi, !.ebp = q.ebp, !.ebx = q.ebx,
                           !.edx = q.edx, !.ecx = q.ecx, !.eax = q.eax, !.gs = q.gs, !.fs = q.fs,
                           !.es = q.es, !.ds = q.ds, !.eip = IRET]
  <2>. HIDE DEF s, q
  <2>. QED BY <1>1, <1>5, Zenon DEF Pops
<1>9. /\ regs' \in Regs /\ Same(regs', q) /\ regs'.eip = IRET /\ regs'.cs = regs.cs
      /\ regs'.ss = regs.ss /\ regs'.esp = regs.esp /\ regs'.eflags = regs.eflags
  <2>1. IRET \in Int
    BY DEF IRET
  <2>. HIDE DEF q
  <2>2. regs' \in Regs
    BY <1>2, <1>6, <1>8, <2>1, Restored, Zenon
  <2>3. Same(regs', q)
    BY <1>2, <1>6, <1>8, Zenon DEF Regs, Same
  <2>4. /\ regs'.eip = IRET /\ regs'.cs = regs.cs /\ regs'.ss = regs.ss /\ regs'.esp = regs.esp
        /\ regs'.eflags = regs.eflags
    BY <1>2, <1>8, Zenon DEF Regs
  <2>. QED BY <2>2, <2>3, <2>4, Zenon
<1>. HIDE DEF t
<1>10. Types' /\ Context'.regs = regs' /\ Context'.stk = stk /\ Context'.stack = t
  BY <1>1, <1>2, <1>6, <1>7, <1>9, Within, Zenon DEF Inv, Types
<1>11. Handles(Context', e)
  <2>1. Same(regs', e.ctx.regs) /\ t = Frame(e.ctx)
    BY <1>9, Zenon DEF t
  <2>. HIDE DEF e
  <2>. QED BY <1>2, <1>3, <1>9, <1>10, <2>1, Zenon DEF Handles, InKernel
<1>. QED BY <1>1, <1>2, <1>10, <1>11, Onward, Zenon DEF e

\* The words that iret takes.
LEMMA FrameWords ==
    ASSUME NEW c \in Contexts, NEW s, s = Frame(c)
    PROVE  /\ s[1] = c.regs.eip /\ s[2] = c.regs.cs /\ s[3] = c.regs.eflags
           /\ c.stk = USTACK => /\ s[4] = c.regs.esp /\ s[5] = c.regs.ss
                                /\ SubSeq(s, 6, Len(s)) = << >>
           /\ c.stk # USTACK => SubSeq(s, 4, Len(s)) = c.stack
<1>. DEFINE a == c.regs.eip  b == c.regs.cs  f == c.regs.eflags  d == c.regs.esp  g == c.regs.ss
            z == c.stack
<1>1. a \in Int /\ b \in Int /\ f \in Int /\ d \in Int /\ g \in Int /\ z \in Seq(Int)
  BY ContextWords, Zenon
<1>2. s = <<a, b, f>> \o (IF c.stk = USTACK THEN <<d, g>> ELSE z)
  BY Zenon DEF Frame
<1>. HIDE DEF a, b, f, d, g, z
<1>3. CASE c.stk = USTACK
  <2>1. s = <<a, b, f>> \o <<d, g>>
    BY <1>2, <1>3, Zenon
  <2>2. /\ s \in Seq(Int) /\ Len(s) = 5 /\ s[1] = a /\ s[2] = b /\ s[3] = f
        /\ s[4] = d /\ s[5] = g
    BY <1>1, <2>1
  <2>3. SubSeq(s, 6, Len(s)) = << >>
    BY <2>2
  <2>. QED BY <1>3, <2>2, <2>3, Zenon DEF a, b, f, d, g
<1>4. CASE c.stk # USTACK
  <2>1. s = <<a, b, f>> \o z
    BY <1>2, <1>4, Zenon
  <2>2. <<a, b, f>> \in Seq(Int) /\ Len(<<a, b, f>>) = 3
    BY <1>1
  <2>3. s[1] = a /\ s[2] = b /\ s[3] = f
    BY <1>1, <2>1
  <2>4. SubSeq(s, 4, Len(s)) = z
    BY <1>1, <2>1
  <2>. QED BY <1>4, <2>3, <2>4, Zenon DEF a, b, f, z
<1>. QED BY <1>3, <1>4, Zenon

\* The registers after iret to the code whose registers were q.
LEMMA Returned ==
    ASSUME NEW r \in Regs, NEW q \in Regs, Same(r, q)
    PROVE  [r EXCEPT !.eip = q.eip, !.cs = q.cs, !.eflags = q.eflags, !.esp = q.esp,
                     !.ss = q.ss] = q
BY Zenon DEF Regs, Same

\* The context that the innermost handler returns to runs in the ring its stack says.
LEMMA Suspended ==
    ASSUME Inv, entered # << >>
    PROVE  LET c == entered[1].ctx
           IN  /\ c.stk = USTACK => c.regs.cs % 4 = 3 /\ c.stack = << >>
               /\ c.stk # USTACK => c.regs.cs % 4 # 3 /\ c.regs.ss = KDATA /\ c.regs.esp = 0
<1>. DEFINE c == entered[1].ctx
<1>0. KCODE % 4 # 3 /\ UCODE % 4 = 3 /\ PROC # USTACK /\ SCHED # USTACK
  BY DEF KCODE, UCODE, PROC, SCHED, USTACK
<1>1. Len(entered) \in {1, 2}
  BY Innermost, Zenon DEF Inv
<1>2. CASE Len(entered) = 1
  <2>1. Resting(c)
    BY <1>2, Zenon DEF Inv, Chain
  <2>. HIDE DEF c
  <2>2. /\ c.stk = USTACK => c.regs.cs % 4 = 3 /\ c.stack = << >>
        /\ c.stk # USTACK => c.regs.cs % 4 # 3 /\ c.regs.ss = KDATA /\ c.regs.esp = 0
    BY <1>0, <2>1, Zenon DEF Resting, InKernel
  <2>. QED BY <2>2, Zenon DEF c
<1>3. CASE Len(entered) = 2
  <2>. DEFINE d == entered[2]
  <2>1. Handles(c, d)
    BY <1>3, Zenon DEF Inv, Chain
  <2>. HIDE DEF c, d
  <2>2. c.stk # USTACK /\ InKernel(c)
    BY <1>0, <2>1, Zenon DEF Handles
  <2>3. c.regs.cs % 4 # 3 /\ c.regs.ss = KDATA /\ c.regs.esp = 0
    BY <1>0, <2>2, Zenon DEF InKernel
  <2>. QED BY <2>2, <2>3, Zenon DEF c
<1>. QED BY <1>1, <1>2, <1>3, Zenon

\* iret brings back the interrupted context.
LEMMA IretReturns ==
    ASSUME Inv, Iret
    PROVE  Types' /\ Context' = entered[1].ctx /\ entered # << >> /\ entered[1].acked
<1>. DEFINE e == entered[1]  s == stacks[stk]  c == e.ctx  q == c.regs
            outer == s[2] % 4 = 3
            n == IF outer THEN 5 ELSE 3
            t == SubSeq(s, n + 1, Len(s))
<1>1. /\ regs.eip = IRET
      /\ regs' = [regs EXCEPT !.eip = s[1], !.cs = s[2], !.eflags = s[3],
                              !.esp = IF outer THEN s[4] ELSE 0,
                              !.ss = IF outer THEN s[5] ELSE @]
      /\ stk' = IF outer THEN USTACK ELSE stk
      /\ irr' = irr /\ quiet' = quiet /\ first_time' = first_time
  BY Zenon DEF Iret, Stack
<1>2. stacks' = [stacks EXCEPT ![stk] = t]
  BY Zenon DEF Iret, Drop, Stack
<1>3. /\ entered # << >> /\ e \in Entries /\ Handles(Context, e)
      /\ Context.regs = regs /\ Context.stk = stk /\ stk # USTACK
      /\ Context.stack = s /\ s \in Seq(Int) /\ regs \in Regs
  BY <1>1, Handling, Zenon
<1>4. e.acked /\ Same(regs, q) /\ s = Frame(c)
  <2>1. Context.regs.eip = IRET
    BY <1>1, <1>3, Zenon
  <2>. HIDE DEF e, s
  <2>. QED BY <1>3, <2>1, At, Zenon
<1>5. c \in Contexts /\ q \in Regs
  BY <1>3, EntryType, Zenon
<1>6. stk = IF c.stk = USTACK THEN PROC ELSE c.stk
  BY <1>3, Zenon DEF Handles
<1>7. /\ c.stk = USTACK => q.cs % 4 = 3 /\ c.stack = << >>
      /\ c.stk # USTACK => q.cs % 4 # 3 /\ q.ss = KDATA /\ q.esp = 0
  BY <1>3, Suspended, Zenon
<1>8. /\ s[1] = q.eip /\ s[2] = q.cs /\ s[3] = q.eflags
      /\ c.stk = USTACK => s[4] = q.esp /\ s[5] = q.ss /\ SubSeq(s, 6, Len(s)) = << >>
      /\ c.stk # USTACK => SubSeq(s, 4, Len(s)) = c.stack
  <2>. HIDE DEF c, s
  <2>. QED BY <1>4, <1>5, FrameWords, Zenon
<1>9. regs.ss = KDATA
  BY <1>3, Zenon DEF Handles, InKernel
<1>10. outer <=> c.stk = USTACK
  BY <1>7, <1>8, Zenon
<1>11. t = c.stack
  <2>1. 5 + 1 = 6 /\ 3 + 1 = 4
    OBVIOUS
  <2>. HIDE DEF outer
  <2>2. CASE c.stk = USTACK
    BY <1>7, <1>8, <1>10, <2>1, <2>2, Zenon
  <2>3. CASE c.stk # USTACK
    BY <1>8, <1>10, <2>1, <2>3, Zenon
  <2>. QED BY <2>2, <2>3, Zenon
<1>12. regs' = q
  <2>. HIDE DEF outer
  <2>. DEFINE sp == IF outer THEN s[4] ELSE 0  ss == IF outer THEN s[5] ELSE regs.ss
  <2>1. sp = q.esp /\ ss = q.ss
    BY <1>7, <1>8, <1>9, <1>10, Zenon
  <2>2. regs' = [regs EXCEPT !.eip = s[1], !.cs = s[2], !.eflags = s[3], !.esp = sp, !.ss = ss]
    BY <1>1, Zenon
  <2>. HIDE DEF sp, ss, s, q
  <2>3. regs' = [regs EXCEPT !.eip = q.eip, !.cs = q.cs, !.eflags = q.eflags, !.esp = q.esp,
                             !.ss = q.ss]
    BY <1>8, <2>1, <2>2, Zenon
  <2>. QED BY <1>3, <1>4, <1>5, <2>3, Returned, Zenon
<1>13. stk' = c.stk
  <2>. HIDE DEF outer
  <2>. QED BY <1>1, <1>6, <1>10, Zenon
<1>14. c.stk \in {SCHED, PROC, USTACK} /\ c.stack \in Seq(Int)
  <2>. HIDE DEF c
  <2>. QED BY <1>5, Zenon DEF Contexts
<1>15. stk \in {SCHED, PROC} /\ SCHED # PROC
  BY <1>3, Zenon DEF Inv, Types, SCHED, PROC, USTACK
<1>. HIDE DEF t
<1>16. /\ stacks' \in [{SCHED, PROC} -> Seq(Int)] /\ stacks'[stk] = c.stack
       /\ stk = SCHED => stacks'[PROC] = stacks[PROC]
  BY <1>2, <1>11, <1>14, <1>15, Zenon DEF Inv, Types
<1>17. Types'
  <2>1. stk' = SCHED => stk = SCHED
    <3>1. SCHED # USTACK
      BY DEF SCHED, USTACK
    <3>. QED BY <1>6, <1>13, <3>1, Zenon
  <2>. QED BY <1>1, <1>5, <1>12, <1>13, <1>14, <1>16, <2>1, Zenon DEF Inv, Types
<1>18. Context' = c
  <2>1. Context' = [regs |-> regs', stk |-> stk',
                    stack |-> IF stk' = USTACK THEN << >> ELSE stacks'[stk']]
    BY Zenon DEF Context
  <2>2. (IF stk' = USTACK THEN << >> ELSE stacks'[stk']) = c.stack
    BY <1>6, <1>7, <1>13, <1>16, Zenon
  <2>3. Context' = [regs |-> c.regs, stk |-> c.stk, stack |-> c.stack]
    BY <1>12, <1>13, <2>1, <2>2, Zenon
  <2>. HIDE DEF c
  <2>4. c = [regs |-> c.regs, stk |-> c.stk, stack |-> c.stack]
    BY <1>5, Zenon DEF Contexts
  <2>. QED BY <2>3, <2>4, Zenon
<1>. QED BY <1>3, <1>4, <1>17, <1>18, Zenon

\* What is left of the entries when the innermost handler is done.
LEMMA Rest ==
    ASSUME NEW s \in Seq(Entries), Len(s) \in {1, 2}
    PROVE  /\ Tail(s) \in Seq(Entries) /\ Len(Tail(s)) = Len(s) - 1
           /\ Len(s) = 1 => Tail(s) = << >>
           /\ Len(s) = 2 => Tail(s) # << >> /\ Tail(s)[1] = s[2]
<1>1. s # << >>
  BY EmptySeq
<1>2. /\ Tail(s) \in Seq(Entries) /\ Len(Tail(s)) = Len(s) - 1
      /\ \A i \in 1 .. Len(Tail(s)) : Tail(s)[i] = s[i + 1]
  BY <1>1, HeadTailProperties, Zenon
<1>3. Len(s) = 1 => Tail(s) = << >>
  <2>1. Len(s) = 1 => Len(Tail(s)) \notin Nat \ {0}
    BY <1>2
  <2>. QED BY <1>2, <2>1, EmptySeq, Zenon
<1>4. Len(s) = 2 => Tail(s) # << >> /\ Tail(s)[1] = s[2]
  <2>. DEFINE n == Len(Tail(s))
  <2>1. Len(s) = 2 => n = 1
    BY <1>2
  <2>. HIDE DEF n
  <2>2. n = 1 => n # 0 /\ 1 \in 1 .. n /\ 1 + 1 = 2
    OBVIOUS
  <2>. QED BY <1>2, <2>1, <2>2, EmptySeq, Zenon DEF n
<1>. QED BY <1>2, <1>3, <1>4, Zenon

LEMMA IretStep == ASSUME Inv, Iret PROVE Inv'
<1>1. Types' /\ Context' = entered[1].ctx /\ entered # << >> /\ entered[1].acked
  BY IretReturns, Zenon
<1>2. entered' = Tail(entered) /\ isr' = isr
  BY Zenon DEF Iret
<1>3. entered \in Seq(Entries) /\ Len(entered) \in {1, 2}
  BY <1>1, Innermost, Zenon DEF Inv, Chain
<1>4. /\ entered' \in Seq(Entries) /\ Len(entered') = Len(entered) - 1
      /\ Len(entered) = 1 => entered' = << >>
      /\ Len(entered) = 2 => entered' # << >> /\ entered'[1] = entered[2]
  BY <1>2, <1>3, Rest, Zenon
<1>5. isr' = {}
  BY <1>1, <1>2, Zenon DEF Inv, InService
<1>6. CASE Len(entered) = 1
  <2>1. Len(entered') = 0 /\ Len(entered') <= 2 /\ Len(entered') # 1 /\ Len(entered') # 2
        /\ 1 .. Len(entered') = {}
    BY <1>4, <1>6
  <2>2. Chain'
    BY <1>4, <2>1, Zenon DEF Chain
  <2>3. Running'
    BY <1>1, <1>4, <1>6, Zenon DEF Inv, Chain, Running
  <2>4. InService'
    BY <1>4, <1>5, <1>6, Zenon DEF InService
  <2>. QED BY <1>1, <2>2, <2>3, <2>4, Zenon DEF Inv
<1>7. CASE Len(entered) = 2
  <2>1. Len(entered') = 1 /\ Len(entered') <= 2 /\ Len(entered') # 2 /\ 1 .. Len(entered') = {1}
        /\ 2 \in 1 .. Len(entered)
    BY <1>4, <1>7
  <2>2. /\ Handles(entered[1].ctx, entered[2]) /\ Resting(entered[2].ctx)
        /\ entered[2].v = T_SYSCALL /\ (entered[2].irq => entered[2].v \in Irqs)
        /\ entered[2].acked \/ entered[2].v \notin ErrVectors
    BY <1>7, <2>1, Zenon DEF Inv, Chain
  <2>3. ~entered[2].irq
    <3>1. T_SYSCALL \notin Irqs
      BY TrapAssumption DEF T_SYSCALL
    <3>. QED BY <2>2, <3>1, Zenon
  <2>4. Chain'
    BY <1>4, <1>7, <2>1, <2>2, Zenon DEF Chain
  <2>5. Running'
    BY <1>1, <1>4, <1>7, <2>2, Zenon DEF Running
  <2>6. InService'
    BY <1>4, <1>5, <1>7, <2>3, Zenon DEF InService
  <2>. QED BY <1>1, <2>4, <2>5, <2>6, Zenon DEF Inv
<1>. QED BY <1>3, <1>6, <1>7, Zenon

-----------------------------------------------------------------------------
(* The first dispatch of a process *)

\* The entry that a new process returns from.
NewEntry == [ctx |-> UserContext, v |-> 0, irq |-> FALSE, acked |-> TRUE]

\* A new process's trap frame, and the pieces in which an entry would push it.
FullFrame(r) ==
    <<0, 0, 0, 0, 0, 0, 0, 0, 0, 0, UDATA, UDATA, 0, 0, r.eip, r.cs, r.eflags, r.esp, UDATA>>
PiecedFrame(r) ==
    <<0, 0, 0, 0, 0, 0, 0, 0, 0, 0, UDATA, UDATA>>
        \o (<<0, 0>> \o (<<r.eip, r.cs, r.eflags>> \o <<r.esp, UDATA>>))

\* They are the same words.
LEMMA Pieces ==
    ASSUME NEW r \in Regs
    PROVE  FullFrame(r) \in Seq(Int) /\ PiecedFrame(r) = FullFrame(r)
<1>. DEFINE a == r.eip  b == r.cs  c == r.eflags  d == UDATA  p == r.esp
<1>0. a \in Int /\ b \in Int /\ c \in Int /\ d \in Int /\ p \in Int
  BY DEF Regs, UDATA, FL_IF
<1>. HIDE DEF a, b, c, d, p
<1>. DEFINE W == <<0, 0, 0, 0, 0, 0, 0, 0, 0, 0, d, d, 0, 0, a, b, c, p, d>>
            X == <<0, 0, 0, 0, 0, 0, 0, 0, 0, 0, d, d>>
            V == <<a, b, c>> \o <<p, d>>
            T == <<0, 0>> \o V
<1>1. W \in Seq(Int) /\ Len(W) = 19 /\ X \in Seq(Int) /\ Len(X) = 12
  BY <1>0
<1>2. V \in Seq(Int) /\ Len(V) = 5 /\ V[1] = a /\ V[2] = b /\ V[3] = c /\ V[4] = p /\ V[5] = d
  BY <1>0
<1>. HIDE DEF V
<1>3. /\ T \in Seq(Int) /\ Len(T) = 7 /\ T[1] = 0 /\ T[2] = 0 /\ T[3] = a /\ T[4] = b
      /\ T[5] = c /\ T[6] = p /\ T[7] = d
  <2>. DEFINE y == <<0, 0>>
  <2>1. y \in Seq(Int) /\ Len(y) = 2 /\ y[1] = 0 /\ y[2] = 0
    OBVIOUS
  <2>2. T = y \o V
    BY Zenon
  <2>. HIDE DEF y, T
  <2>3. /\ T \in Seq(Int) /\ Len(T) = Len(y) + Len(V) /\ \A i \in 1 .. Len(y) : T[i] = y[i]
    BY <1>2, <2>1, <2>2, Pushed, Zenon
  <2>4. \A i \in Len(y) + 1 .. Len(y) + Len(V) : T[i] = V[i - Len(y)]
    BY <1>2, <2>1, <2>2, Beneath, Zenon
  <2>5. Len(y) + 1 = 3 /\ Len(y) + Len(V) = 7
    BY <1>2, <2>1
  <2>6. T[1] = 0 /\ T[2] = 0
    BY <2>1, <2>3
  <2>7. \A i \in 3 .. 7 : T[i] = V[i - 2]
    BY <2>1, <2>4, <2>5, Zenon
  <2>8. T[3] = V[1] /\ T[4] = V[2] /\ T[5] = V[3] /\ T[6] = V[4] /\ T[7] = V[5]
    BY <2>7
  <2>. QED BY <1>2, <2>3, <2>5, <2>6, <2>8, Zenon
<1>. HIDE DEF T
<1>4. \A i \in 1 .. 12 : X[i] = W[i]
  OBVIOUS
<1>5. /\ W[13] = 0 /\ W[14] = 0 /\ W[15] = a /\ W[16] = b /\ W[17] = c /\ W[18] = p /\ W[19] = d
  BY Zenon
<1>. HIDE DEF W, X
<1>6. \A i \in 13 .. 19 : T[i - 12] = W[i]
  <2>1. \A i \in 13 .. 19 : i \in {13, 14, 15, 16, 17, 18, 19}
    OBVIOUS
  <2>2. /\ 13 - 12 = 1 /\ 14 - 12 = 2 /\ 15 - 12 = 3 /\ 16 - 12 = 4 /\ 17 - 12 = 5
        /\ 18 - 12 = 6 /\ 19 - 12 = 7
    OBVIOUS
  <2>. QED BY <1>3, <1>5, <2>1, <2>2, Zenon
<1>7. X \o T \in Seq(Int) /\ Len(X \o T) = 19 /\ \A i \in 1 .. 19 : (X \o T)[i] = W[i]
  <2>1. /\ X \o T \in Seq(Int) /\ Len(X \o T) = Len(X) + Len(T)
        /\ \A i \in 1 .. Len(X) : (X \o T)[i] = X[i]
    BY <1>1, <1>3, Pushed, Zenon
  <2>2. \A i \in Len(X) + 1 .. Len(X) + Len(T) : (X \o T)[i] = T[i - Len(X)]
    BY <1>1, <1>3, Beneath, Zenon
  <2>3. 12 + 1 = 13 /\ 12 + 7 = 19 /\ \A i \in 1 .. 19 : i \in 1 .. 12 \/ i \in 13 .. 19
    OBVIOUS
  <2>4. \A i \in 13 .. 19 : (X \o T)[i] = T[i - 12]
    BY <1>1, <1>3, <2>2, <2>3, Zenon
  <2>5. \A i \in 1 .. 12 : (X \o T)[i] = X[i]
    BY <1>1, <2>1, Zenon
  <2>6. \A i \in 1 .. 19 : (X \o T)[i] = W[i]
    BY <1>4, <1>6, <2>3, <2>4, <2>5, Zenon
  <2>. QED BY <1>1, <1>3, <2>1, <2>3, <2>6, Zenon
<1>8. X \o T = W
  BY <1>1, <1>7, SameWords, Zenon
<1>. QED BY <1>1, <1>8, Zenon DEF W, X, T, V, a, b, c, d, p, FullFrame, PiecedFrame

\* The frame that user_init fills in is the one that an entry from the user registers would
\* have left.
LEMMA UserFrameIsBelow ==
    /\ NewEntry \in Entries /\ UserContext.regs \in Regs
    /\ [i \in 1 .. 19 |-> UserFrame[Fields[i]]] = Saved(UserContext.regs, 0) \o Below(NewEntry)
    /\ [i \in 1 .. 19 |-> UserFrame[Fields[i]]] \in Seq(Int)
<1>. DEFINE r == UserContext.regs  u == [i \in 1 .. 19 |-> UserFrame[Fields[i]]]
<1>1. r \in Regs
  BY DEF UserContext, Regs, START, UCODE, UDATA, FL_IF
<1>2. UserContext = [regs |-> r, stk |-> USTACK, stack |-> << >>] /\ UserContext.stk = USTACK
  BY DEF UserContext
<1>3. /\ r.edi = 0 /\ r.esi = 0 /\ r.ebp = 0 /\ r.ebx = 0 /\ r.edx = 0 /\ r.ecx = 0 /\ r.eax = 0
      /\ r.gs = 0 /\ r.fs = 0 /\ r.es = UDATA /\ r.ds = UDATA /\ r.ss = UDATA
  BY DEF UserContext
<1>4. u = <<0, 0, 0, 0, 0, 0, 0, 0, 0, 0, UDATA, UDATA, 0, 0, r.eip, r.cs, r.eflags, r.esp, UDATA>>
  BY DEF UserFrame, Fields, UserContext
<1>. HIDE DEF r, u
<1>6. NewEntry \in Entries
  <2>1. << >> \in Seq(Int) /\ 0 \in 0 .. 255
    OBVIOUS
  <2>2. UserContext \in Contexts
    BY <1>1, <1>2, <2>1, Zenon DEF Contexts
  <2>. QED BY <2>1, <2>2, Zenon DEF Entries, NewEntry
<1>7. Saved(r, 0) = <<0, 0, 0, 0, 0, 0, 0, 0, 0, 0, UDATA, UDATA>>
  BY <1>3, Zenon DEF Saved
<1>8. Below(NewEntry) = <<0, 0>> \o (<<r.eip, r.cs, r.eflags>> \o <<r.esp, UDATA>>)
  <2>1. NewEntry.ctx = UserContext /\ NewEntry.v = 0
    BY Zenon DEF NewEntry
  <2>. QED BY <1>2, <1>3, <2>1, Zenon DEF Below, Frame, r
<1>9. u \in Seq(Int) /\ Saved(r, 0) \o Below(NewEntry) = u
  <2>1. FullFrame(r) \in Seq(Int) /\ PiecedFrame(r) = FullFrame(r)
    BY <1>1, Pieces, Zenon
  <2>2. u = FullFrame(r)
    BY <1>4, Zenon DEF FullFrame
  <2>3. Saved(r, 0) \o Below(NewEntry) = PiecedFrame(r)
    BY <1>7, <1>8, Zenon DEF PiecedFrame
  <2>. QED BY <2>1, <2>2, <2>3, Zenon
<1>. QED BY <1>1, <1>6, <1>9, Zenon DEF r, u

\* The stack that alloc_proc lays out: switch pops five words, and trapret is next.
LEMMA NewStackLayout ==
    /\ NewStack \in Seq(Int) /\ NewStack[1] = 0 /\ NewStack[2] = 0 /\ NewStack[3] = 0
    /\ NewStack[4] = 0 /\ NewStack[5] = FORKRET
    /\ SubSeq(NewStack, 6, Len(NewStack))
         = <<TRAPRET>> \o (Saved(UserContext.regs, 0) \o Below(NewEntry))
    /\ SubSeq(NewStack, 6, Len(NewStack)) \in Seq(Int)
<1>. DEFINE u == [i \in 1 .. 19 |-> UserFrame[Fields[i]]]
            z == Saved(UserContext.regs, 0) \o Below(NewEntry)
            x == <<0, 0, 0, 0, FORKRET>>
            n == <<0, 0, 0, 0, FORKRET, TRAPRET>>
            y == <<TRAPRET>>
<1>1. u = z /\ u \in Seq(Int)
  BY UserFrameIsBelow, Zenon
<1>2. NewStack = n \o z
  BY <1>1, Zenon DEF NewStack
<1>. HIDE DEF u, z
<1>3. /\ x \in Seq(Int) /\ Len(x) = 5 /\ x[1] = 0 /\ x[2] = 0 /\ x[3] = 0 /\ x[4] = 0
      /\ x[5] = FORKRET /\ y \in Seq(Int) /\ x \o y \in Seq(Int) /\ Len(x \o y) = 6
  BY DEF FORKRET, TRAPRET
<1>4. x \o y = n
  <2>1. n \in Seq(Int) /\ Len(n) = 6
    BY DEF FORKRET, TRAPRET
  <2>2. \A i \in 1 .. 6 : (x \o y)[i] = n[i]
    OBVIOUS
  <2>. HIDE DEF x, y, n
  <2>. QED BY <1>3, <2>1, <2>2, SameWords, Zenon
<1>5. z \in Seq(Int)
  BY <1>1, Zenon
<1>. HIDE DEF x, y, n
<1>6. NewStack = x \o (y \o z) /\ y \o z \in Seq(Int)
  <2>1. (x \o y) \o z = x \o (y \o z)
    <3>1. x \in Seq(Int) /\ y \in Seq(Int)
      BY <1>3, Zenon
    <3>. QED BY <1>5, <3>1, PushedTwice, Zenon
  <2>2. y \o z \in Seq(Int)
    BY <1>3, <1>5, Pushed, Zenon
  <2>. QED BY <1>2, <1>4, <2>1, <2>2, Zenon
<1>. DEFINE w == y \o z
<1>. HIDE DEF w
<1>7. w \in Seq(Int) /\ NewStack = x \o w
  BY <1>6, Zenon DEF w
<1>8. /\ x \o w \in Seq(Int) /\ SubSeq(x \o w, Len(x) + 1, Len(x \o w)) = w
      /\ \A i \in 1 .. Len(x) : (x \o w)[i] = x[i]
  BY <1>3, <1>7, Pushed, Zenon
<1>9. Len(x) + 1 = 6 /\ {1, 2, 3, 4, 5} \subseteq 1 .. Len(x)
  BY <1>3
<1>10. SubSeq(NewStack, 6, Len(NewStack)) = w /\ NewStack \in Seq(Int)
  BY <1>7, <1>8, <1>9, Zenon
<1>11. /\ NewStack[1] = 0 /\ NewStack[2] = 0 /\ NewStack[3] = 0 /\ NewStack[4] = 0
       /\ NewStack[5] = FORKRET
  BY <1>3, <1>7, <1>8, <1>9, Zenon
<1>. QED BY <1>7, <1>10, <1>11, Zenon DEF w, y, z

\* The registers after switch.
LEMMA Switched ==
    ASSUME NEW r \in Regs, NEW a \in Int, NEW b \in Int, NEW j \in Int, NEW ip \in Int
    PROVE  [r EXCEPT !.edi = a, !.esi = a, !.ebx = a, !.ebp = a, !.eip = ip, !.eax = j, !.edx = j,
                     !.eflags = 0] \in Regs
BY Zenon DEF Regs

\* The user context of a new process rests.
LEMMA UserRestsToo ==
    Resting(NewEntry.ctx) /\ ~NewEntry.irq /\ NewEntry.acked /\ NewEntry.ctx = UserContext
<1>1. ~NewEntry.irq /\ NewEntry.acked /\ NewEntry.ctx = UserContext
  BY Zenon DEF NewEntry
<1>2. /\ UserContext.regs.eflags = FL_IF /\ UserContext.stack = << >> /\ UserContext.stk = USTACK
      /\ UserContext.regs.eip = START /\ UserContext.regs.cs = UCODE
      /\ UserContext.regs.ss = UDATA
  BY DEF UserContext
<1>. QED BY <1>1, <1>2, Zenon DEF Resting

LEMMA SwitchStep == ASSUME Inv, Switch PROVE Inv'
<1>. DEFINE new == stacks[PROC]
            old == <<regs.edi, regs.esi, regs.ebx, regs.ebp, LOOP>> \o stacks[SCHED]
            t == SubSeq(new, 6, Len(new))
<1>1. /\ regs.eip = LOOP
      /\ regs' = [regs EXCEPT !.edi = new[1], !.esi = new[2], !.ebx = new[3], !.ebp = new[4],
                              !.eip = new[5], !.eax = JUNK, !.edx = JUNK, !.eflags = 0]
      /\ stacks' = <<old, t>> /\ stk' = PROC /\ entered' = <<NewEntry>>
      /\ irr' = irr /\ isr' = isr /\ quiet' = quiet /\ first_time' = first_time
  BY Zenon DEF Switch, NewEntry
<1>2. Context.regs = regs /\ Context.stk = stk /\ regs \in Regs
  BY ContextParts, Zenon DEF Inv, Types
<1>3. entered = << >>
  BY <1>1, <1>2, Innermost, At, ForkingAt, Zenon DEF Inv, Running
<1>4. stk = SCHED /\ InKernel(Context)
  <2>1. LOOP # START
    BY DEF LOOP, START
  <2>. QED BY <1>1, <1>2, <1>3, <2>1, Zenon DEF Inv, Running, Resting
<1>5. new = NewStack /\ stacks[SCHED] \in Seq(Int)
  BY <1>4, Zenon DEF Inv, Types
<1>6. /\ new[1] = 0 /\ new[2] = 0 /\ new[3] = 0 /\ new[4] = 0 /\ new[5] = FORKRET
      /\ t = <<TRAPRET>> \o (Saved(UserContext.regs, 0) \o Below(NewEntry)) /\ t \in Seq(Int)
  BY <1>5, NewStackLayout, Zenon
<1>7. old \in Seq(Int)
  <2>. DEFINE x == <<regs.edi, regs.esi, regs.ebx, regs.ebp, LOOP>>
  <2>1. x \in Seq(Int)
    BY <1>2 DEF Regs, LOOP
  <2>. HIDE DEF x
  <2>2. x \o stacks[SCHED] \in Seq(Int)
    BY <1>5, <2>1, Pushed, Zenon
  <2>. QED BY <2>2, Zenon DEF x
<1>. HIDE DEF new, old, t
<1>8. regs' = [regs EXCEPT !.edi = 0, !.esi = 0, !.ebx = 0, !.ebp = 0, !.eip = FORKRET,
                           !.eax = JUNK, !.edx = JUNK, !.eflags = 0]
  BY <1>1, <1>6, Zenon
<1>9. regs' \in Regs
  <2>1. 0 \in Int /\ FORKRET \in Int /\ JUNK \in Int
    BY DEF FORKRET, JUNK
  <2>. QED BY <1>2, <1>8, <2>1, Switched, Zenon
<1>10. /\ regs'.eip = FORKRET /\ regs'.cs = regs.cs /\ regs'.ss = regs.ss
       /\ regs'.esp = regs.esp /\ regs'.eflags = 0
  BY <1>2, <1>8, Zenon DEF Regs
<1>11. stacks' \in [{SCHED, PROC} -> Seq(Int)] /\ stacks'[PROC] = t
  <2>1. \A a, b \in Seq(Int) : <<a, b>> \in [{1, 2} -> Seq(Int)] /\ <<a, b>>[2] = b
    OBVIOUS
  <2>. QED BY <1>1, <1>6, <1>7, <2>1, Zenon DEF SCHED, PROC
<1>12. Types'
  <2>1. PROC # SCHED
    BY DEF PROC, SCHED
  <2>. QED BY <1>1, <1>9, <1>11, <2>1, Zenon DEF Inv, Types
<1>13. Context'.regs = regs' /\ Context'.stk = PROC /\ Context'.stack = t
  <2>1. PROC # USTACK
    BY DEF PROC, USTACK
  <2>2. Context' = [regs |-> regs', stk |-> PROC, stack |-> t]
    BY <1>1, <1>11, <2>1, Zenon DEF Context
  <2>. QED BY <2>2, Zenon
<1>14. /\ entered' \in Seq(Entries) /\ Len(entered') = 1 /\ entered'[1] = NewEntry
       /\ entered' # << >>
  <2>1. NewEntry \in Entries
    BY UserFrameIsBelow, Zenon
  <2>2. /\ <<NewEntry>> \in Seq(Entries) /\ Len(<<NewEntry>>) = 1 /\ <<NewEntry>>[1] = NewEntry
    BY <2>1
  <2>3. <<NewEntry>> # << >>
    <3>1. Len(<<NewEntry>>) # 0
      BY <2>2
    <3>. QED BY <3>1, EmptySeq, Zenon
  <2>. QED BY <1>1, <2>2, <2>3, Zenon
<1>15. Chain'
  <2>1. Len(entered') <= 2 /\ Len(entered') # 2 /\ 1 .. Len(entered') = {1}
    BY <1>14
  <2>. QED BY <1>14, <2>1, UserRestsToo, Zenon DEF Chain
<1>16. Running'
  <2>1. FORKRET \in {FORKRET, PANIC}
    BY Zenon
  <2>2. Forking(Context', NewEntry)
    BY <1>2, <1>4, <1>6, <1>10, <1>13, <2>1, UserRestsToo, Zenon DEF Forking, InKernel
  <2>. QED BY <1>14, <2>2, Zenon DEF Running
<1>17. InService'
  BY <1>1, <1>3, <1>14, UserRestsToo, Zenon DEF Inv, InService
<1>. QED BY <1>12, <1>15, <1>16, <1>17, Zenon DEF Inv

LEMMA ForkretStep == ASSUME Inv, Forkret PROVE Inv'
<1>. DEFINE e == entered[1]  s == stacks[stk]  t == Saved(UserContext.regs, 0) \o Below(e)
<1>1. /\ regs.eip = FORKRET /\ first_time' = FALSE
      /\ IF first_time THEN regs' = [regs EXCEPT !.eip = PANIC] /\ stacks' = stacks
                       ELSE regs' = [regs EXCEPT !.eip = s[1]] /\ Drop(1)
      /\ stk' = stk /\ irr' = irr /\ isr' = isr /\ quiet' = quiet /\ entered' = entered
  BY Zenon DEF Forkret, Stack
<1>2. /\ Context.regs = regs /\ Context.stk = stk /\ regs \in Regs
      /\ Context.stack = IF stk = USTACK THEN << >> ELSE s
  BY ContextParts, Zenon DEF Inv, Types
<1>3. entered # << >> /\ e \in Entries /\ Len(entered) = 1 /\ Forking(Context, e)
  BY <1>1, <1>2, RestingAt, Innermost, At, Zenon DEF Inv, Running
<1>4. /\ stk = PROC /\ stk # USTACK /\ e.ctx = UserContext /\ e.acked /\ s = <<TRAPRET>> \o t
      /\ InKernel(Context) /\ regs.eflags = 0
  <2>1. PROC # USTACK
    BY DEF PROC, USTACK
  <2>. QED BY <1>2, <1>3, <2>1, Zenon DEF Forking
<1>5. t \in Seq(Int) /\ s \in Seq(Int)
  <2>1. t \in Seq(Int)
    <3>1. 0 \in Int
      OBVIOUS
    <3>. QED BY <1>3, <1>4, <3>1, Unwound, Zenon
  <2>. QED BY <1>4, <2>1, ContextParts, Zenon DEF Inv
<1>6. PANIC \in Int /\ TRAPRET \in Int /\ FALSE \in BOOLEAN
  BY DEF PANIC, TRAPRET
<1>7. Chain' /\ InService'
  BY <1>1, Zenon DEF Inv, Chain, InService
<1>8. CASE first_time
  <2>1. regs' = [regs EXCEPT !.eip = PANIC] /\ stacks' = stacks
    BY <1>1, <1>8, Zenon
  <2>2. regs' \in Regs
    BY <1>2, <1>6, <2>1, Jump, Zenon
  <2>3. /\ regs'.eip = PANIC /\ regs'.cs = regs.cs /\ regs'.ss = regs.ss
        /\ regs'.esp = regs.esp /\ regs'.eflags = regs.eflags
    BY <1>2, <2>1, Zenon DEF Regs
  <2>4. stacks' = [stacks EXCEPT ![stk] = s]
    BY <2>1, Zenon DEF Inv, Types
  <2>. HIDE DEF s
  <2>5. Types' /\ Context'.regs = regs' /\ Context'.stk = stk /\ Context'.stack = s
    BY <1>1, <1>4, <1>5, <1>6, <2>2, <2>4, Within, Zenon DEF Inv
  <2>. HIDE DEF e
  <2>6. Forking(Context', e)
    BY <1>2, <1>4, <2>3, <2>5, Zenon DEF Forking, InKernel
  <2>7. Running'
    BY <1>1, <1>3, <2>6, Zenon DEF Running, e
  <2>. QED BY <1>7, <2>5, <2>7, Zenon DEF Inv
<1>9. CASE ~first_time
  <2>1. s[1] = TRAPRET /\ SubSeq(s, 2, Len(s)) = t
    <3>. DEFINE y == <<TRAPRET>>
    <3>1. y \in Seq(Int) /\ Len(y) = 1 /\ y[1] = TRAPRET
      BY <1>6
    <3>2. s = y \o t
      BY <1>4, Zenon
    <3>. HIDE DEF y, s, t
    <3>3. /\ \A i \in 1 .. Len(y) : (y \o t)[i] = y[i]
          /\ SubSeq(y \o t, Len(y) + 1, Len(y \o t)) = t
      BY <1>5, <3>1, Pushed, Zenon
    <3>4. 1 \in 1 .. Len(y) /\ Len(y) + 1 = 2
      BY <3>1
    <3>. QED BY <3>1, <3>2, <3>3, <3>4, Zenon
  <2>2. stacks' = [stacks EXCEPT ![stk] = t]
    <3>1. stacks' = [stacks EXCEPT ![stk] = SubSeq(s, 1 + 1, Len(s))]
      BY <1>1, <1>9, Zenon DEF Drop
    <3>2. 1 + 1 = 2
      OBVIOUS
    <3>. QED BY <2>1, <3>1, <3>2, Zenon
  <2>3. regs' = [regs EXCEPT !.eip = TRAPRET]
    BY <1>1, <1>9, <2>1, Zenon
  <2>4. regs' \in Regs
    BY <1>2, <1>6, <2>3, Jump, Zenon
  <2>5. /\ regs'.eip = TRAPRET /\ regs'.cs = regs.cs /\ regs'.ss = regs.ss
        /\ regs'.esp = regs.esp /\ regs'.eflags = regs.eflags
    BY <1>2, <2>3, Zenon DEF Regs
  <2>. HIDE DEF t
  <2>6. Types' /\ Context'.regs = regs' /\ Context'.stk = stk /\ Context'.stack = t
    BY <1>1, <1>4, <1>5, <1>6, <2>2, <2>4, Within, Zenon DEF Inv
  <2>7. e.ctx.stk = USTACK /\ \E o \in Int : t = Saved(e.ctx.regs, o) \o Below(e)
    <3>1. UserContext.stk = USTACK /\ 0 \in Int
      BY DEF UserContext
    <3>. QED BY <1>4, <3>1, Zenon DEF t
  <2>8. FL_IF # 0
    BY DEF FL_IF
  <2>. HIDE DEF e
  <2>9. Handles(Context', e)
    BY <1>2, <1>4, <2>5, <2>6, <2>7, <2>8, Zenon DEF Handles, InKernel
  <2>10. Running'
    BY <1>1, <1>3, <2>9, Zenon DEF Running, e
  <2>. QED BY <1>7, <2>6, <2>10, Zenon DEF Inv
<1>. QED BY <1>8, <1>9, Zenon

-----------------------------------------------------------------------------
(* The theorems *)

\* The scheduler has been entered from nowhere, and the new process's stack is laid out.
LEMMA InitInv == ASSUME Init PROVE Inv
<1>1. /\ regs \in Regs /\ regs.eip = LOOP /\ regs.cs = KCODE /\ regs.ss = KDATA /\ regs.esp = 0
      /\ regs.eflags = FL_IF
  BY DEF Init, Regs, LOOP, KCODE, KDATA, FL_IF
<1>2. /\ stk = SCHED /\ stacks = << << >>, NewStack >> /\ irr = {} /\ isr = {} /\ quiet = {}
      /\ first_time \in BOOLEAN /\ entered = << >>
  BY Zenon DEF Init
<1>3. stacks \in [{SCHED, PROC} -> Seq(Int)] /\ stacks[PROC] = NewStack /\ stacks[SCHED] = << >>
  <2>1. NewStack \in Seq(Int) /\ << >> \in Seq(Int)
    BY NewStackLayout, EmptySeq, Zenon
  <2>2. \A a, b \in Seq(Int) :
          <<a, b>> \in [{1, 2} -> Seq(Int)] /\ <<a, b>>[2] = b /\ <<a, b>>[1] = a
    OBVIOUS
  <2>. QED BY <1>2, <2>1, <2>2, Zenon DEF SCHED, PROC
<1>4. Types
  BY <1>1, <1>2, <1>3, Zenon DEF Types
<1>5. Chain
  <2>1. entered \in Seq(Entries) /\ Len(entered) = 0
    BY <1>2, EmptySeq, Zenon
  <2>2. 0 <= 2 /\ 0 # 1 /\ 0 # 2 /\ 1 .. 0 = {}
    OBVIOUS
  <2>. QED BY <2>1, <2>2, Zenon DEF Chain
<1>6. Running
  <2>1. Context.regs = regs /\ Context.stk = SCHED /\ Context.stack = << >>
    <3>1. SCHED # USTACK
      BY DEF SCHED, USTACK
    <3>. QED BY <1>2, <1>3, <1>4, <3>1, ContextParts, Zenon
  <2>. QED BY <1>1, <1>2, <2>1, Zenon DEF Running, Resting, InKernel
<1>7. InService
  BY <1>2, Zenon DEF InService
<1>. QED BY <1>4, <1>5, <1>6, <1>7, Zenon DEF Inv

\* Every step keeps the invariant.
LEMMA NextInv == ASSUME NoErrorCodes, Inv, [Next]_vars PROVE Inv'
<1>1. CASE Next
  <2>1. CASE \E v \in 0 .. 255 : Stub(v)
    BY <2>1, StubStep, Zenon
  <2>2. CASE AllTraps \/ Trap \/ TrapRet
    BY <2>2, AllTrapsStep, TrapStep, TrapRetStep, Zenon
  <2>3. CASE Iret \/ Forkret \/ Switch
    BY <2>3, IretStep, ForkretStep, SwitchStep, Zenon
  <2>4. CASE \E v \in Irqs : Raise(v) \/ Deliver(v)
    BY <2>4, RaiseStep, DeliverStep, Zenon
  <2>5. CASE \E v \in Exceptions : Fault(v)
    BY <2>5, FaultStep, Zenon
  <2>6. CASE Spurious \/ Syscall
    BY <2>6, SpuriousStep, SyscallStep, Zenon
  <2>. QED BY <1>1, <2>1, <2>2, <2>3, <2>4, <2>5, <2>6, Zenon DEF Next, CpuStep
<1>2. CASE UNCHANGED vars
  <2>1. /\ regs' = regs /\ stk' = stk /\ stacks' = stacks /\ irr' = irr /\ isr' = isr
        /\ quiet' = quiet /\ first_time' = first_time /\ entered' = entered
    BY <1>2, Zenon DEF vars
  <2>2. Context' = Context
    BY <2>1, Zenon DEF Context
  <2>3. Types' /\ Chain'
    BY <2>1, Zenon DEF Inv, Types, Chain
  <2>4. Running' /\ InService'
    BY <2>1, <2>2, Zenon DEF Inv, Running, InService
  <2>. QED BY <2>3, <2>4, Zenon DEF Inv
<1>. QED BY <1>1, <1>2, Zenon

\* What the stacks hold at every point of the entry code, whatever IRQs and faults there are,
\* as long as no fault pushes an error code.
THEOREM TrapInvariant == NoErrorCodes => (Spec => []Inv)
<1>. SUFFICES ASSUME NoErrorCodes PROVE Spec => []Inv
  BY Zenon
<1>1. Init => Inv
  BY InitInv, Zenon
<1>2. Inv /\ [Next]_vars => Inv'
  BY NextInv, Zenon
<1>. QED BY <1>1, <1>2, PTL DEF Spec

\* The interrupts in service are those of the entries that have one.
LEMMA InServiceIrqs == ASSUME Inv PROVE isr \subseteq Irqs
<1>1. CASE entered = << >>
  BY <1>1, Zenon DEF Inv, InService
<1>2. CASE entered # << >>
  <2>1. 1 \in 1 .. Len(entered)
    <3>1. Len(entered) \in {1, 2}
      BY <1>2, Innermost, Zenon DEF Inv
    <3>. QED BY <3>1
  <2>. QED BY <1>2, <2>1, Zenon DEF Inv, Chain, InService
<1>. QED BY <1>1, <1>2, Zenon

\* Types are kept: the selectors are the kernel's, and user code runs on no kernel stack.
THEOREM TrapTypes == NoErrorCodes => (Spec => []TypeOK)
<1>. SUFFICES ASSUME NoErrorCodes PROVE Spec => []TypeOK
  BY Zenon
<1>1. Inv => TypeOK
  <2>. SUFFICES ASSUME Inv PROVE TypeOK
    BY Zenon
  <2>1. regs.eflags \in {0, FL_IF} /\ regs.ds \in {KDATA, UDATA} /\ regs.es \in {KDATA, UDATA}
    BY Zenon DEF Inv, Types, Regs
  <2>. QED BY <2>1, Ring, InServiceIrqs, Zenon DEF Inv, Types, TypeOK
<1>2. Spec => []Inv
  BY TrapInvariant, Zenon
<1>. QED BY <1>1, <1>2, PTL

\* In service are exactly the interrupts whose handlers have not sent their EOI.
THEOREM OneEoiEach == NoErrorCodes => (Spec => []AcksMatch)
<1>. SUFFICES ASSUME NoErrorCodes PROVE Spec => []AcksMatch
  BY Zenon
<1>1. Inv => AcksMatch
  <2>. SUFFICES ASSUME Inv PROVE AcksMatch
    BY Zenon
  <2>. DEFINE I == {j \in DOMAIN entered : entered[j].irq /\ ~entered[j].acked}
  <2>1. DOMAIN entered = 1 .. Len(entered)
    BY LenProperties, Zenon DEF Inv, Chain
  <2>2. CASE entered = << >>
    <3>1. Len(entered) = 0
      BY <2>2, EmptySeq, Zenon
    <3>2. 1 .. Len(entered) = {}
      BY <3>1
    <3>3. I = {}
      BY <2>1, <3>2, Zenon
    <3>. HIDE DEF I
    <3>4. {e.v : e \in {entered[i] : i \in I}} = {}
      BY <3>3, Zenon
    <3>. QED BY <2>2, <3>4, Zenon DEF AcksMatch, I, Inv, InService
  <2>3. CASE entered # << >>
    <3>1. Len(entered) \in {1, 2}
      BY <2>3, Innermost, Zenon DEF Inv
    <3>2. 1 \in 1 .. Len(entered)
      BY <3>1
    <3>3. \A j \in 1 .. Len(entered) : j = 1 \/ (j = 2 /\ Len(entered) = 2)
      <4>1. (\A j \in 1 .. 1 : j = 1) /\ (\A j \in 1 .. 2 : j = 1 \/ j = 2)
        OBVIOUS
      <4>. QED BY <3>1, <4>1, Zenon
    <3>4. Len(entered) = 2 => ~entered[2].irq
      <4>1. T_SYSCALL \notin Irqs /\ 2 \in 1 .. 2
        BY TrapAssumption DEF T_SYSCALL
      <4>. QED BY <4>1, Zenon DEF Inv, Chain
    <3>5. I = IF entered[1].irq /\ ~entered[1].acked THEN {1} ELSE {}
      BY <2>1, <3>2, <3>3, <3>4, Zenon
    <3>. HIDE DEF I
    <3>6. CASE entered[1].irq /\ ~entered[1].acked
      <4>1. I = {1}
        BY <3>5, <3>6, Zenon
      <4>2. {e.v : e \in {entered[i] : i \in I}} = {entered[1].v}
        BY <4>1, Zenon
      <4>. QED BY <2>3, <3>6, <4>2, Zenon DEF AcksMatch, I, Inv, InService
    <3>7. CASE ~(entered[1].irq /\ ~entered[1].acked)
      <4>1. I = {}
        BY <3>5, <3>7, Zenon
      <4>2. {e.v : e \in {entered[i] : i \in I}} = {}
        BY <4>1, Zenon
      <4>. QED BY <2>3, <3>7, <4>2, Zenon DEF AcksMatch, I, Inv, InService
    <3>. QED BY <3>6, <3>7, Zenon
  <2>. QED BY <2>2, <2>3, Zenon
<1>2. Spec => []Inv
  BY TrapInvariant, Zenon
<1>. QED BY <1>1, <1>2, PTL

\* The words trap() gets a pointer to, for the entry e and the context it interrupted.
LEMMA Declared ==
    ASSUME NEW e \in Entries, NEW o \in Int, NEW t, t = Saved(e.ctx.regs, o) \o Below(e)
    PROVE  /\ t \in Seq(Int) /\ Len(t) = Len(Below(e)) + 12 /\ Pops(t, e.ctx.regs)
           /\ t[13] = e.v /\ t[14] = 0 /\ t[15] = e.ctx.regs.eip /\ t[16] = e.ctx.regs.cs
           /\ t[17] = e.ctx.regs.eflags /\ Len(t) >= 17
           /\ e.ctx.stk = USTACK => /\ t[18] = e.ctx.regs.esp /\ t[19] = e.ctx.regs.ss
                                    /\ Len(t) >= 19
<1>. DEFINE c == e.ctx  x == Saved(c.regs, o)  y == <<e.v, 0>>  f == Frame(c)  w == y \o f
<1>1. c \in Contexts /\ c.regs \in Regs /\ e.v \in Int
  BY EntryType, Zenon
<1>2. x \in Seq(Int) /\ Len(x) = 12
  BY <1>1, SavedWords, Zenon
<1>3. t \in Seq(Int) /\ Pops(t, c.regs)
  BY Unwound, Zenon
<1>4. f \in Seq(Int) /\ w \in Seq(Int) /\ w = Below(e)
  BY BelowType, Zenon DEF Below
<1>5. y \in Seq(Int) /\ Len(y) = 2 /\ y[1] = e.v /\ y[2] = 0
  <2>1. \A k \in Int : /\ <<k, 0>> \in Seq(Int) /\ Len(<<k, 0>>) = 2
                       /\ <<k, 0>>[1] = k /\ <<k, 0>>[2] = 0
    OBVIOUS
  <2>. QED BY <1>1, <2>1, Zenon
<1>6. /\ f[1] = c.regs.eip /\ f[2] = c.regs.cs /\ f[3] = c.regs.eflags
      /\ c.stk = USTACK => f[4] = c.regs.esp /\ f[5] = c.regs.ss
  BY <1>1, FrameWords, Zenon
<1>7. Len(f) >= 3 /\ (c.stk = USTACK => Len(f) = 5)
  <2>. DEFINE b == <<c.regs.eip, c.regs.cs, c.regs.eflags>>
              g == IF c.stk = USTACK THEN <<c.regs.esp, c.regs.ss>> ELSE c.stack
  <2>1. /\ c.regs.eip \in Int /\ c.regs.cs \in Int /\ c.regs.eflags \in Int
        /\ c.regs.esp \in Int /\ c.regs.ss \in Int /\ c.stack \in Seq(Int)
    <3>. HIDE DEF c
    <3>. QED BY <1>1, ContextWords, Zenon
  <2>2. b \in Seq(Int) /\ Len(b) = 3 /\ <<c.regs.esp, c.regs.ss>> \in Seq(Int)
        /\ Len(<<c.regs.esp, c.regs.ss>>) = 2
    <3>. HIDE DEF c
    <3>. QED BY <2>1
  <2>3. g \in Seq(Int) /\ (c.stk = USTACK => Len(g) = 2)
    BY <2>1, <2>2, Zenon
  <2>4. f = b \o g
    BY Zenon DEF Frame
  <2>. HIDE DEF b, g, f
  <2>5. Len(f) = Len(b) + Len(g) /\ Len(g) \in Nat
    BY <2>2, <2>3, <2>4, Pushed, LenProperties, Zenon
  <2>6. \A k \in Nat : 3 + k >= 3
    OBVIOUS
  <2>7. 3 + 2 = 5
    OBVIOUS
  <2>. QED BY <2>2, <2>3, <2>5, <2>6, <2>7, Zenon
<1>. HIDE DEF c, x, y, f
<1>8. /\ Len(w) = Len(y) + Len(f) /\ \A i \in 1 .. Len(y) : w[i] = y[i]
      /\ \A i \in Len(y) + 1 .. Len(y) + Len(f) : w[i] = f[i - Len(y)]
  BY <1>4, <1>5, Pushed, Beneath, Zenon
<1>9. t = x \o w
  BY <1>4, Zenon DEF x, c
<1>. HIDE DEF w
<1>10. /\ Len(t) = Len(x) + Len(w)
       /\ \A i \in Len(x) + 1 .. Len(x) + Len(w) : t[i] = w[i - Len(x)]
  <2>1. Len(x \o w) = Len(x) + Len(w)
    BY <1>2, <1>4, Pushed, Zenon
  <2>2. \A i \in Len(x) + 1 .. Len(x) + Len(w) : (x \o w)[i] = w[i - Len(x)]
    BY <1>2, <1>4, Beneath, Zenon
  <2>. QED BY <1>9, <2>1, <2>2, Zenon
<1>. DEFINE n == Len(f)
<1>11. n \in Nat /\ n >= 3 /\ (c.stk = USTACK => n = 5) /\ Len(w) = n + 2 /\ Len(t) = n + 14
  <2>1. n \in Nat
    BY <1>4, LenProperties, Zenon
  <2>. QED BY <1>2, <1>5, <1>7, <1>8, <1>10, <2>1
<1>12. \A i \in 3 .. n + 2 : w[i] = f[i - 2]
  <2>1. Len(y) + 1 = 3 /\ Len(y) + n = n + 2
    BY <1>5, <1>11
  <2>. QED BY <1>5, <1>8, <2>1, Zenon
<1>13. \A i \in 13 .. n + 14 : t[i] = w[i - 12]
  <2>1. Len(x) + 1 = 13 /\ Len(x) + Len(w) = n + 14
    BY <1>2, <1>11
  <2>. QED BY <1>2, <1>10, <2>1, Zenon
<1>. HIDE DEF n
<1>14. w[1] = e.v /\ w[2] = 0 /\ w[3] = f[1] /\ w[4] = f[2] /\ w[5] = f[3]
  <2>1. w[1] = y[1] /\ w[2] = y[2]
    BY <1>5, <1>8
  <2>2. w[3] = f[1] /\ w[4] = f[2] /\ w[5] = f[3]
    BY <1>11, <1>12
  <2>. QED BY <1>5, <2>1, <2>2, Zenon
<1>15. n = 5 => w[6] = f[4] /\ w[7] = f[5]
  BY <1>11, <1>12
<1>16. t[13] = w[1] /\ t[14] = w[2] /\ t[15] = w[3] /\ t[16] = w[4] /\ t[17] = w[5]
  BY <1>11, <1>13
<1>17. n = 5 => t[18] = w[6] /\ t[19] = w[7]
  BY <1>11, <1>13
<1>18. Len(t) = Len(w) + 12 /\ Len(t) >= 17 /\ (n = 5 => Len(t) >= 19)
  BY <1>11
<1>19. /\ t[13] = e.v /\ t[14] = 0 /\ t[15] = c.regs.eip /\ t[16] = c.regs.cs
       /\ t[17] = c.regs.eflags
  BY <1>6, <1>14, <1>16, Zenon
<1>20. c.stk = USTACK => t[18] = c.regs.esp /\ t[19] = c.regs.ss /\ Len(t) >= 19
  BY <1>6, <1>11, <1>15, <1>17, <1>18, Zenon
<1>. QED BY <1>3, <1>4, <1>18, <1>19, <1>20, Zenon DEF c

\* What TrapFrame's declaration says its field i holds, for an entry e without error code.
Holds(e, i) ==
    CASE Fields[i] = "trap_no" -> e.v [] Fields[i] = "err" -> 0 [] OTHER -> e.ctx.regs[Fields[i]]

\* The fields in their order.
LEMMA FieldWords ==
    ASSUME NEW e
    PROVE  /\ Fields[4] = "orig_esp" /\ (\A i \in 1 .. 19 : i # 4 => Fields[i] # "orig_esp")
           /\ Holds(e, 1) = e.ctx.regs.edi /\ Holds(e, 2) = e.ctx.regs.esi
           /\ Holds(e, 3) = e.ctx.regs.ebp /\ Holds(e, 5) = e.ctx.regs.ebx
           /\ Holds(e, 6) = e.ctx.regs.edx /\ Holds(e, 7) = e.ctx.regs.ecx
           /\ Holds(e, 8) = e.ctx.regs.eax /\ Holds(e, 9) = e.ctx.regs.gs
           /\ Holds(e, 10) = e.ctx.regs.fs /\ Holds(e, 11) = e.ctx.regs.es
           /\ Holds(e, 12) = e.ctx.regs.ds /\ Holds(e, 13) = e.v /\ Holds(e, 14) = 0
           /\ Holds(e, 15) = e.ctx.regs.eip /\ Holds(e, 16) = e.ctx.regs.cs
           /\ Holds(e, 17) = e.ctx.regs.eflags /\ Holds(e, 18) = e.ctx.regs.esp
           /\ Holds(e, 19) = e.ctx.regs.ss
<1>1. Fields[4] = "orig_esp" /\ (\A i \in 1 .. 19 : i # 4 => Fields[i] # "orig_esp")
  BY DEF Fields
<1>2. /\ Fields[1] = "edi" /\ Fields[2] = "esi" /\ Fields[3] = "ebp" /\ Fields[5] = "ebx"
      /\ Fields[6] = "edx" /\ Fields[7] = "ecx" /\ Fields[8] = "eax" /\ Fields[9] = "gs"
      /\ Fields[10] = "fs" /\ Fields[11] = "es" /\ Fields[12] = "ds" /\ Fields[13] = "trap_no"
      /\ Fields[14] = "err" /\ Fields[15] = "eip" /\ Fields[16] = "cs" /\ Fields[17] = "eflags"
      /\ Fields[18] = "esp" /\ Fields[19] = "ss"
  BY Zenon DEF Fields
<1>3. /\ Holds(e, 1) = e.ctx.regs.edi /\ Holds(e, 2) = e.ctx.regs.esi
      /\ Holds(e, 3) = e.ctx.regs.ebp /\ Holds(e, 5) = e.ctx.regs.ebx
      /\ Holds(e, 6) = e.ctx.regs.edx /\ Holds(e, 7) = e.ctx.regs.ecx
      /\ Holds(e, 8) = e.ctx.regs.eax /\ Holds(e, 9) = e.ctx.regs.gs
      /\ Holds(e, 10) = e.ctx.regs.fs
  BY <1>2, Zenon DEF Holds
<1>4. /\ Holds(e, 11) = e.ctx.regs.es
      /\ Holds(e, 12) = e.ctx.regs.ds /\ Holds(e, 13) = e.v /\ Holds(e, 14) = 0
      /\ Holds(e, 15) = e.ctx.regs.eip /\ Holds(e, 16) = e.ctx.regs.cs
      /\ Holds(e, 17) = e.ctx.regs.eflags /\ Holds(e, 18) = e.ctx.regs.esp
      /\ Holds(e, 19) = e.ctx.regs.ss
  BY <1>2, Zenon DEF Holds
<1>. QED BY <1>1, <1>3, <1>4, Zenon

\* At the call of trap() the stack holds the declared frame.
LEMMA FrameAtTrap == ASSUME Inv PROVE FrameAsDeclared
<1>. SUFFICES ASSUME regs.eip = TRAP
              PROVE  LET e == entered[1]
                         r == e.ctx.regs
                         crossing == r.cs % 4 = 3
                     IN  /\ Stack[2] = Len(Stack) - 2
                         /\ \A i \in 1 .. (IF crossing THEN 19 ELSE 17) :
                              Stack[2 + i] =
                                CASE Fields[i] = "orig_esp" -> Stack[2 + i]
                                  [] Fields[i] = "trap_no" -> e.v
                                  [] Fields[i] = "err" -> (IF e.v \in ErrVectors THEN ERROR_CODE ELSE 0)
                                  [] OTHER -> r[Fields[i]]
  BY Zenon DEF FrameAsDeclared
<1>. DEFINE e == entered[1]  s == stacks[stk]  r == e.ctx.regs  crossing == r.cs % 4 = 3
            last == IF crossing THEN 19 ELSE 17
<1>1. /\ entered # << >> /\ e \in Entries /\ Handles(Context, e)
      /\ Context.regs = regs /\ Context.stack = s /\ s \in Seq(Int)
  BY Handling, Zenon
<1>2. ~e.acked /\ \E o \in Int : s = <<TRAPRET, Len(Below(e)) + 12>> \o (Saved(r, o) \o Below(e))
  <2>1. Context.regs.eip = TRAP
    BY <1>1, Zenon
  <2>2. ~e.acked /\ \E o \in Int : Context.stack = <<TRAPRET, Len(Below(e)) + 12>>
                                                   \o (Saved(e.ctx.regs, o) \o Below(e))
    <3>. HIDE DEF e
    <3>. QED BY <1>1, <2>1, At, Zenon
  <2>. QED BY <1>1, <2>2, Zenon
<1>3. PICK o \in Int : s = <<TRAPRET, Len(Below(e)) + 12>> \o (Saved(r, o) \o Below(e))
  BY <1>2, Zenon
<1>4. e.v \notin ErrVectors
  <2>1. 1 \in 1 .. Len(entered)
    <3>1. Len(entered) \in {1, 2}
      BY <1>1, Innermost, Zenon DEF Inv
    <3>2. 1 \in 1 .. 1 /\ 1 \in 1 .. 2
      OBVIOUS
    <3>. QED BY <3>1, <3>2, Zenon
  <2>. QED BY <1>2, <2>1, Zenon DEF Inv, Chain
<1>. DEFINE t == Saved(r, o) \o Below(e)  x == <<TRAPRET, Len(Below(e)) + 12>>
<1>5. /\ t \in Seq(Int) /\ Len(t) = Len(Below(e)) + 12 /\ Pops(t, r)
      /\ t[13] = e.v /\ t[14] = 0 /\ t[15] = r.eip /\ t[16] = r.cs
      /\ t[17] = r.eflags /\ Len(t) >= 17
      /\ e.ctx.stk = USTACK => t[18] = r.esp /\ t[19] = r.ss /\ Len(t) >= 19
  <2>. HIDE DEF e
  <2>. QED BY <1>1, Declared, Zenon
<1>6. x \in Seq(Int) /\ Len(x) = 2 /\ x[2] = Len(t)
  <2>1. Len(t) \in Nat
    BY <1>5, LenProperties, Zenon
  <2>2. x = <<TRAPRET, Len(t)>>
    BY <1>5, Zenon
  <2>. DEFINE n == Len(t)
  <2>. HIDE DEF n, t, x
  <2>3. n \in Nat /\ x = <<TRAPRET, n>>
    BY <2>1, <2>2, Zenon DEF n
  <2>4. <<TRAPRET, n>> \in Seq(Int) /\ Len(<<TRAPRET, n>>) = 2 /\ <<TRAPRET, n>>[2] = n
    BY <2>3 DEF TRAPRET
  <2>. QED BY <2>3, <2>4, Zenon DEF n
<1>7. s = x \o t
  BY <1>3, Zenon
<1>8. crossing => e.ctx.stk = USTACK
  BY <1>1, Suspended, Zenon
<1>. HIDE DEF s, t, x, crossing
<1>9. /\ Len(s) = Len(x) + Len(t) /\ \A i \in 1 .. Len(x) : s[i] = x[i]
      /\ \A i \in Len(x) + 1 .. Len(x) + Len(t) : s[i] = t[i - Len(x)]
  <2>1. Len(x \o t) = Len(x) + Len(t) /\ \A i \in 1 .. Len(x) : (x \o t)[i] = x[i]
    BY <1>5, <1>6, Pushed, Zenon
  <2>2. \A i \in Len(x) + 1 .. Len(x) + Len(t) : (x \o t)[i] = t[i - Len(x)]
    BY <1>5, <1>6, Beneath, Zenon
  <2>. QED BY <1>7, <2>1, <2>2, Zenon
<1>. DEFINE n == Len(t)
<1>10. n \in Nat /\ n >= 17 /\ (crossing => n >= 19) /\ Len(s) = n + 2
  <2>1. n \in Nat
    BY <1>5, LenProperties, Zenon
  <2>. QED BY <1>5, <1>6, <1>8, <1>9, <2>1
<1>11. s[2] = n
  <2>1. 2 \in 1 .. Len(x)
    BY <1>6
  <2>. QED BY <1>6, <1>9, <2>1, Zenon
<1>12. \A i \in 3 .. n + 2 : s[i] = t[i - 2]
  <2>1. Len(x) + 1 = 3 /\ Len(x) + n = n + 2
    BY <1>6, <1>10
  <2>. QED BY <1>6, <1>9, <2>1, Zenon
<1>. HIDE DEF n
<1>13. s[2] = Len(s) - 2
  BY <1>10, <1>11
<1>14. \A i \in 1 .. n : s[2 + i] = t[i]
  <2>1. \A i \in 1 .. n : 2 + i \in 3 .. n + 2 /\ (2 + i) - 2 = i
    BY <1>10
  <2>. QED BY <1>12, <2>1, Zenon
<1>15. \A i \in 1 .. last : i \in 1 .. n /\ i \in 1 .. 19
  <2>1. last \in {17, 19} /\ n >= last
    BY <1>10, Zenon
  <2>. HIDE DEF last
  <2>. QED BY <1>10, <2>1
<1>16. \A i \in 1 .. last : i # 4 => t[i] = Holds(e, i)
  <2>1. /\ t[1] = Holds(e, 1) /\ t[2] = Holds(e, 2) /\ t[3] = Holds(e, 3) /\ t[5] = Holds(e, 5)
        /\ t[6] = Holds(e, 6) /\ t[7] = Holds(e, 7) /\ t[8] = Holds(e, 8) /\ t[9] = Holds(e, 9)
        /\ t[10] = Holds(e, 10) /\ t[11] = Holds(e, 11) /\ t[12] = Holds(e, 12)
    <3>. HIDE DEF e
    <3>. QED BY <1>5, FieldWords, Zenon DEF Pops
  <2>2. /\ t[13] = Holds(e, 13) /\ t[14] = Holds(e, 14) /\ t[15] = Holds(e, 15)
        /\ t[16] = Holds(e, 16) /\ t[17] = Holds(e, 17)
        /\ crossing => t[18] = Holds(e, 18) /\ t[19] = Holds(e, 19)
    <3>. HIDE DEF e
    <3>. QED BY <1>5, <1>8, FieldWords, Zenon
  <2>. HIDE DEF e
  <2>3. \A i \in 1 .. 12 : i # 4 => t[i] = Holds(e, i)
    <3>1. \A i \in 1 .. 12 : i # 4 => i \in {1, 2, 3, 5, 6, 7, 8, 9, 10, 11, 12}
      OBVIOUS
    <3>. QED BY <2>1, <3>1
  <2>4. \A i \in 13 .. 17 : t[i] = Holds(e, i)
    <3>1. \A i \in 13 .. 17 : i \in {13, 14, 15, 16, 17}
      OBVIOUS
    <3>. QED BY <2>2, <3>1, Zenon
  <2>5. /\ \A i \in 1 .. 17 : i \in 1 .. 12 \/ i \in 13 .. 17
        /\ \A i \in 1 .. 19 : i \in 1 .. 17 \/ i = 18 \/ i = 19
    OBVIOUS
  <2>. QED BY <2>2, <2>3, <2>4, <2>5, Zenon
<1>17. \A i \in 1 .. last :
         s[2 + i] = CASE Fields[i] = "orig_esp" -> s[2 + i]
                      [] Fields[i] = "trap_no" -> e.v
                      [] Fields[i] = "err" -> (IF e.v \in ErrVectors THEN ERROR_CODE ELSE 0)
                      [] OTHER -> r[Fields[i]]
  <2>. HIDE DEF last
  <2>. SUFFICES ASSUME NEW i \in 1 .. last
                PROVE  s[2 + i] = CASE Fields[i] = "orig_esp" -> s[2 + i]
                      [] Fields[i] = "trap_no" -> e.v
                      [] Fields[i] = "err" -> (IF e.v \in ErrVectors THEN ERROR_CODE ELSE 0)
                      [] OTHER -> r[Fields[i]]
    BY Zenon
  <2>1. s[2 + i] = t[i] /\ i \in 1 .. 19
    BY <1>14, <1>15, Zenon
  <2>2. CASE i = 4
    <3>1. Fields[i] = "orig_esp" /\ Fields[i] # "trap_no" /\ Fields[i] # "err"
      BY <2>2, Zenon DEF Fields
    <3>. QED BY <3>1, Zenon
  <2>3. CASE i # 4
    <3>1. Fields[i] # "orig_esp"
      BY <2>1, <2>3, FieldWords, Zenon
    <3>2. s[2 + i] = Holds(e, i)
      BY <1>16, <2>1, <2>3, Zenon
    <3>. HIDE DEF e
    <3>. QED BY <1>4, <3>1, <3>2, Zenon DEF Holds
  <2>. QED BY <2>2, <2>3, Zenon
<1>. QED BY <1>13, <1>17, Zenon DEF Stack, s, crossing

\* trap() gets the frame that TrapFrame declares, whatever was interrupted.
THEOREM FramesDeclared == NoErrorCodes => (Spec => []FrameAsDeclared)
<1>. SUFFICES ASSUME NoErrorCodes PROVE Spec => []FrameAsDeclared
  BY Zenon
<1>1. Inv => FrameAsDeclared
  BY FrameAtTrap, Zenon
<1>2. Spec => []Inv
  BY TrapInvariant, Zenon
<1>. QED BY <1>1, <1>2, PTL

\* Only iret comes back to an interrupted context, and it brings back all of it.
LEMMA OnlyIretReturns ==
    ASSUME NoErrorCodes, Inv, [Next]_vars
    PROVE  Len(entered') < Len(entered) => Context' = entered[1].ctx
<1>. DEFINE Longer == Len(entered') = 1 + Len(entered) \/ Len(entered') = Len(entered)
<1>1. Len(entered) \in Nat
  BY LenProperties, Zenon DEF Inv, Chain
<1>2. Longer => ~(Len(entered') < Len(entered))
  <2>. DEFINE n == Len(entered)  m == Len(entered')
  <2>1. n \in Nat
    BY <1>1, Zenon
  <2>. HIDE DEF n, m
  <2>2. (m = 1 + n \/ m = n) => ~(m < n)
    BY <2>1
  <2>. QED BY <2>2, Zenon DEF n, m
<1>. HIDE DEF Longer
<1>3. ASSUME NEW v \in 0 .. 255, NEW irq \in BOOLEAN, v \notin ErrVectors, Enter(v, irq)
      PROVE  Longer
  <2>1. PICK e \in Entries : entered' = <<e>> \o entered
    BY <1>3, EnterHandles, Zenon DEF Inv
  <2>2. entered \in Seq(Entries)
    BY Zenon DEF Inv, Chain
  <2>3. Len(<<e>> \o entered) = 1 + Len(entered)
    BY <2>2, Prepended, Zenon
  <2>. QED BY <2>1, <2>3, Zenon DEF Longer
<1>4. CASE entered' = entered
  BY <1>2, <1>4, Zenon DEF Longer
<1>5. CASE Trap
  <2>1. entered' = [entered EXCEPT ![1].acked = TRUE] /\ regs.eip = TRAP
    BY <1>5, Zenon DEF Trap
  <2>2. entered # << >>
    BY <2>1, Handling, Zenon
  <2>3. entered \in Seq(Entries) /\ Len(entered) \in {1, 2}
    BY <2>2, Innermost, Zenon DEF Inv, Chain
  <2>4. Len(entered') = Len(entered)
    BY <2>1, <2>3, Acknowledged, Zenon
  <2>. QED BY <1>2, <2>4, Zenon DEF Longer
<1>6. CASE Iret
  BY <1>6, IretReturns, Zenon
<1>7. CASE Switch
  <2>1. regs.eip = LOOP /\ entered' = <<NewEntry>>
    BY <1>7, Zenon DEF Switch, NewEntry
  <2>2. Context.regs = regs
    BY ContextParts, Zenon DEF Inv
  <2>3. entered = << >>
    BY <2>1, <2>2, Innermost, At, ForkingAt, Zenon DEF Inv, Running
  <2>4. Len(<<NewEntry>>) = 1 + 0 /\ Len(<< >>) = 0
    OBVIOUS
  <2>. QED BY <1>2, <2>1, <2>3, <2>4, Zenon DEF Longer
<1>8. CASE \E v \in Irqs : Deliver(v)
  <2>1. PICK v \in Irqs : Deliver(v)
    BY <1>8, Zenon
  <2>2. v \in 0 .. 255 /\ v \notin ErrVectors
    BY TrapAssumption
  <2>. QED BY <1>2, <1>3, <2>1, <2>2, Zenon DEF Deliver
<1>9. CASE \E v \in Exceptions : Fault(v)
  <2>1. PICK v \in Exceptions : Fault(v)
    BY <1>9, Zenon
  <2>2. v \in 0 .. 255 /\ v \notin ErrVectors
    BY TrapAssumption DEF NoErrorCodes
  <2>. QED BY <1>2, <1>3, <2>1, <2>2, Zenon DEF Fault
<1>10. CASE Spurious \/ Syscall
  <2>1. /\ SPURIOUS \in 0 .. 255 /\ SPURIOUS \notin ErrVectors
        /\ T_SYSCALL \in 0 .. 255 /\ T_SYSCALL \notin ErrVectors
    BY TrapAssumption DEF SPURIOUS, T_SYSCALL
  <2>. QED BY <1>2, <1>3, <1>10, <2>1, Zenon DEF Spurious, Syscall
<1>11. CASE \/ \E v \in 0 .. 255 : Stub(v)
            \/ AllTraps \/ TrapRet \/ Forkret \/ \E v \in Irqs : Raise(v)
  BY <1>4, <1>11, Zenon DEF Stub, AllTraps, TrapRet, Forkret, Raise
<1>12. CASE UNCHANGED vars
  BY <1>4, <1>12, Zenon DEF vars
<1>. QED BY <1>5, <1>6, <1>7, <1>8, <1>9, <1>10, <1>11, <1>12, Zenon DEF Next, CpuStep

\* Whatever a handler returns to finds its registers and its stack as they were.
THEOREM ReturnsIntact == NoErrorCodes => (Spec => RunsIntact)
<1>. SUFFICES ASSUME NoErrorCodes PROVE Spec => RunsIntact
  BY Zenon
<1>1. Spec => []Inv
  BY TrapInvariant, Zenon
<1>2. Inv /\ [Next]_vars => [Len(entered') < Len(entered) => Context' = entered[1].ctx]_vars
  BY OnlyIretReturns, Zenon
<1>. QED BY <1>1, <1>2, PTL DEF Spec, RunsIntact
=============================================================================
