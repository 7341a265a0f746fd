-------------------------------- MODULE Trap --------------------------------
(***************************************************************************)
(* The way into and out of the kernel on one CPU: the vectors build.rs     *)
(* generates, alltraps, trap() and trapret (trap.rs), and the first        *)
(* dispatch of a process, whose stack alloc_proc and user_init laid out so *)
(* that switch, forkret and trapret bring it to user space (proc.rs).      *)
(*                                                                         *)
(* A stack is a sequence of words, top first, and a kernel %esp is the     *)
(* depth of its stack. Registers and words are integers. What runs when no *)
(* trap is being handled is one point, in the scheduler's loop or in user  *)
(* code. An interrupt between two instructions of alltraps or trapret      *)
(* leaves the stack below it alone, so these are one step each.            *)
(***************************************************************************)
EXTENDS Integers, Sequences, FiniteSetsExt

CONSTANTS
    Irqs,          \* vectors the local APIC delivers; the timer's is one
    Exceptions,    \* faults that occur
    ErrVectors     \* faults for which the processor pushes an error code

\* Vectors below T_IRQ0 are the processor's; an IRQ is T_IRQ0 and a number below 32.
ASSUME TrapAssumption ==
    Irqs \subseteq 32 .. 63 /\ Exceptions \subseteq 0 .. 31 /\ ErrVectors \subseteq 0 .. 31

VARIABLES
    regs,          \* the registers; %eip is the program counter
    stk,           \* the stack %esp is in
    stacks,        \* the kernel stacks
    irr, isr,      \* local APIC: vectors requested, and in service
    quiet,         \* device lines that have raised their edge and were not served
    first_time,    \* FIRST_TIME of forkret
    entered        \* history: the contexts to come back to, innermost first

vars == <<regs, stk, stacks, irr, isr, quiet, first_time, entered>>

SCHED == 1
PROC == 2
USTACK == 3

\* Program points. Vector v's entry is VECTOR + v.
LOOP == 2
FORKRET == 3
PANIC == 4
ALLTRAPS == 5
TRAP == 6
TRAPRET == 7
IRET == 8
START == 0
VECTOR == 1000
Points == {LOOP, FORKRET, PANIC, ALLTRAPS, TRAP, TRAPRET, IRET, START}
            \cup {VECTOR + v : v \in 0 .. 255}

TIMER == 32
SPURIOUS == 63
T_SYSCALL == 64
FL_IF == 512
KCODE == 8
KDATA == 16
UCODE == 27
UDATA == 35
ERROR_CODE == 77
JUNK == 99

Context == [regs |-> regs, stk |-> stk, stack |-> IF stk = USTACK THEN << >> ELSE stacks[stk]]

-----------------------------------------------------------------------------
(* The stack of a new process *)

\* The fields of TrapFrame, from its address up.
Fields == <<"edi", "esi", "ebp", "orig_esp", "ebx", "edx", "ecx", "eax",
            "gs", "fs", "es", "ds", "trap_no", "err", "eip", "cs", "eflags", "esp", "ss">>

\* Mutant: tf.eflags is left zero.
UserFrameNoIf ==
    [f \in {Fields[i] : i \in 1 .. 19} |->
       CASE f = "cs" -> UCODE [] f \in {"ds", "es", "ss"} -> UDATA
         [] f = "esp" -> 4096 [] OTHER -> 0]

\* What user_init writes into the zeroed trap frame.
UserFrame ==
    [f \in {Fields[i] : i \in 1 .. 19} |->
       CASE f = "cs" -> UCODE [] f \in {"ds", "es", "ss"} -> UDATA
         [] f = "eflags" -> FL_IF [] f = "esp" -> 4096 [] f = "eip" -> START [] OTHER -> 0]

\* alloc_proc: the frame, the address of trapret, and a Context with eip = forkret.
NewStack == <<0, 0, 0, 0, FORKRET, TRAPRET>> \o [i \in 1 .. 19 |-> UserFrame[Fields[i]]]

\* The user registers user_init asks for.
UserContext ==
    [regs |-> [edi |-> 0, esi |-> 0, ebp |-> 0, ebx |-> 0, edx |-> 0, ecx |-> 0, eax |-> 0,
               gs |-> 0, fs |-> 0, es |-> UDATA, ds |-> UDATA, eip |-> START, cs |-> UCODE,
               eflags |-> FL_IF, esp |-> 4096, ss |-> UDATA],
     stk |-> USTACK, stack |-> << >>]

\* The scheduler, past sti(). The registers differ, so that a swap shows. FIRST_TIME is
\* clear for every process but the first.
Init ==
    /\ regs = [edi |-> 101, esi |-> 102, ebp |-> 103, ebx |-> 104, edx |-> 105, ecx |-> 106,
               eax |-> 107, gs |-> 0, fs |-> 0, es |-> KDATA, ds |-> KDATA, eip |-> LOOP,
               cs |-> KCODE, eflags |-> FL_IF, esp |-> 0, ss |-> KDATA]
    /\ stk = SCHED
    /\ stacks = << << >>, NewStack >>
    /\ irr = {} /\ isr = {} /\ quiet = {}
    /\ first_time \in BOOLEAN
    /\ entered = << >>

-----------------------------------------------------------------------------
(* The hardware *)

FromUser == regs.cs % 4 = 3

\* The processor's entry through the gate of vector v: onto the top of the kernel stack in
\* the TSS from user mode, else onto the current stack. All gates but the system call's
\* are interrupt gates and clear IF.
Enter(v, irq) ==
    LET to == IF FromUser THEN PROC ELSE stk
        below == IF FromUser THEN << >> ELSE stacks[stk]
        pushed == (IF v \in ErrVectors THEN <<ERROR_CODE>> ELSE << >>)
                    \o <<regs.eip, regs.cs, regs.eflags>>
                    \o (IF FromUser THEN <<regs.esp, regs.ss>> ELSE << >>)
    IN  /\ stacks' = [stacks EXCEPT ![to] = pushed \o below]
        /\ stk' = to
        /\ regs' = [regs EXCEPT !.eip = VECTOR + v, !.cs = KCODE, !.ss = KDATA, !.esp = 0,
                                !.eflags = IF v = T_SYSCALL THEN @ ELSE 0]
        /\ entered' = <<[ctx |-> Context, v |-> v, irq |-> irq, acked |-> FALSE]>> \o entered

\* A device holds its line until it is served, which trap() never does: one edge each. The
\* timer is periodic.
Raise(v) ==
    /\ v \notin irr /\ v \notin quiet
    /\ irr' = irr \cup {v}
    /\ quiet' = IF v = TIMER THEN quiet ELSE quiet \cup {v}
    /\ UNCHANGED <<regs, stk, stacks, isr, first_time, entered>>

\* The highest request, if its class is above that of every vector in service.
Deliver(v) ==
    /\ regs.eflags = FL_IF
    /\ v \in irr /\ v = Max(irr)
    /\ \A u \in isr : v \div 16 > u \div 16
    /\ irr' = irr \ {v}
    /\ isr' = isr \cup {v}
    /\ Enter(v, TRUE)
    /\ UNCHANGED <<quiet, first_time>>

\* A spurious interrupt sets no bit in the ISR.
Spurious ==
    /\ regs.eflags = FL_IF
    /\ Enter(SPURIOUS, FALSE)
    /\ UNCHANGED <<irr, isr, quiet, first_time>>

Syscall ==
    /\ FromUser
    /\ Enter(T_SYSCALL, FALSE)
    /\ UNCHANGED <<irr, isr, quiet, first_time>>

Fault(v) ==
    /\ FromUser
    /\ Enter(v, FALSE)
    /\ UNCHANGED <<irr, isr, quiet, first_time>>

-----------------------------------------------------------------------------
(* The kernel's entry code *)

Stack == stacks[stk]
Push(words) == stacks' = [stacks EXCEPT ![stk] = words \o @]
Drop(n) == stacks' = [stacks EXCEPT ![stk] = SubSeq(@, n + 1, Len(@))]

\* Mutant: the two pushes in the other order.
StubSwapped(v) ==
    /\ regs.eip = VECTOR + v
    /\ Push(<<0, v>>)
    /\ regs' = [regs EXCEPT !.eip = ALLTRAPS]
    /\ UNCHANGED <<stk, irr, isr, quiet, first_time, entered>>

\* vector{v}: pushl $0; pushl $v; jmp alltraps -- whatever the processor pushed.
Stub(v) ==
    /\ regs.eip = VECTOR + v
    /\ Push(<<v, 0>>)
    /\ regs' = [regs EXCEPT !.eip = ALLTRAPS]
    /\ UNCHANGED <<stk, irr, isr, quiet, first_time, entered>>

\* The segment registers, pushal, the kernel's data segments, the argument, call trap.
AllTraps ==
    LET saved == <<regs.edi, regs.esi, regs.ebp, Len(Stack) + 4, regs.ebx, regs.edx,
                   regs.ecx, regs.eax, regs.gs, regs.fs, regs.es, regs.ds>>
    IN  /\ regs.eip = ALLTRAPS
        /\ Push(<<TRAPRET, Len(Stack) + 12>> \o saved)
        /\ regs' = [regs EXCEPT !.eax = KDATA, !.ds = KDATA, !.es = KDATA, !.eip = TRAP]
        /\ UNCHANGED <<stk, irr, isr, quiet, first_time, entered>>

\* Mutant: a trap that is not acknowledged.
TrapNoEoi ==
    /\ regs.eip = TRAP
    /\ regs' = [regs EXCEPT !.eax = JUNK, !.ecx = JUNK, !.edx = JUNK, !.eip = Stack[1]]
    /\ Drop(2)
    /\ entered' = [entered EXCEPT ![1].acked = TRUE]
    /\ UNCHANGED <<stk, irr, isr, quiet, first_time>>

\* trap(): eoi retires the highest vector in service. Its return and the caller's
\* addl $4 take two words off the stack.
Trap ==
    /\ regs.eip = TRAP
    /\ isr' = IF isr = {} THEN {} ELSE isr \ {Max(isr)}
    /\ regs' = [regs EXCEPT !.eax = JUNK, !.ecx = JUNK, !.edx = JUNK, !.eip = Stack[1]]
    /\ Drop(2)
    /\ entered' = [entered EXCEPT ![1].acked = TRUE]
    /\ UNCHANGED <<stk, irr, quiet, first_time>>

\* Mutant: only the vector number is skipped.
TrapRetShort ==
    /\ regs.eip = TRAPRET
    /\ regs' = [regs EXCEPT !.edi = Stack[1], !.esi = Stack[2], !.ebp = Stack[3],
                            !.ebx = Stack[5], !.edx = Stack[6], !.ecx = Stack[7],
                            !.eax = Stack[8], !.gs = Stack[9], !.fs = Stack[10],
                            !.es = Stack[11], !.ds = Stack[12], !.eip = IRET]
    /\ Drop(13)
    /\ UNCHANGED <<stk, irr, isr, quiet, first_time, entered>>

\* Mutant: %eax keeps what trap() left in it.
TrapRetKeepEax ==
    /\ regs.eip = TRAPRET
    /\ regs' = [regs EXCEPT !.edi = Stack[1], !.esi = Stack[2], !.ebp = Stack[3],
                            !.ebx = Stack[5], !.edx = Stack[6], !.ecx = Stack[7],
                            !.gs = Stack[9], !.fs = Stack[10], !.es = Stack[11],
                            !.ds = Stack[12], !.eip = IRET]
    /\ Drop(14)
    /\ UNCHANGED <<stk, irr, isr, quiet, first_time, entered>>

\* popal, which skips %esp, the segment registers, addl $8.
TrapRet ==
    /\ regs.eip = TRAPRET
    /\ regs' = [regs EXCEPT !.edi = Stack[1], !.esi = Stack[2], !.ebp = Stack[3],
                            !.ebx = Stack[5], !.edx = Stack[6], !.ecx = Stack[7],
                            !.eax = Stack[8], !.gs = Stack[9], !.fs = Stack[10],
                            !.es = Stack[11], !.ds = Stack[12], !.eip = IRET]
    /\ Drop(14)
    /\ UNCHANGED <<stk, irr, isr, quiet, first_time, entered>>

\* iret takes %esp and %ss too when it goes to an outer ring.
Iret ==
    /\ regs.eip = IRET
    /\ LET outer == Stack[2] % 4 = 3
       IN  /\ regs' = [regs EXCEPT !.eip = Stack[1], !.cs = Stack[2], !.eflags = Stack[3],
                                   !.esp = IF outer THEN Stack[4] ELSE 0,
                                   !.ss = IF outer THEN Stack[5] ELSE @]
           /\ stk' = IF outer THEN USTACK ELSE stk
           /\ Drop(IF outer THEN 5 ELSE 3)
    /\ entered' = Tail(entered)
    /\ UNCHANGED <<irr, isr, quiet, first_time>>

\* scheduler(), with the locks it takes and so with IF clear: uvm::switch puts the top of
\* the process's stack into the TSS; switch saves the callee-saved registers, loads the
\* process's %esp, pops its Context and returns into forkret.
Switch ==
    LET new == stacks[PROC]
    IN  /\ regs.eip = LOOP
        /\ regs' = [regs EXCEPT !.edi = new[1], !.esi = new[2], !.ebx = new[3], !.ebp = new[4],
                                !.eip = new[5], !.eax = JUNK, !.edx = JUNK, !.eflags = 0]
        /\ stacks' = << <<regs.edi, regs.esi, regs.ebx, regs.ebp, LOOP>> \o stacks[SCHED],
                        SubSeq(new, 6, Len(new)) >>
        /\ stk' = PROC
        /\ entered' = <<[ctx |-> UserContext, v |-> 0, irq |-> FALSE, acked |-> TRUE]>>
        /\ UNCHANGED <<irr, isr, quiet, first_time>>

\* todo!() the first time; else it returns to trapret.
Forkret ==
    /\ regs.eip = FORKRET
    /\ first_time' = FALSE
    /\ IF first_time
       THEN regs' = [regs EXCEPT !.eip = PANIC] /\ UNCHANGED stacks
       ELSE regs' = [regs EXCEPT !.eip = Stack[1]] /\ Drop(1)
    /\ UNCHANGED <<stk, irr, isr, quiet, entered>>

CpuStep == (\E v \in 0 .. 255 : Stub(v)) \/ AllTraps \/ Trap \/ TrapRet \/ Iret \/ Forkret

Next ==
    \/ CpuStep
    \/ \E v \in Irqs : Raise(v) \/ Deliver(v)
    \/ \E v \in Exceptions : Fault(v)
    \/ Spurious \/ Syscall \/ Switch

Spec == Init /\ [][Next]_vars

\* The CPU goes on executing, and takes a pending interrupt at an instruction boundary with
\* IF set if there is always another such boundary. Nothing makes devices, faults, system
\* calls or the scheduler's choice happen.
FairSpec == Spec /\ WF_vars(CpuStep) /\ \A v \in Irqs : SF_vars(Deliver(v))

-----------------------------------------------------------------------------
(* Properties *)

\* The program counter is a point of the kernel or of user code, the selectors are ones
\* the kernel uses, and user code runs on no kernel stack.
TypeOK ==
    /\ regs.eip \in Points
    /\ regs.cs \in {KCODE, UCODE} /\ regs.eflags \in {0, FL_IF}
    /\ regs.ds \in {KDATA, UDATA} /\ regs.es \in {KDATA, UDATA} /\ regs.ss \in {KDATA, UDATA}
    /\ stk \in {SCHED, PROC, USTACK} /\ (stk = USTACK <=> regs.cs = UCODE)
    /\ irr \subseteq Irqs /\ isr \subseteq Irqs /\ quiet \subseteq Irqs
    /\ first_time \in BOOLEAN

\* What TrapFrame's declaration says of the words trap() gets a pointer to: the registers
\* of the interrupted code in its order, the vector, and the processor's error code, or 0.
FrameAsDeclared ==
    regs.eip = TRAP =>
      LET e == entered[1]
          r == e.ctx.regs
          crossing == r.cs % 4 = 3
      IN  /\ Stack[2] = Len(Stack) - 2
          /\ \A i \in 1 .. (IF crossing THEN 19 ELSE 17) :
               Stack[2 + i] =
                 CASE Fields[i] = "orig_esp" -> Stack[2 + i]
                   [] Fields[i] = "trap_no" -> e.v
                   [] Fields[i] = "err" -> (IF e.v \in ErrVectors THEN ERROR_CODE ELSE 0)
                   [] OTHER -> r[Fields[i]]

\* Whatever iret returns to, the interrupted code or user code for the first time, has
\* every register and its stack as it left them, nested interrupts included.
RunsIntact == [][Len(entered') < Len(entered) => Context' = entered[1].ctx]_vars

\* trap() sends one EOI for each trap, system calls and spurious interrupts too, yet an
\* EOI never retires another handler's interrupt: in service are exactly the interrupts
\* whose handlers have not acknowledged theirs.
AcksMatch ==
    isr = {e.v : e \in {entered[i] : i \in {j \in DOMAIN entered :
                                              entered[j].irq /\ ~entered[j].acked}}}

\* A pending timer interrupt is taken, unless the first process's forkret stops the CPU.
TimerServed == TIMER \in irr ~> (TIMER \in isr \/ regs.eip = PANIC)
=============================================================================
