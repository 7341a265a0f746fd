------------------------------- MODULE Kernel -------------------------------
(***************************************************************************)
(* The kernel from main() on (kernel/src/main.rs, proc.rs): the boot CPU   *)
(* initialises the kernel, starts the other processors one by one through  *)
(* a mailbox below address 0x7000, creates the first process, and every    *)
(* CPU ends in scheduler().                                                *)
(*                                                                         *)
(* Locks are those of Mutex.tla, which SpinLock.tla implements: a lock has *)
(* an owner or none, asking for a lock one owns panics ("acquire: ..."),   *)
(* and interrupts are on exactly when the scheduler has enabled them and   *)
(* no lock is owned. A lock section in which nothing else can be observed  *)
(* is one step; trap() only acknowledges, so interrupts change nothing.    *)
(***************************************************************************)
EXTENDS Integers, Sequences, FiniteSets

CONSTANTS
    NCpu,        \* cpus().len()
    Bsp,         \* index of the CPU that runs main()
    LowPages,    \* pages below 4 MiB, the range entry_page_dir maps
    HighPages,   \* the pages from there to PHYSTOP
    NoPage,
    KvmPages     \* pages setup_kvm() takes: a directory and its page tables

ASSUME KernelAssumption ==
    /\ NCpu \in Nat \ {0} /\ Bsp \in 0..(NCpu - 1)
    /\ LowPages \cap HighPages = {} /\ NoPage \notin LowPages \cup HighPages
    /\ IsFiniteSet(LowPages) /\ IsFiniteSet(HighPages) /\ KvmPages \in Nat \ {0}

Cpus == 0..(NCpu - 1)
Pages == LowPages \cup HighPages

VARIABLES
    pc,           \* program point of each CPU
    lapic,        \* LAPIC: None or Some
    idt_filled,   \* trap::init has filled IDT
    kvm_built,    \* KPG_DIR exists
    free,         \* pages the heap can hand out
    idx,          \* start_others: loop index over cpus()
    mailbox,      \* the stack pointer stored just below 0x7000
    ipi,          \* IPIs on their way to each CPU
    stack,        \* the stack each CPU runs on
    pg_dir,       \* page directory in cr3
    gdt, idt,     \* the CPU has loaded its GDT, the IDT
    started,      \* CpuShared.started
    sti,          \* scheduler() has enabled interrupts
    current_proc, \* Cpu.current_proc: "None" or "init"
    ptable, plock, \* owner of PROC_TABLE, of the init process, or -1
    runnable,     \* ProcessTable.runnable
    proc,         \* the init process: its state, page directory and kernel stack
    first_time    \* forkret's FIRST_TIME

hw     == <<ipi, stack, pg_dir, gdt, idt, sti>>
global == <<lapic, idt_filled, kvm_built, free>>
others == <<idx, mailbox, started>>
sched  == <<current_proc, ptable, plock, runnable, proc, first_time>>
vars   == <<pc, lapic, idt_filled, kvm_built, free, idx, mailbox, ipi, stack, pg_dir, gdt,
            idt, started, sti, current_proc, ptable, plock, runnable, proc, first_time>>

\* The BSP enters main() on entry_page_dir with a stack of its own (main.rs
\* entry); the others are halted. Statics have their initial values.
Init ==
    /\ pc = [c \in Cpus |-> IF c = Bsp THEN "init1" ELSE "halted"]
    /\ lapic = "None" /\ idt_filled = FALSE /\ kvm_built = FALSE /\ free = {}
    /\ idx = 0 /\ mailbox = NoPage
    /\ ipi = [c \in Cpus |-> <<>>]
    /\ stack = [c \in Cpus |-> NoPage]
    /\ pg_dir = [c \in Cpus |-> IF c = Bsp THEN "entry" ELSE "none"]
    /\ gdt = [c \in Cpus |-> FALSE] /\ idt = [c \in Cpus |-> FALSE]
    /\ started = [c \in Cpus |-> FALSE] /\ sti = [c \in Cpus |-> FALSE]
    /\ current_proc = [c \in Cpus |-> "None"]
    /\ ptable = -1 /\ plock = -1 /\ runnable = <<>>
    /\ proc = [state |-> "Unused", pg_dir |-> NoPage, kernel_stack |-> NoPage]
    /\ first_time = TRUE

Goto(c, label) == pc' = [pc EXCEPT ![c] = label]

\* my_cpu() and my_cpu_id() read the LAPIC's ID register: LAPIC must be Some,
\* and the register lies in the device space, which entry_page_dir does not map.
MyCpuOk(c) == lapic = "Some" /\ pg_dir[c] \notin {"none", "entry"}

-----------------------------------------------------------------------------
(* main(), up to start_others(). Each call is a step of the boot CPU. *)

\* kalloc::init1: the heap gets the pages that entry_page_dir maps.
Init1 ==
    /\ pc[Bsp] = "init1" /\ Goto(Bsp, "kvmalloc")
    /\ free' = LowPages
    /\ UNCHANGED <<lapic, idt_filled, kvm_built, hw, others, sched>>

\* What n allocations of a page may take of those in avail. An allocation that
\* finds none panics (KernelHeap::alloc unwraps).
Taken(avail, n) == {S \in SUBSET avail : Cardinality(S) = n}
OutOfPages(n) == Cardinality(free) < n

\* vm::kvmalloc: build KPG_DIR, with setup_kvm(), and switch to it.
Kvmalloc ==
    /\ pc[Bsp] = "kvmalloc"
    /\ IF OutOfPages(KvmPages) THEN Goto(Bsp, "panic") /\ UNCHANGED <<kvm_built, free, pg_dir>>
       ELSE /\ \E S \in Taken(free, KvmPages) : free' = free \ S
            /\ kvm_built' = TRUE
            /\ pg_dir' = [pg_dir EXCEPT ![Bsp] = "kernel"]
            /\ Goto(Bsp, "mp_init")
    /\ UNCHANGED <<lapic, idt_filled, ipi, stack, gdt, idt, sti, others, sched>>

\* mp::init: find the CPUs and the LAPIC. lapic::init follows.
MpInit ==
    /\ pc[Bsp] = "mp_init" /\ Goto(Bsp, "seginit")
    /\ lapic' = "Some"
    /\ UNCHANGED <<idt_filled, kvm_built, free, hw, others, sched>>

\* vm::seginit, on the boot CPU (then trap::init) or in mp_enter.
Seginit(c) ==
    /\ pc[c] = "seginit"
    /\ IF ~MyCpuOk(c) THEN Goto(c, "fault") /\ UNCHANGED gdt
       ELSE /\ Goto(c, IF c = Bsp THEN "trap_init" ELSE "idt_init")
            /\ gdt' = [gdt EXCEPT ![c] = TRUE]
    /\ UNCHANGED <<global, ipi, stack, pg_dir, idt, sti, others, sched>>

\* Mutant of TrapInit: kalloc::init2 is called before start_others().
TrapInitThenInit2 ==
    /\ pc[Bsp] = "trap_init" /\ Goto(Bsp, "others")
    /\ idt_filled' = TRUE
    /\ free' = free \cup HighPages
    /\ UNCHANGED <<lapic, kvm_built, hw, others, sched>>

\* proc::init, trap::init and fs::init.
TrapInit ==
    /\ pc[Bsp] = "trap_init" /\ Goto(Bsp, "others")
    /\ idt_filled' = TRUE
    /\ UNCHANGED <<lapic, kvm_built, free, hw, others, sched>>

-----------------------------------------------------------------------------
(* start_others() and the processors it starts. *)

\* One turn of the loop up to lapic::start_ap: skip the boot CPU, or allocate
\* a stack, fill the mailbox and send INIT and two STARTUP IPIs.
StartAp ==
    /\ pc[Bsp] = "others" /\ idx < NCpu
    /\ \/ /\ idx = Bsp
          /\ idx' = idx + 1
          /\ UNCHANGED <<pc, free, mailbox, ipi>>
       \/ /\ idx # Bsp
          /\ IF free = {} THEN Goto(Bsp, "panic") /\ UNCHANGED <<free, mailbox, ipi>>
             ELSE /\ \E p \in free : free' = free \ {p} /\ mailbox' = p
                  /\ ipi' = [ipi EXCEPT ![idx] = <<"INIT", "STARTUP", "STARTUP">>]
                  /\ Goto(Bsp, "wait")
          /\ UNCHANGED idx
    /\ UNCHANGED <<lapic, idt_filled, kvm_built, stack, pg_dir, gdt, idt, sti, started, sched>>

\* Mutant of WaitStarted: the loop goes on without waiting.
DontWaitStarted ==
    /\ pc[Bsp] = "wait"
    /\ idx' = idx + 1
    /\ Goto(Bsp, "others")
    /\ UNCHANGED <<global, hw, mailbox, started, sched>>

\* while !cpu.started.load() {}
WaitStarted ==
    /\ pc[Bsp] = "wait" /\ started[idx]
    /\ idx' = idx + 1
    /\ Goto(Bsp, "others")
    /\ UNCHANGED <<global, hw, mailbox, started, sched>>

\* An IPI arrives. INIT resets a CPU; STARTUP is accepted only by one that
\* waits for it, so the second one is ignored however late it arrives.
Deliver(c) ==
    /\ ipi[c] # <<>>
    /\ ipi' = [ipi EXCEPT ![c] = Tail(@)]
    /\ pc' = CASE Head(ipi[c]) = "INIT" -> [pc EXCEPT ![c] = "wait_sipi"]
               [] Head(ipi[c]) = "STARTUP" /\ pc[c] = "wait_sipi" -> [pc EXCEPT ![c] = "ap_start"]
               [] OTHER -> pc
    /\ UNCHANGED <<global, stack, pg_dir, gdt, idt, sti, others, sched>>

\* ap_start: load cr3 and esp from the mailbox and call mp_enter; the call
\* pushes on the new stack, through entry_page_dir.
ApStart(c) ==
    /\ pc[c] = "ap_start"
    /\ pg_dir' = [pg_dir EXCEPT ![c] = "entry"]
    /\ stack' = [stack EXCEPT ![c] = mailbox]
    /\ Goto(c, IF mailbox \in LowPages THEN "mp_enter" ELSE "fault")
    /\ UNCHANGED <<global, ipi, gdt, idt, sti, others, sched>>

\* mp_enter: switch_kvm; seginit follows, then lapic::init.
MpEnter(c) ==
    /\ pc[c] = "mp_enter"
    /\ Goto(c, IF kvm_built THEN "seginit" ELSE "fault")
    /\ pg_dir' = [pg_dir EXCEPT ![c] = "kernel"]
    /\ UNCHANGED <<global, ipi, stack, gdt, idt, sti, others, sched>>

\* Mutant of MpMain: idt_init is forgotten.
MpMainNoIdt(c) ==
    /\ pc[c] = "idt_init"
    /\ Goto(c, "sti")
    /\ started' = [started EXCEPT ![c] = TRUE]
    /\ UNCHANGED <<global, ipi, stack, pg_dir, gdt, idt, sti, idx, mailbox, sched>>

\* Mutant of MpMain: the store to started is forgotten.
MpMainNotStarted(c) ==
    /\ pc[c] = "idt_init"
    /\ Goto(c, "sti")
    /\ idt' = [idt EXCEPT ![c] = TRUE]
    /\ UNCHANGED <<global, ipi, stack, pg_dir, gdt, sti, others, sched>>

\* mp_main: idt_init and the store to started, then scheduler().
MpMain(c) ==
    /\ pc[c] = "idt_init"
    /\ IF ~MyCpuOk(c) THEN Goto(c, "fault") /\ UNCHANGED <<idt, started>>
       ELSE /\ Goto(c, "sti")
            /\ idt' = [idt EXCEPT ![c] = TRUE]
            /\ started' = [started EXCEPT ![c] = TRUE]
    /\ UNCHANGED <<global, ipi, stack, pg_dir, gdt, sti, idx, mailbox, sched>>

-----------------------------------------------------------------------------
(* kalloc::init2 and proc::user_init(). *)

\* All processors are up: the rest of the memory goes to the heap.
Init2 ==
    /\ pc[Bsp] = "others" /\ idx = NCpu
    /\ free' = free \cup HighPages
    /\ Goto(Bsp, "ui_lock")
    /\ UNCHANGED <<lapic, idt_filled, kvm_built, hw, others, sched>>

\* PROC_TABLE.lock(), in user_init and in scheduler(): spin while another CPU
\* owns it, panic when this one does.
LockPtable(c) ==
    /\ pc[c] \in {"ui_lock", "lock"}
    /\ ptable \in {c, -1}
    /\ ptable' = c
    /\ Goto(c, IF ptable = c THEN "panic"
               ELSE IF pc[c] = "lock" THEN "pick" ELSE "ui_alloc")
    /\ UNCHANGED <<global, hw, others, current_proc, plock, runnable, proc, first_time>>

\* alloc_proc: Process::new() allocates an empty page directory d, then comes
\* the kernel stack p, whose context starts at forkret.
AllocProc ==
    /\ pc[Bsp] = "ui_alloc"
    /\ IF OutOfPages(2) THEN Goto(Bsp, "panic") /\ UNCHANGED <<free, proc>>
       ELSE /\ \E d \in free : \E p \in free \ {d} :
                 /\ free' = free \ {d, p}
                 /\ proc' = [state |-> "Embryo", pg_dir |-> d, kernel_stack |-> p]
            /\ Goto(Bsp, "ui_put")
    /\ UNCHANGED <<lapic, idt_filled, kvm_built, hw, others>>
    /\ UNCHANGED <<current_proc, ptable, plock, runnable, first_time>>

\* Mutant of UserInit: the process is put on the run queue twice.
UserInitTwice ==
    /\ pc[Bsp] = "ui_put" /\ Goto(Bsp, "idt_init")
    /\ proc' = [proc EXCEPT !.state = "Runnable"]
    /\ runnable' = runnable \o <<"init", "init">>
    /\ ptable' = -1
    /\ UNCHANGED <<global, hw, others, current_proc, plock, first_time>>

\* Mutant of UserInit: main() keeps the guard of PROC_TABLE into mp_main, which
\* never returns.
UserInitKeepsGuard ==
    /\ pc[Bsp] = "ui_put" /\ Goto(Bsp, "idt_init")
    /\ proc' = [proc EXCEPT !.state = "Runnable"]
    /\ runnable' = Append(runnable, "init")
    /\ UNCHANGED <<global, hw, others, current_proc, ptable, plock, first_time>>

\* The rest of user_init: set up the address space and the trap frame under the
\* process's lock, put it on the run queue, and release PROC_TABLE. mp_main
\* follows. setup_kvm() takes S, whose directory d replaces the empty one, which
\* is freed; then uvm::init takes T, the user page and a table for it. So one
\* page beside S must have been free.
UserInit ==
    /\ pc[Bsp] = "ui_put"
    /\ plock \in {Bsp, -1}
    /\ IF plock = Bsp \/ OutOfPages(KvmPages + 1)
       THEN Goto(Bsp, "panic") /\ UNCHANGED <<free, ptable, runnable, proc>>
       ELSE /\ \E S \in Taken(free, KvmPages) :
                 LET rest == (free \ S) \cup {proc.pg_dir}
                 IN  /\ \E T \in Taken(rest, 2) : free' = rest \ T
                     /\ \E d \in S : proc' = [proc EXCEPT !.state = "Runnable", !.pg_dir = d]
            /\ runnable' = Append(runnable, "init")
            /\ ptable' = -1
            /\ Goto(Bsp, "idt_init")
    /\ UNCHANGED <<lapic, idt_filled, kvm_built, hw, others, current_proc, plock, first_time>>

-----------------------------------------------------------------------------
(* scheduler(), the same on every CPU. *)

Sti(c) ==
    /\ pc[c] = "sti" /\ Goto(c, "clear")
    /\ sti' = [sti EXCEPT ![c] = TRUE]
    /\ UNCHANGED <<global, ipi, stack, pg_dir, gdt, idt, others, sched>>

\* The head of the loop: my_cpu().current_proc = None.
ClearCurrent(c) ==
    /\ pc[c] = "clear"
    /\ Goto(c, IF MyCpuOk(c) THEN "lock" ELSE "fault")
    /\ current_proc' = [current_proc EXCEPT ![c] = "None"]
    /\ UNCHANGED <<global, hw, others, ptable, plock, runnable, proc, first_time>>

\* Mutant of GetRunnable: the process stays on the queue and the guard is
\* dropped before the body.
GetRunnablePeek(c) ==
    /\ pc[c] = "pick"
    /\ ptable' = -1
    /\ \/ /\ runnable = <<>> /\ Goto(c, "clear") /\ UNCHANGED current_proc
       \/ /\ runnable # <<>> /\ Goto(c, "switch_uvm")
          /\ current_proc' = [current_proc EXCEPT ![c] = Head(runnable)]
    /\ UNCHANGED <<global, hw, others, plock, runnable, proc, first_time>>

\* get_runnable(). With None the guard is dropped and the loop goes round; with
\* Some(p) the guard lives to the end of the if-let body, and p becomes current.
GetRunnable(c) ==
    /\ pc[c] = "pick"
    /\ \/ /\ runnable = <<>> /\ Goto(c, "clear")
          /\ ptable' = -1
          /\ UNCHANGED <<current_proc, runnable>>
       \/ /\ runnable # <<>> /\ Goto(c, "switch_uvm")
          /\ current_proc' = [current_proc EXCEPT ![c] = Head(runnable)]
          /\ runnable' = Tail(runnable)
          /\ UNCHANGED ptable
    /\ UNCHANGED <<global, hw, others, plock, proc, first_time>>

\* uvm::switch(&p): under p's lock, load its page directory.
SwitchUvm(c) ==
    /\ pc[c] = "switch_uvm"
    /\ plock \in {c, -1}
    /\ IF plock = c \/ proc.kernel_stack = NoPage THEN Goto(c, "panic") /\ UNCHANGED pg_dir
       ELSE /\ pg_dir' = [pg_dir EXCEPT ![c] = "init"]
            /\ Goto(c, "set_running")
    /\ UNCHANGED <<global, ipi, stack, gdt, idt, sti, others, sched>>

\* p.lock().state = Running; the guard is a temporary.
SetRunning(c) ==
    /\ pc[c] = "set_running"
    /\ plock \in {c, -1}
    /\ IF plock = c THEN Goto(c, "panic") /\ UNCHANGED proc
       ELSE /\ proc' = [proc EXCEPT !.state = "Running"]
            /\ Goto(c, "switch")
    /\ UNCHANGED <<global, hw, others, current_proc, ptable, plock, runnable, first_time>>

\* switch(sched_ctx, p.lock().context): the guard of p lives until switch
\* returns, so the process runs with its own lock and PROC_TABLE held.
Switch(c) ==
    /\ pc[c] = "switch"
    /\ plock \in {c, -1}
    /\ IF plock = c THEN Goto(c, "panic") /\ UNCHANGED <<plock, stack>>
       ELSE /\ plock' = c
            /\ stack' = [stack EXCEPT ![c] = proc.kernel_stack]
            /\ Goto(c, "forkret")
    /\ UNCHANGED <<global, ipi, pg_dir, gdt, idt, sti, others>>
    /\ UNCHANGED <<current_proc, ptable, runnable, proc, first_time>>

\* forkret: the first call ends in todo!(), that is in panic(), with both locks
\* held; a later one returns through trapret to user space.
Forkret(c) ==
    /\ pc[c] = "forkret"
    /\ Goto(c, IF first_time THEN "todo" ELSE "user")
    /\ first_time' = FALSE
    /\ UNCHANGED <<global, hw, others, current_proc, ptable, plock, runnable, proc>>

-----------------------------------------------------------------------------
BootStep ==
    \/ Init1 \/ Kvmalloc \/ MpInit \/ TrapInit \/ StartAp \/ WaitStarted \/ Init2
    \/ AllocProc \/ UserInit

ApStep(c) == Deliver(c) \/ ApStart(c) \/ MpEnter(c)

CpuStep(c) ==
    \/ Seginit(c) \/ MpMain(c) \/ LockPtable(c) \/ Sti(c) \/ ClearCurrent(c)
    \/ GetRunnable(c) \/ SwitchUvm(c) \/ SetRunning(c) \/ Switch(c) \/ Forkret(c)

Next == BootStep \/ \E c \in Cpus : ApStep(c) \/ CpuStep(c)

Spec == Init /\ [][Next]_vars

\* Every CPU keeps executing and IPIs are delivered. compare_and_swap has no
\* order among the waiters, so a CPU may lose every race for a lock.
Fairness ==
    /\ WF_vars(BootStep)
    /\ \A c \in Cpus : WF_vars(ApStep(c)) /\ WF_vars(CpuStep(c))

FairSpec == Spec /\ Fairness
-----------------------------------------------------------------------------
(* Properties *)

Labels == {"init1", "kvmalloc", "mp_init", "seginit", "trap_init", "others", "wait", "ui_lock",
           "ui_alloc", "ui_put", "halted", "wait_sipi", "ap_start", "mp_enter", "idt_init",
           "sti", "clear", "lock", "pick", "switch_uvm", "set_running", "switch", "forkret",
           "user", "todo", "panic", "fault"}

\* Every variable holds a value of its Rust type (or of the hardware register).
TypeOK ==
    /\ pc \in [Cpus -> Labels]
    /\ lapic \in {"None", "Some"}
    /\ {idt_filled, kvm_built, first_time} \subseteq BOOLEAN
    /\ free \subseteq Pages /\ mailbox \in Pages \cup {NoPage}
    /\ idx \in 0..NCpu
    /\ \A c \in Cpus : Len(ipi[c]) <= 3
    /\ stack \in [Cpus -> Pages \cup {NoPage}]
    /\ pg_dir \in [Cpus -> {"none", "entry", "kernel", "init"}]
    /\ {gdt, idt, started, sti} \subseteq [Cpus -> BOOLEAN]
    /\ current_proc \in [Cpus -> {"None", "init"}]
    /\ {ptable, plock} \subseteq Cpus \cup {-1}
    /\ runnable \in {<<>>, <<"init">>}
    /\ proc.state \in {"Unused", "Embryo", "Runnable", "Running"}
    /\ {proc.pg_dir, proc.kernel_stack} \subseteq Pages \cup {NoPage}

\* The stacks a CPU runs on, the stack in the mailbox of a CPU being started
\* and the kernel stack of init are pages of their own: no two CPUs run on one
\* stack although all read it from the same mailbox, none of them is on the
\* heap's free list, and neither is init's page directory, which is no stack:
\* user_init frees the directory that setup_kvm's replaces, and only that one.
DistinctStacks ==
    /\ \A c, d \in Cpus : c # d /\ stack[c] # NoPage => stack[c] # stack[d]
    /\ \A c \in Cpus : stack[c] \notin free
    /\ proc.kernel_stack \notin free
    /\ \A c \in Cpus : pc[c] \notin {"forkret", "todo", "user"} =>
          stack[c] = NoPage \/ stack[c] # proc.kernel_stack
    /\ proc.pg_dir \notin free
    /\ proc.pg_dir # NoPage =>
          proc.pg_dir # proc.kernel_stack /\ \A c \in Cpus : stack[c] # proc.pg_dir

\* A CPU that can be interrupted (it has executed sti and owns no lock) has
\* loaded a filled IDT and its GDT, and cr3 maps the local APIC, so the handler
\* and its eoi() find what they need.
ReadyForInterrupts ==
    \A c \in Cpus : sti[c] /\ ptable # c /\ plock # c =>
        idt[c] /\ idt_filled /\ gdt[c] /\ MyCpuOk(c)

\* From the pages mapped by then, those of KPG_DIR and a stack for each processor that
\* is started; later init's address space, the empty directory and the kernel stack. One page
\* fewer in either place and main() panics.
EnoughPages ==
    /\ Cardinality(LowPages) >= KvmPages + NCpu - 1
    /\ Cardinality(Pages) >= 2 * KvmPages + NCpu + 2

\* No CPU faults or panics on its way to the scheduler or in it, except the one
\* that dispatches init, which stops in forkret's todo!().
OnlyTodoPanics ==
    \A c \in Cpus : /\ pc[c] \notin {"fault", "panic"}
                    /\ pc[c] = "todo" => current_proc[c] = "init"

\* init is on the run queue, or current on one CPU, never both nor twice; on
\* the queue it is Runnable; and the CPU on which it is current owns PROC_TABLE
\* from get_runnable on and the process's lock once it is running it.
DispatchedOnce ==
    /\ \A c, d \in Cpus : c # d => "None" \in {current_proc[c], current_proc[d]}
    /\ runnable # <<>> => proc.state = "Runnable" /\ \A c \in Cpus : current_proc[c] = "None"
    /\ \A c \in Cpus : current_proc[c] = "init" =>
          /\ ptable = c
          /\ pc[c] \in {"forkret", "todo", "user"} => plock = c /\ proc.state = "Running"

\* Every processor start_others() has to start reaches mp_main, and the boot CPU
\* goes on to user_init: no wait for "started" lasts for ever.
AllStarted == <>(pc[Bsp] = "ui_lock" /\ \A c \in Cpus \ {Bsp} : started[c])

\* init, once on the run queue, is taken off it and entered by some scheduler, whichever
\* CPUs win the races for PROC_TABLE. (That the boot CPU wins it in user_init
\* is more than compare_and_swap promises.)
InitDispatched == runnable # <<>> ~> \E c \in Cpus : pc[c] = "forkret"

\* The comment on scheduler(): the process that a CPU switches to eventually
\* transfers control back to that CPU's scheduler.
SchedulerRegainsControl == \A c \in Cpus : pc[c] = "switch" ~> pc[c] = "clear"
=============================================================================
