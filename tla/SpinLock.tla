------------------------------ MODULE SpinLock ------------------------------
(***************************************************************************)
(* The spin locks of the kernel (kernel/src/lock.rs) on several CPUs, at   *)
(* the granularity of their accesses to shared memory and to the interrupt *)
(* flag: SpinLock::acquire / release / holding, push_cli / pop_cli / cli,  *)
(* the RefCell borrow that my_cpu() takes of the per-CPU data, and the     *)
(* interrupts that arrive whenever a CPU's interrupt flag is set.          *)
(*                                                                         *)
(* The callers are the environment: any code that takes locks in the order *)
(* Nesting allows, drops its guards in any order, and runs cli() sections. *)
(***************************************************************************)
EXTENDS Integers, FiniteSets

CONSTANTS
    Cpus,       \* indices of cpus(), the values my_cpu_id() returns
    Bsp,        \* the CPU that runs main()
    Locks,      \* the SpinLock objects
    Nesting     \* <<h, l>> : some code acquires l while it holds h

\* MAX_NCPU is 8 and lock.rs keeps the owner's index in an AtomicI8.
ASSUME CpusAssumption == Cpus \subseteq 0..7 /\ Bsp \in Cpus

ASSUME LocksAssumption == Locks # {}

\* Nobody asks for a lock they hold.
ASSUME NestingAssumption ==
    Nesting \subseteq Locks \X Locks /\ \A l \in Locks : <<l, l>> \notin Nesting

VARIABLES
    lapic,        \* LAPIC: until mp::init sets it the locks are no-ops
    locked,       \* SpinLock.locked
    cpu,          \* SpinLock.cpu: index of the owner, or -1
    guards,       \* the live SpinMutexGuards of each CPU
    pc,           \* program point of each CPU in lock.rs ("run": in its caller)
    op,           \* the function it called: "acquire", "release" or "cli"
    target,       \* the lock it called it on
    flags,        \* eflags & FL_IF as push_cli read it
    res,          \* the value holding() is about to return
    FL_IF,        \* the interrupt flag of each CPU
    num_cli, int_enabled,   \* Cpu.num_cli, Cpu.int_enabled
    borrowed,     \* a RefMut of the CPU's RefCell<Cpu> is alive
    in_trap,      \* the CPU is in an interrupt handler
    sti_done      \* the CPU's scheduler() has executed its sti

shared == <<locked, cpu>>
call   == <<op, target>>
clis   == <<num_cli, int_enabled>>
intr   == <<in_trap, sti_done>>
vars   == <<lapic, locked, cpu, guards, pc, op, target, flags, res, FL_IF,
            num_cli, int_enabled, borrowed, in_trap, sti_done>>

Points == {"off", "run", "push_flags", "push_cli", "hpush_flags", "hpush_cli",
           "h_locked", "h_cpu", "h_pop", "h_drop", "cas", "owner", "clear",
           "unlock", "body", "pop", "drop", "panic"}

\* Every field has the type the code declares for it.
TypeOK ==
    /\ lapic \in {"None", "Some"}
    /\ locked \in [Locks -> BOOLEAN]
    /\ cpu \in [Locks -> Cpus \cup {-1}]
    /\ guards \in [Cpus -> SUBSET Locks]
    /\ pc \in [Cpus -> Points]
    /\ op \in [Cpus -> {"none", "acquire", "release", "cli"}]
    /\ target \in [Cpus -> Locks]
    /\ flags \in [Cpus -> BOOLEAN]
    /\ res \in [Cpus -> BOOLEAN]
    /\ FL_IF \in [Cpus -> BOOLEAN]
    /\ num_cli \in [Cpus -> Int]
    /\ int_enabled \in [Cpus -> BOOLEAN]
    /\ borrowed \in [Cpus -> BOOLEAN]
    /\ in_trap \in [Cpus -> BOOLEAN]
    /\ sti_done \in [Cpus -> BOOLEAN]

\* What target is between calls.
AnyLock == CHOOSE l \in Locks : TRUE

\* SpinLock::new and CpuShared::zero. The boot loader and ap_start execute cli
\* first, so every CPU starts with its interrupts off.
Init ==
    /\ lapic = "None"
    /\ locked = [l \in Locks |-> FALSE]
    /\ cpu = [l \in Locks |-> -1]
    /\ guards = [c \in Cpus |-> {}]
    /\ pc = [c \in Cpus |-> IF c = Bsp THEN "run" ELSE "off"]
    /\ op = [c \in Cpus |-> "none"]
    /\ target = [c \in Cpus |-> AnyLock]
    /\ flags = [c \in Cpus |-> FALSE]
    /\ res = [c \in Cpus |-> FALSE]
    /\ FL_IF = [c \in Cpus |-> FALSE]
    /\ num_cli = [c \in Cpus |-> 0]
    /\ int_enabled = [c \in Cpus |-> FALSE]
    /\ borrowed = [c \in Cpus |-> FALSE]
    /\ in_trap = [c \in Cpus |-> FALSE]
    /\ sti_done = [c \in Cpus |-> FALSE]

-----------------------------------------------------------------------------
(* Outside the lock module. *)

Running(c) == pc[c] = "run" /\ ~in_trap[c]

MayTake(c, l) == \A h \in guards[c] : <<h, l>> \in Nesting

Goto(c, label) == pc' = [pc EXCEPT ![c] = label]

\* acquire and release return at once while lapic_id() is None; only the
\* boot CPU runs then.
AcquireNoLapic(l) ==
    /\ lapic = "None" /\ MayTake(Bsp, l)
    /\ guards' = [guards EXCEPT ![Bsp] = @ \cup {l}]
    /\ UNCHANGED <<lapic, shared, pc, call, flags, res, FL_IF, clis, borrowed, intr>>

ReleaseNoLapic(l) ==
    /\ lapic = "None" /\ l \in guards[Bsp]
    /\ guards' = [guards EXCEPT ![Bsp] = @ \ {l}]
    /\ UNCHANGED <<lapic, shared, pc, call, flags, res, FL_IF, clis, borrowed, intr>>

\* Mutant of MpInit: main() calls mp::init with a guard still alive.
MpInitUnderGuard ==
    /\ lapic = "None"
    /\ lapic' = "Some"
    /\ UNCHANGED <<shared, guards, pc, call, flags, res, FL_IF, clis, borrowed, intr>>

\* mp::init sets LAPIC; main() calls it with no guard alive.
MpInit ==
    /\ lapic = "None" /\ guards[Bsp] = {}
    /\ lapic' = "Some"
    /\ UNCHANGED <<shared, guards, pc, call, flags, res, FL_IF, clis, borrowed, intr>>

\* start_others() boots an application processor, after mp::init.
StartAp(c) ==
    /\ lapic = "Some" /\ pc[c] = "off"
    /\ Goto(c, "run")
    /\ UNCHANGED <<lapic, shared, guards, call, flags, res, FL_IF, clis, borrowed, intr>>

\* scheduler() enables interrupts once, holding no guard.
Sti(c) ==
    /\ lapic = "Some" /\ Running(c) /\ guards[c] = {} /\ ~sti_done[c]
    /\ FL_IF' = [FL_IF EXCEPT ![c] = TRUE]
    /\ sti_done' = [sti_done EXCEPT ![c] = TRUE]
    /\ UNCHANGED <<lapic, shared, guards, pc, call, flags, res, clis, borrowed, in_trap>>

\* Mutant of Trap, with the log! line the code comments out: logging takes the VGA lock,
\* whose push_cli borrows the per-CPU data.
TrapLogging(c) ==
    /\ FL_IF[c] /\ ~in_trap[c]
    /\ FL_IF' = [FL_IF EXCEPT ![c] = FALSE]
    /\ in_trap' = [in_trap EXCEPT ![c] = ~borrowed[c]]
    /\ pc' = IF borrowed[c] THEN [pc EXCEPT ![c] = "panic"] ELSE pc
    /\ UNCHANGED <<lapic, shared, guards, call, flags, res, clis, borrowed, sti_done>>

\* An interrupt arrives at any point of the code, lock.rs included, at which
\* FL_IF is set. The gate clears FL_IF; trap() only writes the EOI register.
Trap(c) ==
    /\ FL_IF[c] /\ ~in_trap[c]
    /\ FL_IF' = [FL_IF EXCEPT ![c] = FALSE]
    /\ in_trap' = [in_trap EXCEPT ![c] = TRUE]
    /\ UNCHANGED <<lapic, shared, guards, pc, call, flags, res, clis, borrowed, sti_done>>

\* trapret: iret restores the flags, which had FL_IF set.
TrapRet(c) ==
    /\ in_trap[c]
    /\ FL_IF' = [FL_IF EXCEPT ![c] = TRUE]
    /\ in_trap' = [in_trap EXCEPT ![c] = FALSE]
    /\ UNCHANGED <<lapic, shared, guards, pc, call, flags, res, clis, borrowed, sti_done>>

AcquireCall(c, l) ==
    /\ lapic = "Some" /\ Running(c) /\ MayTake(c, l)
    /\ Goto(c, "push_flags")
    /\ op' = [op EXCEPT ![c] = "acquire"]
    /\ target' = [target EXCEPT ![c] = l]
    /\ UNCHANGED <<lapic, shared, guards, flags, res, FL_IF, clis, borrowed, intr>>

\* Dropping a guard calls release, which starts with holding().
ReleaseCall(c, l) ==
    /\ lapic = "Some" /\ Running(c) /\ l \in guards[c]
    /\ Goto(c, "hpush_flags")
    /\ op' = [op EXCEPT ![c] = "release"]
    /\ target' = [target EXCEPT ![c] = l]
    /\ guards' = [guards EXCEPT ![c] = @ \ {l}]
    /\ UNCHANGED <<lapic, shared, flags, res, FL_IF, clis, borrowed, intr>>

\* cli(f), as my_proc, scheduler and uvm::switch use it.
CliCall(c) ==
    /\ lapic = "Some" /\ Running(c)
    /\ Goto(c, "push_flags")
    /\ op' = [op EXCEPT ![c] = "cli"]
    /\ UNCHANGED <<lapic, shared, guards, target, flags, res, FL_IF, clis, borrowed, intr>>

-----------------------------------------------------------------------------
(* push_cli, pop_cli, my_cpu. A panic stops the CPU where it is. *)

At(c, label) == pc[c] = label /\ ~in_trap[c]

\* push_cli, first half: read_eflags.
ReadFlags(c, from, to) ==
    /\ At(c, from)
    /\ Goto(c, to)
    /\ flags' = [flags EXCEPT ![c] = FL_IF[c]]
    /\ UNCHANGED <<lapic, shared, guards, call, res, FL_IF, clis, borrowed, intr>>

\* Mutant of Disable: int_enabled is saved at every level of nesting.
DisableSavingAlways(c, from, to) ==
    /\ At(c, from)
    /\ FL_IF' = [FL_IF EXCEPT ![c] = FALSE]
    /\ Goto(c, to)
    /\ int_enabled' = [int_enabled EXCEPT ![c] = flags[c]]
    /\ num_cli' = [num_cli EXCEPT ![c] = @ + 1]
    /\ UNCHANGED <<lapic, shared, guards, call, flags, res, borrowed, intr>>

\* push_cli, second half: cli, then the update through my_cpu(), which panics
\* when the RefCell is already borrowed. With FL_IF clear nothing intervenes.
Disable(c, from, to) ==
    /\ At(c, from)
    /\ FL_IF' = [FL_IF EXCEPT ![c] = FALSE]
    /\ \/ /\ borrowed[c]
          /\ Goto(c, "panic")
          /\ UNCHANGED clis
       \/ /\ ~borrowed[c]
          /\ Goto(c, to)
          /\ int_enabled' = [int_enabled EXCEPT ![c] = IF num_cli[c] = 0 THEN flags[c] ELSE @]
          /\ num_cli' = [num_cli EXCEPT ![c] = @ + 1]
    /\ UNCHANGED <<lapic, shared, guards, call, flags, res, borrowed, intr>>

\* pop_cli up to its sti. The RefMut outlives the sti: the borrow ends only
\* when pop_cli returns (PopReturn, HoldReturn).
Enable(c, from, to) ==
    /\ At(c, from)
    /\ \/ /\ FL_IF[c] \/ borrowed[c] \/ num_cli[c] = 0
          /\ Goto(c, "panic")
          /\ UNCHANGED <<num_cli, FL_IF, borrowed>>
       \/ /\ ~FL_IF[c] /\ ~borrowed[c] /\ num_cli[c] # 0
          /\ Goto(c, to)
          /\ num_cli' = [num_cli EXCEPT ![c] = @ - 1]
          /\ FL_IF' = IF num_cli[c] = 1 /\ int_enabled[c]
                      THEN [FL_IF EXCEPT ![c] = TRUE] ELSE FL_IF
          /\ borrowed' = [borrowed EXCEPT ![c] = TRUE]
    /\ UNCHANGED <<lapic, shared, guards, call, flags, res, int_enabled, intr>>

-----------------------------------------------------------------------------
(* The body of a cli() section, and the end of the outermost call. *)

PushFlags(c) == ReadFlags(c, "push_flags", "push_cli")
PushCli(c)   == Disable(c, "push_cli", IF op[c] = "cli" THEN "body" ELSE "hpush_flags")

\* f() uses my_cpu(), which wants interrupts off and no other borrow.
Body(c) ==
    /\ At(c, "body")
    /\ Goto(c, IF FL_IF[c] \/ borrowed[c] THEN "panic" ELSE "pop")
    /\ UNCHANGED <<lapic, shared, guards, call, flags, res, FL_IF, clis, borrowed, intr>>

PopCli(c) == Enable(c, "pop", "drop")

\* pop_cli returns and with it the call; the locals of the call are dead.
PopReturn(c) ==
    /\ At(c, "drop")
    /\ Goto(c, "run")
    /\ borrowed' = [borrowed EXCEPT ![c] = FALSE]
    /\ op' = [op EXCEPT ![c] = "none"]
    /\ target' = [target EXCEPT ![c] = AnyLock]
    /\ flags' = [flags EXCEPT ![c] = FALSE]
    /\ res' = [res EXCEPT ![c] = FALSE]
    /\ UNCHANGED <<lapic, shared, guards, FL_IF, clis, intr>>

-----------------------------------------------------------------------------
(* SpinLock::holding, called by acquire and release inside their assert!.  *)

HoldPushFlags(c) == ReadFlags(c, "hpush_flags", "hpush_cli")
HoldPushCli(c)   == Disable(c, "hpush_cli", "h_locked")

\* self.locked.load(), which decides && when it is false.
HoldLocked(c) ==
    /\ At(c, "h_locked")
    /\ Goto(c, IF locked[target[c]] THEN "h_cpu" ELSE "h_pop")
    /\ res' = [res EXCEPT ![c] = FALSE]
    /\ UNCHANGED <<lapic, shared, guards, call, flags, FL_IF, clis, borrowed, intr>>

\* self.cpu.load() == my_cpu_id(); my_cpu_id asserts that interrupts are off.
HoldCpu(c) ==
    /\ At(c, "h_cpu")
    /\ Goto(c, IF FL_IF[c] THEN "panic" ELSE "h_pop")
    /\ res' = [res EXCEPT ![c] = cpu[target[c]] = c]
    /\ UNCHANGED <<lapic, shared, guards, call, flags, FL_IF, clis, borrowed, intr>>

HoldPopCli(c) == Enable(c, "h_pop", "h_drop")

\* holding() returns into acquire's assert!(!holding) or release's assert!(holding).
HoldReturn(c) ==
    /\ At(c, "h_drop")
    /\ borrowed' = [borrowed EXCEPT ![c] = FALSE]
    /\ Goto(c, IF res[c] = (op[c] = "acquire") THEN "panic"
               ELSE IF op[c] = "acquire" THEN "cas" ELSE "clear")
    /\ UNCHANGED <<lapic, shared, guards, call, flags, res, FL_IF, clis, intr>>

-----------------------------------------------------------------------------
(* SpinLock::acquire and SpinLock::release, after their assert!. *)

\* Mutant of CompareAndSwap: the old value of locked is not looked at.
SwapBlindly(c) ==
    /\ At(c, "cas")
    /\ locked' = [locked EXCEPT ![target[c]] = TRUE]
    /\ Goto(c, "owner")
    /\ UNCHANGED <<lapic, cpu, guards, call, flags, res, FL_IF, clis, borrowed, intr>>

\* One successful compare_and_swap(false, true); a failed one changes nothing
\* and is tried again.
CompareAndSwap(c) ==
    /\ At(c, "cas") /\ ~locked[target[c]]
    /\ locked' = [locked EXCEPT ![target[c]] = TRUE]
    /\ Goto(c, "owner")
    /\ UNCHANGED <<lapic, cpu, guards, call, flags, res, FL_IF, clis, borrowed, intr>>

\* Mutant of StoreOwner: an APIC id is stored instead of the index in cpus().
StoreApicId(c) ==
    /\ At(c, "owner")
    /\ Goto(c, "run")
    /\ cpu' = [cpu EXCEPT ![target[c]] = 16 + c]
    /\ guards' = [guards EXCEPT ![c] = @ \cup {target[c]}]
    /\ op' = [op EXCEPT ![c] = "none"]
    /\ target' = [target EXCEPT ![c] = AnyLock]
    /\ flags' = [flags EXCEPT ![c] = FALSE]
    /\ res' = [res EXCEPT ![c] = FALSE]
    /\ UNCHANGED <<lapic, locked, FL_IF, clis, borrowed, intr>>

\* self.cpu.store(my_cpu_id()); acquire returns and lock() builds the guard.
StoreOwner(c) ==
    /\ At(c, "owner")
    /\ \/ /\ FL_IF[c]
          /\ Goto(c, "panic")
          /\ UNCHANGED <<cpu, guards, call, flags, res>>
       \/ /\ ~FL_IF[c]
          /\ Goto(c, "run")
          /\ cpu' = [cpu EXCEPT ![target[c]] = c]
          /\ guards' = [guards EXCEPT ![c] = @ \cup {target[c]}]
          /\ op' = [op EXCEPT ![c] = "none"]
          /\ target' = [target EXCEPT ![c] = AnyLock]
          /\ flags' = [flags EXCEPT ![c] = FALSE]
          /\ res' = [res EXCEPT ![c] = FALSE]
    /\ UNCHANGED <<lapic, locked, FL_IF, clis, borrowed, intr>>

\* Mutant of ReleaseStores: locked is cleared before cpu.
ReleaseStoresSwapped(c) ==
    \/ /\ At(c, "clear") /\ Goto(c, "unlock")
       /\ locked' = [locked EXCEPT ![target[c]] = FALSE]
       /\ UNCHANGED <<lapic, cpu, guards, call, flags, res, FL_IF, clis, borrowed, intr>>
    \/ /\ At(c, "unlock") /\ Goto(c, "pop")
       /\ cpu' = [cpu EXCEPT ![target[c]] = -1]
       /\ UNCHANGED <<lapic, locked, guards, call, flags, res, FL_IF, clis, borrowed, intr>>

\* Mutant of ReleaseStores: the lock stays taken.
ReleaseForgetsUnlock(c) ==
    \/ /\ At(c, "clear") /\ Goto(c, "unlock")
       /\ cpu' = [cpu EXCEPT ![target[c]] = -1]
       /\ UNCHANGED <<lapic, locked, guards, call, flags, res, FL_IF, clis, borrowed, intr>>
    \/ /\ At(c, "unlock") /\ Goto(c, "pop")
       /\ UNCHANGED <<lapic, shared, guards, call, flags, res, FL_IF, clis, borrowed, intr>>

\* The two stores of release, in program order (the fence keeps it): cpu := -1,
\* then locked := false. pop_cli follows.
ReleaseStores(c) ==
    \/ /\ At(c, "clear") /\ Goto(c, "unlock")
       /\ cpu' = [cpu EXCEPT ![target[c]] = -1]
       /\ UNCHANGED <<lapic, locked, guards, call, flags, res, FL_IF, clis, borrowed, intr>>
    \/ /\ At(c, "unlock") /\ Goto(c, "pop")
       /\ locked' = [locked EXCEPT ![target[c]] = FALSE]
       /\ UNCHANGED <<lapic, cpu, guards, call, flags, res, FL_IF, clis, borrowed, intr>>

-----------------------------------------------------------------------------

\* A step inside lock.rs or an interrupt handler.
Step(c) ==
    \/ PushFlags(c) \/ PushCli(c) \/ Body(c) \/ PopCli(c) \/ PopReturn(c)
    \/ HoldPushFlags(c) \/ HoldPushCli(c) \/ HoldLocked(c) \/ HoldCpu(c)
    \/ HoldPopCli(c) \/ HoldReturn(c)
    \/ CompareAndSwap(c) \/ StoreOwner(c) \/ ReleaseStores(c)
    \/ TrapRet(c)

Next ==
    \/ MpInit
    \/ \E l \in Locks : AcquireNoLapic(l) \/ ReleaseNoLapic(l)
    \/ \E c \in Cpus :
          \/ StartAp(c) \/ Sti(c) \/ Trap(c) \/ CliCall(c) \/ Step(c)
          \/ \E l \in Locks : AcquireCall(c, l) \/ ReleaseCall(c, l)

Spec == Init /\ [][Next]_vars

\* Code inside lock.rs runs to its end, an interrupt handler returns, and a
\* critical section is finite: a guard that can be dropped again and again is
\* dropped. Taking a contended lock is left unfair, as compare_and_swap is.
Fairness ==
    /\ \A c \in Cpus : WF_vars(Step(c))
    /\ \A c \in Cpus, l \in Locks : SF_vars(ReleaseCall(c, l))

FairSpec == Spec /\ Fairness

-----------------------------------------------------------------------------
(* Properties. *)

InHolding == {"hpush_flags", "hpush_cli", "h_locked", "h_cpu", "h_pop", "h_drop"}

\* c won the compare_and_swap on l and has not yet cleared locked.
Owns(c, l) ==
    \/ l \in guards[c]
    \/ target[c] = l /\ op[c] = "acquire" /\ pc[c] = "owner"
    \/ target[c] = l /\ op[c] = "release" /\ pc[c] \in InHolding \cup {"clear", "unlock"}

\* At most one CPU at a time is between the compare_and_swap of acquire and
\* the store that unlocks in release, for each lock (lock.rs acquire, release).
MutualExclusion ==
    \A l \in Locks, c, d \in Cpus : Owns(c, l) /\ Owns(d, l) => c = d

\* No assertion of the lock code fails: acquire never finds the lock held by
\* its own CPU, release always does, pop_cli is never unbalanced or run with
\* interrupts on, and my_cpu() never meets a RefCell already borrowed, even
\* though pop_cli enables interrupts while its own borrow is alive.
NoPanic == \A c \in Cpus : pc[c] # "panic"

\* push_cli calls not yet undone by a call in progress.
OpenCalls(c) ==
    (IF op[c] = "none" \/ pc[c] \in {"push_flags", "push_cli", "drop"} THEN 0 ELSE 1)
    + (IF pc[c] \in {"h_locked", "h_cpu", "h_pop"} THEN 1 ELSE 0)

\* num_cli counts exactly the live guards and the push_cli calls in progress,
\* whatever the order in which guards are dropped (push_cli, pop_cli).
NestingDepth ==
    \A c \in Cpus :
        lapic = "Some" => num_cli[c] = Cardinality(guards[c]) + OpenCalls(c)

\* "If interrupts are off, then push_cli, pop_cli leaves them off": in the
\* callers' code interrupts are on exactly when the CPU's scheduler has turned
\* them on and no guard is alive; in particular they are off in every critical
\* section, and come back only with the outermost pop_cli.
InterruptsRestored ==
    \A c \in Cpus : lapic = "Some" /\ Running(c) => (FL_IF[c] <=> sti_done[c] /\ guards[c] = {})

\* The owner's index is in l's cpu field.
OwnerStored(c, l) ==
    \/ l \in guards[c]
    \/ target[c] = l /\ op[c] = "release" /\ pc[c] \in InHolding \cup {"clear"}

\* The control state of a CPU: which function is at which point, with which
\* interrupt flag, nesting depth and borrow.
CpuInv(c) ==
    /\ pc[c] # "panic"
    /\ op[c] = "none" <=> pc[c] \in {"off", "run"}
    /\ op[c] = "acquire" => pc[c] \in {"push_flags", "push_cli", "cas", "owner"} \cup InHolding
    /\ op[c] = "release" => pc[c] \in {"clear", "unlock", "pop", "drop"} \cup InHolding
    /\ op[c] = "cli" => pc[c] \in {"push_flags", "push_cli", "body", "pop", "drop"}
    /\ borrowed[c] <=> pc[c] \in {"h_drop", "drop"}
    /\ IsFiniteSet(guards[c])
    /\ num_cli[c] = Cardinality(guards[c]) + OpenCalls(c)
    /\ IF in_trap[c] THEN ~FL_IF[c] /\ sti_done[c] /\ num_cli[c] = 0
                     ELSE FL_IF[c] <=> sti_done[c] /\ num_cli[c] = 0
    /\ num_cli[c] # 0 => (int_enabled[c] <=> sti_done[c])
    /\ pc[c] = "push_cli" /\ num_cli[c] = 0 => (flags[c] <=> sti_done[c])
    /\ pc[c] \in {"h_pop", "h_drop"} => (res[c] <=> op[c] = "release")
    /\ op[c] \in {"acquire", "release"} => target[c] \notin guards[c]
    /\ op[c] = "acquire" => MayTake(c, target[c])

\* Before mp::init only the boot CPU runs and the locks are untouched.
BootInv ==
    /\ pc[Bsp] = "run" /\ \A c \in Cpus \ {Bsp} : pc[c] = "off" /\ guards[c] = {}
    /\ \A c \in Cpus : /\ op[c] = "none" /\ num_cli[c] = 0 /\ ~FL_IF[c]
                       /\ ~sti_done[c] /\ ~in_trap[c] /\ ~borrowed[c]
    /\ \A l \in Locks : ~locked[l] /\ cpu[l] = -1

\* A lock is taken exactly while some CPU owns it, and its cpu field names the
\* CPU that has stored its index and not yet cleared it.
LocksInv ==
    /\ \A l \in Locks : locked[l] <=> \E c \in Cpus : Owns(c, l)
    /\ \A c \in Cpus, l \in Locks : cpu[l] = c <=> OwnerStored(c, l)

\* The inductive invariant. LocksInv is what makes holding() exact although it
\* reads locked and cpu in two steps while other CPUs write them.
LockInv ==
    /\ lapic = "None" => BootInv
    /\ lapic = "Some" => LocksInv /\ \A c \in Cpus : CpuInv(c)
    /\ MutualExclusion

\* A contended lock goes on being handed out: when a CPU spins on a lock, some
\* CPU later wins that lock's compare_and_swap.
LockProgress ==
    \A l \in Locks :
        (\E c \in Cpus : pc[c] = "cas" /\ target[c] = l)
            ~> (\E c \in Cpus : pc[c] = "owner" /\ target[c] = l)

\* SpinLock implements Mutex: a lock passes to a CPU at its successful
\* compare_and_swap and back at the store of false to locked.
OwnerOf(l) == IF \E c \in Cpus : Owns(c, l) THEN CHOOSE c \in Cpus : Owns(c, l) ELSE -1

M == INSTANCE Mutex WITH
        owner <- [l \in Locks |-> OwnerOf(l)],
        handling <- {c \in Cpus : in_trap[c]}

\* The lock code, interleaved as above, behaves as the abstract mutex.
ImplementsMutex == M!Spec
=============================================================================
