----------------------------- MODULE SpinLockProofs -----------------------------
(***************************************************************************)
(* Theorems about SpinLock, for any set of CPUs, locks and lock nesting:   *)
(* type correctness and what a step of one CPU leaves alone; that a step   *)
(* keeps the part of the inductive invariant that speaks of its own CPU;   *)
(* the whole invariant and the safety properties it implies; and that      *)
(* SpinLock implements Mutex.                                              *)
(***************************************************************************)
EXTENDS SpinLock, FiniteSetTheorems, TLAPS

(* The default target is a lock. *)
LEMMA AnyLockType == AnyLock \in Locks
BY LocksAssumption DEF AnyLock

(* The steps of push_cli and pop_cli keep the types of the state. *)
LEMMA CliStepsType ==
    ASSUME TypeOK, NEW c \in Cpus, NEW from \in Points, NEW to \in Points,
           ReadFlags(c, from, to) \/ Disable(c, from, to) \/ Enable(c, from, to)
    PROVE  TypeOK'
<1>1. CASE ReadFlags(c, from, to)
    BY <1>1 DEF TypeOK, ReadFlags, Goto, shared, call, clis, intr
<1>2. CASE Disable(c, from, to)
    BY <1>2 DEF TypeOK, Disable, Goto, shared, call, clis, intr, Points
<1>3. CASE Enable(c, from, to)
  <2>1. FL_IF' \in [Cpus -> BOOLEAN]
    <3>1. FL_IF' = FL_IF \/ FL_IF' = [FL_IF EXCEPT ![c] = TRUE]
        BY <1>3 DEF Enable
    <3> QED BY ZenonT(30), <3>1 DEF TypeOK
  <2>2. num_cli' \in [Cpus -> Int]
    <3>1. num_cli' = num_cli \/ num_cli' = [num_cli EXCEPT ![c] = @ - 1]
        BY <1>3 DEF Enable
    <3> QED BY <3>1 DEF TypeOK
  <2>3. borrowed' \in [Cpus -> BOOLEAN]
    <3>1. borrowed' = borrowed \/ borrowed' = [borrowed EXCEPT ![c] = TRUE]
        BY <1>3 DEF Enable
    <3> QED BY ZenonT(30), <3>1 DEF TypeOK
  <2>4. pc' \in [Cpus -> Points]
    <3>1. pc' = [pc EXCEPT ![c] = "panic"] \/ pc' = [pc EXCEPT ![c] = to]
        BY <1>3 DEF Enable, Goto
    <3> QED BY <3>1 DEF TypeOK, Points
  <2> QED
      BY <1>3, <2>1, <2>2, <2>3, <2>4 DEF TypeOK, Enable, shared, call, intr
<1> QED BY <1>1, <1>2, <1>3

(* Every action keeps the types of the state. *)
LEMMA TypeStep == TypeOK /\ [Next]_vars => TypeOK'
<1> SUFFICES ASSUME TypeOK, [Next]_vars PROVE TypeOK'
    OBVIOUS
<1> USE AnyLockType DEF Goto, shared, call, clis, intr, Points
<1>1. CASE UNCHANGED vars
    BY <1>1 DEF TypeOK, vars
<1>2. CASE MpInit
    BY <1>2 DEF TypeOK, MpInit
<1>3. ASSUME NEW l \in Locks, AcquireNoLapic(l) \/ ReleaseNoLapic(l) PROVE TypeOK'
    BY <1>3 DEF TypeOK, AcquireNoLapic, ReleaseNoLapic
<1>4. ASSUME NEW c \in Cpus, StartAp(c) \/ Sti(c) \/ Trap(c) \/ TrapRet(c) PROVE TypeOK'
    BY ZenonT(30), <1>4 DEF TypeOK, StartAp, Sti, Trap, TrapRet
<1>5. ASSUME NEW c \in Cpus, CliCall(c) PROVE TypeOK'
    BY <1>5 DEF TypeOK, CliCall
<1>6. ASSUME NEW c \in Cpus, NEW l \in Locks, AcquireCall(c, l) \/ ReleaseCall(c, l)
      PROVE TypeOK'
    BY <1>6, NestingAssumption DEF TypeOK, AcquireCall, ReleaseCall
<1>7. ASSUME NEW c \in Cpus, PushFlags(c) \/ PushCli(c) \/ PopCli(c)
                             \/ HoldPushFlags(c) \/ HoldPushCli(c) \/ HoldPopCli(c)
      PROVE TypeOK'
  <2> DEFINE next == IF op[c] = "cli" THEN "body" ELSE "hpush_flags"
  <2>1. next \in Points
      OBVIOUS
  <2>2. CASE PushCli(c)
    <3>1. Disable(c, "push_cli", next)
        BY <2>2 DEF PushCli
    <3> HIDE DEF next
    <3> QED BY <2>1, <3>1, CliStepsType
  <2>3. CASE ~PushCli(c)
      BY <1>7, <2>3, CliStepsType
         DEF PushFlags, PopCli, HoldPushFlags, HoldPushCli, HoldPopCli
  <2> QED BY <2>2, <2>3
<1>8. ASSUME NEW c \in Cpus, Body(c) \/ PopReturn(c) PROVE TypeOK'
  <2>1. CASE Body(c)
      BY <2>1 DEF TypeOK, Body
  <2>2. CASE PopReturn(c)
      BY <2>2 DEF TypeOK, PopReturn
  <2> QED BY <1>8, <2>1, <2>2
<1>9. ASSUME NEW c \in Cpus, HoldLocked(c) \/ HoldCpu(c) \/ HoldReturn(c) PROVE TypeOK'
  <2>1. CASE HoldLocked(c)
      BY <2>1 DEF TypeOK, HoldLocked
  <2>2. CASE HoldCpu(c)
    <3> DEFINE held == cpu[target[c]] = c
    <3>1. held \in BOOLEAN
        OBVIOUS
    <3>2. res' = [res EXCEPT ![c] = held]
        BY <2>2 DEF HoldCpu
    <3> HIDE DEF held
    <3>3. res' \in [Cpus -> BOOLEAN]
        BY <3>1, <3>2 DEF TypeOK
    <3> QED BY <2>2, <3>3 DEF TypeOK, HoldCpu
  <2>3. CASE HoldReturn(c)
      BY <2>3 DEF TypeOK, HoldReturn
  <2> QED BY <1>9, <2>1, <2>2, <2>3
<1>10. ASSUME NEW c \in Cpus, CompareAndSwap(c) \/ StoreOwner(c) \/ ReleaseStores(c)
       PROVE TypeOK'
  <2>1. CASE CompareAndSwap(c)
      BY <2>1 DEF TypeOK, CompareAndSwap
  <2>2. CASE StoreOwner(c)
    <3>1. CASE FL_IF[c]
        BY <2>2, <3>1 DEF TypeOK, StoreOwner
    <3>2. CASE ~FL_IF[c]
      <4>1. cpu' \in [Locks -> Cpus \cup {-1}]
          BY <2>2, <3>2 DEF TypeOK, StoreOwner
      <4>2. guards' \in [Cpus -> SUBSET Locks]
          BY <2>2, <3>2 DEF TypeOK, StoreOwner
      <4>3. /\ op' \in [Cpus -> {"none", "acquire", "release", "cli"}]
            /\ target' \in [Cpus -> Locks]
          BY <2>2, <3>2 DEF TypeOK, StoreOwner
      <4>4. flags' \in [Cpus -> BOOLEAN] /\ res' \in [Cpus -> BOOLEAN] /\ pc' \in [Cpus -> Points]
          BY ZenonT(30), <2>2, <3>2 DEF TypeOK, StoreOwner
      <4>5. UNCHANGED <<lapic, locked, FL_IF, clis, borrowed, intr>>
          BY <2>2 DEF StoreOwner
      <4> QED BY <4>1, <4>2, <4>3, <4>4, <4>5 DEF TypeOK
    <3> QED BY <3>1, <3>2
  <2>3. CASE ReleaseStores(c)
      BY ZenonT(30), <2>3 DEF TypeOK, ReleaseStores
  <2> QED BY <1>10, <2>1, <2>2, <2>3
<1> QED
  <2>1. ASSUME NEW c \in Cpus, Step(c) PROVE TypeOK'
      BY <2>1, <1>4, <1>7, <1>8, <1>9, <1>10 DEF Step
  <2> QED
      BY <1>1, <1>2, <1>3, <1>4, <1>5, <1>6, <2>1 DEF Next

(* Every field keeps its type: in particular cpu is -1 or the index of a   *)
(* CPU, and pc never leaves the program points of the lock code.           *)
THEOREM TypeCorrect == Spec => []TypeOK
<1>1. Init => TypeOK
    BY AnyLockType DEF Init, TypeOK, Points
<1> QED BY <1>1, TypeStep, PTL DEF Spec

-----------------------------------------------------------------------------
\* A step of a CPU leaves the state of the others alone, so the work is in the
\* CPU that moves and in the lock it moves on.
Frame(c) ==
    /\ lapic' = lapic
    /\ \A d \in Cpus \ {c} :
        /\ guards'[d] = guards[d] /\ pc'[d] = pc[d] /\ op'[d] = op[d]
        /\ target'[d] = target[d] /\ flags'[d] = flags[d] /\ res'[d] = res[d]
        /\ FL_IF'[d] = FL_IF[d] /\ num_cli'[d] = num_cli[d]
        /\ int_enabled'[d] = int_enabled[d] /\ borrowed'[d] = borrowed[d]
        /\ in_trap'[d] = in_trap[d] /\ sti_done'[d] = sti_done[d]

\* A step of CPU c once the locks work.
CpuStep(c) ==
    \/ StartAp(c) \/ Sti(c) \/ Trap(c) \/ CliCall(c) \/ Step(c)
    \/ \E l \in Locks : AcquireCall(c, l) \/ ReleaseCall(c, l)

\* A step of CPU c leaves the registers, guards and calls of the other CPUs alone.
LEMMA StepFrame == ASSUME TypeOK, NEW c \in Cpus, CpuStep(c) PROVE Frame(c)
<1> USE DEF Frame, Goto, shared, call, clis, intr, TypeOK
<1>1. CASE StartAp(c) \/ Sti(c) \/ Trap(c) \/ TrapRet(c)
    BY <1>1 DEF StartAp, Sti, Trap, TrapRet
<1>2. CASE CliCall(c) \/ \E l \in Locks : AcquireCall(c, l) \/ ReleaseCall(c, l)
    BY <1>2 DEF CliCall, AcquireCall, ReleaseCall
<1>3. CASE PushFlags(c) \/ HoldPushFlags(c)
    BY <1>3 DEF PushFlags, HoldPushFlags, ReadFlags
<1>4. CASE PushCli(c) \/ HoldPushCli(c)
    BY <1>4 DEF PushCli, HoldPushCli, Disable
<1>5. CASE PopCli(c) \/ HoldPopCli(c)
    BY <1>5 DEF PopCli, HoldPopCli, Enable
<1>6. CASE Body(c) \/ PopReturn(c)
    BY <1>6 DEF Body, PopReturn
<1>7. CASE HoldLocked(c) \/ HoldCpu(c) \/ HoldReturn(c)
    BY <1>7 DEF HoldLocked, HoldCpu, HoldReturn
<1>8. CASE CompareAndSwap(c) \/ ReleaseStores(c)
    BY <1>8 DEF CompareAndSwap, ReleaseStores
<1>9. CASE StoreOwner(c)
    BY <1>9 DEF StoreOwner
<1> QED
    BY <1>1, <1>2, <1>3, <1>4, <1>5, <1>6, <1>7, <1>8, <1>9 DEF CpuStep, Step

-----------------------------------------------------------------------------
(* One CPU *)

\* A step of CPU c in lock.rs, in its callers or in a handler keeps the control
\* state of c: the action-by-action core of the invariant.
LEMMA CpuInvStep ==
    ASSUME TypeOK, TypeOK', lapic = "Some", LocksInv, NEW c \in Cpus, CpuInv(c), CpuStep(c)
    PROVE  CpuInv(c)'
<1> USE DEF At, Goto, Running
<1>0. /\ Cardinality(guards[c]) \in Nat /\ num_cli[c] \in Int
      /\ FL_IF[c] \in BOOLEAN /\ sti_done[c] \in BOOLEAN /\ in_trap[c] \in BOOLEAN
      /\ borrowed[c] \in BOOLEAN /\ int_enabled[c] \in BOOLEAN
      /\ flags[c] \in BOOLEAN /\ res[c] \in BOOLEAN
      /\ op[c] \in {"none", "acquire", "release", "cli"}
    BY FS_CardinalityType, Zenon DEF TypeOK, CpuInv
<1>n. num_cli[c] = Cardinality(guards[c]) + OpenCalls(c)
    BY Zenon DEF CpuInv
<1>1. CASE StartAp(c)
  <2>1. pc[c] = "off" /\ op[c] = "none" /\ ~borrowed[c]
      BY <1>0, <1>1, Zenon DEF StartAp, CpuInv, OpenCalls, InHolding
  <2>2. pc'[c] = "run"
      BY <1>1, <2>1, Zenon DEF StartAp, TypeOK
  <2>3. UNCHANGED <<guards, op, target, flags, res, FL_IF, num_cli, int_enabled, borrowed,
                    in_trap, sti_done>>
      BY <1>1, <2>1, Zenon DEF StartAp, shared, call, clis, intr
  <2> QED BY <1>0, <2>1, <2>2, <2>3, Zenon DEF CpuInv, OpenCalls, MayTake, InHolding
<1>2. CASE Sti(c)
  <2>1. pc[c] = "run" /\ op[c] = "none" /\ ~in_trap[c] /\ guards[c] = {} /\ ~borrowed[c]
      BY <1>0, <1>2, Zenon DEF Sti, CpuInv, OpenCalls, InHolding
  <2>2. FL_IF'[c] /\ sti_done'[c]
      BY <1>2, <2>1 DEF Sti, TypeOK
  <2>3. UNCHANGED <<pc, guards, op, target, flags, res, num_cli, int_enabled, borrowed, in_trap>>
      BY <1>2, <2>1, Zenon DEF Sti, shared, call, clis, intr
  <2>4. num_cli[c] = 0
      BY <2>1, FS_EmptySet DEF CpuInv, OpenCalls
  <2> QED BY <1>0, <2>1, <2>2, <2>3, <2>4, Zenon DEF CpuInv, OpenCalls, MayTake, InHolding
<1>3. CASE Trap(c)
  <2>1. ~in_trap[c] /\ sti_done[c] /\ num_cli[c] = 0
      BY <1>0, <1>3, Zenon DEF Trap, CpuInv, OpenCalls, InHolding
  <2>2. ~FL_IF'[c] /\ in_trap'[c]
      BY <1>3, <2>1 DEF Trap, TypeOK
  <2>3. UNCHANGED <<pc, guards, op, target, flags, res, num_cli, int_enabled, borrowed, sti_done>>
      BY <1>3, <2>1, Zenon DEF Trap, shared, call, clis, intr
  <2> QED BY <1>0, <2>1, <2>2, <2>3, Zenon DEF CpuInv, OpenCalls, MayTake, InHolding
<1>4. CASE TrapRet(c)
  <2>1. in_trap[c] /\ sti_done[c] /\ num_cli[c] = 0
      BY <1>0, <1>4, Zenon DEF TrapRet, CpuInv, OpenCalls, InHolding
  <2>2. FL_IF'[c] /\ ~in_trap'[c]
      BY <1>4, <2>1 DEF TrapRet, TypeOK
  <2>3. UNCHANGED <<pc, guards, op, target, flags, res, num_cli, int_enabled, borrowed, sti_done>>
      BY <1>4, <2>1, Zenon DEF TrapRet, shared, call, clis, intr
  <2> QED BY <1>0, <2>1, <2>2, <2>3, Zenon DEF CpuInv, OpenCalls, MayTake, InHolding
<1>5. CASE CliCall(c)
  <2>1. pc[c] = "run" /\ op[c] = "none" /\ ~in_trap[c] /\ ~borrowed[c]
      BY <1>0, <1>5, Zenon DEF CliCall, CpuInv, OpenCalls, InHolding
  <2>2. pc'[c] = "push_flags" /\ op'[c] = "cli"
      BY <1>5, <2>1, Zenon DEF CliCall, TypeOK
  <2>3. UNCHANGED <<guards, flags, res, FL_IF, num_cli, int_enabled, borrowed, in_trap, sti_done, target>>
      BY <1>5, <2>1, Zenon DEF CliCall, shared, call, clis, intr
  <2> QED BY <1>0, <2>1, <2>2, <2>3, Zenon DEF CpuInv, OpenCalls, MayTake, InHolding
<1>6. ASSUME NEW l \in Locks, AcquireCall(c, l) PROVE CpuInv(c)'
  <2>1. /\ pc[c] = "run" /\ op[c] = "none" /\ ~in_trap[c] /\ ~borrowed[c]
        /\ MayTake(c, l) /\ l \notin guards[c]
      BY <1>0, <1>6, NestingAssumption, Zenon DEF AcquireCall, CpuInv, OpenCalls, InHolding, MayTake
  <2>2. pc'[c] = "push_flags" /\ op'[c] = "acquire" /\ target'[c] = l
      BY <1>6, <2>1 DEF AcquireCall, TypeOK
  <2>3. UNCHANGED <<guards, flags, res, FL_IF, num_cli, int_enabled, borrowed, in_trap, sti_done>>
      BY <1>6, <2>1, Zenon DEF AcquireCall, shared, call, clis, intr
  <2> QED BY <1>0, <2>1, <2>2, <2>3, Zenon DEF CpuInv, OpenCalls, MayTake, InHolding
<1>7. ASSUME NEW l \in Locks, ReleaseCall(c, l) PROVE CpuInv(c)'
  <2>1. pc[c] = "run" /\ op[c] = "none" /\ ~in_trap[c] /\ ~borrowed[c] /\ l \in guards[c]
      BY <1>0, <1>7, Zenon DEF ReleaseCall, CpuInv, OpenCalls, InHolding
  <2>2. /\ pc'[c] = "hpush_flags" /\ op'[c] = "release" /\ target'[c] = l
        /\ guards'[c] = guards[c] \ {l}
      BY <1>7, <2>1 DEF ReleaseCall, TypeOK
  <2>3. UNCHANGED <<flags, res, FL_IF, num_cli, int_enabled, borrowed, in_trap, sti_done>>
      BY <1>7, <2>1, Zenon DEF ReleaseCall, shared, call, clis, intr
  <2>4. /\ IsFiniteSet(guards'[c]) /\ l \notin guards'[c]
        /\ Cardinality(guards'[c]) = Cardinality(guards[c]) - 1
    <3>1. IsFiniteSet(guards[c])
        BY Zenon DEF CpuInv
    <3> QED BY <2>1, <2>2, <3>1, FS_RemoveElement, Zenon
  <2> QED BY <1>0, <2>1, <2>2, <2>3, <2>4 DEF CpuInv, OpenCalls, MayTake, InHolding
<1>8. CASE PushFlags(c)
  <2>1. pc[c] = "push_flags" /\ op[c] \in {"acquire", "cli"} /\ ~in_trap[c] /\ ~borrowed[c]
      BY <1>0, <1>8, Zenon DEF PushFlags, ReadFlags, CpuInv, OpenCalls, InHolding
  <2>2. pc'[c] = "push_cli" /\ flags'[c] = FL_IF[c]
      BY <1>8, <2>1, Zenon DEF PushFlags, ReadFlags, TypeOK
  <2>3. UNCHANGED <<guards, op, target, res, FL_IF, num_cli, int_enabled, borrowed, in_trap, sti_done>>
      BY <1>8, <2>1, Zenon DEF PushFlags, ReadFlags, shared, call, clis, intr
  <2> QED BY <1>0, <2>1, <2>2, <2>3, Zenon DEF CpuInv, OpenCalls, MayTake, InHolding
<1>9. CASE PushCli(c)
  <2>1. pc[c] = "push_cli" /\ op[c] \in {"acquire", "cli"} /\ ~in_trap[c] /\ ~borrowed[c]
      BY <1>0, <1>9, Zenon DEF PushCli, Disable, CpuInv, OpenCalls, InHolding
  <2>2. /\ pc'[c] = IF op[c] = "cli" THEN "body" ELSE "hpush_flags"
        /\ num_cli'[c] = num_cli[c] + 1 /\ ~FL_IF'[c]
        /\ int_enabled'[c] = IF num_cli[c] = 0 THEN flags[c] ELSE int_enabled[c]
      BY <1>9, <2>1 DEF PushCli, Disable, TypeOK
  <2>3. UNCHANGED <<guards, op, target, flags, res, borrowed, in_trap, sti_done>>
      BY <1>9, <2>1, Zenon DEF PushCli, Disable, shared, call, clis, intr
  <2>4. OpenCalls(c) = 0 /\ OpenCalls(c)' = 1
      BY <2>1, <2>2, <2>3 DEF OpenCalls, InHolding
  <2>5. /\ num_cli[c] = Cardinality(guards[c]) /\ num_cli'[c] # 0
        /\ num_cli'[c] = Cardinality(guards'[c]) + OpenCalls(c)'
      BY <1>0, <2>2, <2>3, <2>4 DEF CpuInv
  <2>6. int_enabled'[c] <=> sti_done'[c]
      BY <2>1, <2>2, <2>3 DEF CpuInv
  <2> QED BY <1>0, <2>1, <2>2, <2>3, <2>5, <2>6 DEF CpuInv, MayTake, InHolding
<1>10. CASE Body(c)
  <2>1. pc[c] = "body" /\ op[c] = "cli" /\ ~borrowed[c] /\ ~FL_IF[c] /\ ~in_trap[c]
      BY <1>0, <1>10 DEF Body, CpuInv, OpenCalls, InHolding
  <2>2. pc'[c] = "pop"
      BY <1>10, <2>1, Zenon DEF Body, TypeOK
  <2>3. UNCHANGED <<guards, op, target, flags, res, FL_IF, num_cli, int_enabled, borrowed,
                    in_trap, sti_done>>
      BY <1>10, <2>1, Zenon DEF Body, shared, call, clis, intr
  <2> QED BY <1>0, <2>1, <2>2, <2>3, Zenon DEF CpuInv, OpenCalls, MayTake, InHolding
<1>11. CASE PopCli(c)
  <2>1. /\ pc[c] = "pop" /\ op[c] \in {"release", "cli"} /\ ~borrowed[c] /\ num_cli[c] # 0
        /\ ~FL_IF[c] /\ ~in_trap[c]
    <3>1. pc[c] = "pop" /\ op[c] \in {"release", "cli"}
        BY <1>0, <1>11, Zenon DEF PopCli, Enable, CpuInv, InHolding
    <3>2. OpenCalls(c) = 1
        BY <3>1 DEF OpenCalls
    <3>3. num_cli[c] # 0
        BY <1>0, <1>n, <3>2
    <3> QED BY <1>0, <3>1, <3>3, Zenon DEF CpuInv
  <2>2. /\ pc'[c] = "drop" /\ num_cli'[c] = num_cli[c] - 1 /\ borrowed'[c]
        /\ FL_IF'[c] <=> num_cli[c] = 1 /\ int_enabled[c]
      BY <1>0, <1>11, <2>1 DEF PopCli, Enable, TypeOK
  <2>3. UNCHANGED <<guards, op, target, flags, res, int_enabled, in_trap, sti_done>>
      BY <1>11, <2>1, Zenon DEF PopCli, Enable, shared, call, clis, intr
  <2>4. int_enabled[c] <=> sti_done[c]
      BY <2>1, Zenon DEF CpuInv
  <2>5. FL_IF'[c] <=> sti_done[c] /\ num_cli'[c] = 0
      BY <1>0, <2>2, <2>4
  <2>6. OpenCalls(c) = 1 /\ OpenCalls(c)' = 0
      BY <2>1, <2>2 DEF OpenCalls
  <2>7. num_cli'[c] = Cardinality(guards'[c]) + OpenCalls(c)'
      BY <1>0, <2>2, <2>3, <2>6 DEF CpuInv
  <2> QED BY <1>0, <2>1, <2>2, <2>3, <2>4, <2>5, <2>7, Zenon DEF CpuInv, MayTake, InHolding
<1>12. CASE PopReturn(c)
  <2>1. pc[c] = "drop" /\ op[c] \in {"release", "cli"} /\ ~in_trap[c]
      BY <1>0, <1>12, Zenon DEF PopReturn, CpuInv, OpenCalls, InHolding
  <2>2. pc'[c] = "run" /\ op'[c] = "none" /\ ~borrowed'[c]
      BY <1>12, <2>1 DEF PopReturn, TypeOK
  <2>3. UNCHANGED <<guards, FL_IF, num_cli, int_enabled, in_trap, sti_done>>
      BY <1>12, <2>1, Zenon DEF PopReturn, shared, call, clis, intr
  <2> QED BY <1>0, <2>1, <2>2, <2>3, Zenon DEF CpuInv, OpenCalls, MayTake, InHolding
<1>13. CASE HoldPushFlags(c)
  <2>1. pc[c] = "hpush_flags" /\ op[c] \in {"acquire", "release"} /\ ~in_trap[c] /\ ~borrowed[c]
      BY <1>0, <1>13, Zenon DEF HoldPushFlags, ReadFlags, CpuInv, OpenCalls, InHolding
  <2>2. pc'[c] = "hpush_cli"
      BY <1>13, <2>1, Zenon DEF HoldPushFlags, ReadFlags, TypeOK
  <2>3. UNCHANGED <<guards, op, target, res, FL_IF, num_cli, int_enabled, borrowed, in_trap, sti_done>>
      BY <1>13, <2>1, Zenon DEF HoldPushFlags, ReadFlags, shared, call, clis, intr
  <2> QED BY <1>0, <2>1, <2>2, <2>3, Zenon DEF CpuInv, OpenCalls, MayTake, InHolding
<1>14. CASE HoldPushCli(c)
  <2>1. /\ pc[c] = "hpush_cli" /\ op[c] \in {"acquire", "release"} /\ ~in_trap[c]
        /\ ~borrowed[c] /\ num_cli[c] # 0
    <3>1. pc[c] = "hpush_cli" /\ op[c] \in {"acquire", "release"}
        BY <1>0, <1>14, Zenon DEF HoldPushCli, Disable, CpuInv
    <3>2. OpenCalls(c) = 1
        BY <3>1 DEF OpenCalls
    <3>3. num_cli[c] # 0
        BY <1>0, <1>n, <3>2
    <3> QED BY <1>0, <3>1, <3>3, Zenon DEF CpuInv
  <2>2. /\ pc'[c] = "h_locked" /\ num_cli'[c] = num_cli[c] + 1 /\ ~FL_IF'[c]
        /\ int_enabled'[c] = int_enabled[c]
      BY <1>14, <2>1 DEF HoldPushCli, Disable, TypeOK
  <2>3. UNCHANGED <<guards, op, target, flags, res, borrowed, in_trap, sti_done>>
      BY <1>14, <2>1, Zenon DEF HoldPushCli, Disable, shared, call, clis, intr
  <2>4. OpenCalls(c) = 1 /\ OpenCalls(c)' = 2
      BY <2>1, <2>2, <2>3 DEF OpenCalls
  <2>5. num_cli'[c] # 0 /\ num_cli'[c] = Cardinality(guards'[c]) + OpenCalls(c)'
      BY <1>0, <2>2, <2>3, <2>4 DEF CpuInv
  <2> QED BY <1>0, <2>1, <2>2, <2>3, <2>5 DEF CpuInv, MayTake, InHolding
<1>15. CASE HoldLocked(c)
  <2>1. /\ pc[c] = "h_locked" /\ op[c] \in {"acquire", "release"} /\ ~in_trap[c]
        /\ ~borrowed[c]
      BY <1>0, <1>15, Zenon DEF HoldLocked, CpuInv, OpenCalls, InHolding
  <2>2. /\ pc'[c] = IF locked[target[c]] THEN "h_cpu" ELSE "h_pop"
        /\ ~res'[c]
      BY <1>15, <2>1, Zenon DEF HoldLocked, TypeOK
  <2>3. UNCHANGED <<guards, op, target, flags, FL_IF, num_cli, int_enabled, borrowed, in_trap, sti_done>>
      BY <1>15, <2>1, Zenon DEF HoldLocked, shared, call, clis, intr
  <2>4. op[c] = "release" => locked[target[c]]
      BY <2>1 DEF LocksInv, Owns, InHolding, TypeOK
  <2> QED BY <1>0, <2>1, <2>2, <2>3, <2>4, Zenon DEF CpuInv, OpenCalls, MayTake, InHolding
<1>16. CASE HoldCpu(c)
  <2>1. /\ pc[c] = "h_cpu" /\ op[c] \in {"acquire", "release"} /\ ~in_trap[c]
        /\ ~borrowed[c] /\ ~FL_IF[c]
      BY <1>0, <1>16 DEF HoldCpu, CpuInv, OpenCalls, InHolding
  <2>2. pc'[c] = "h_pop" /\ (res'[c] <=> cpu[target[c]] = c)
      BY <1>16, <2>1, Zenon DEF HoldCpu, TypeOK
  <2>3. UNCHANGED <<guards, op, target, flags, FL_IF, num_cli, int_enabled, borrowed, in_trap, sti_done>>
      BY <1>16, <2>1, Zenon DEF HoldCpu, shared, call, clis, intr
  <2>4. cpu[target[c]] = c <=> op[c] = "release"
    <3>1. target[c] \in Locks /\ (cpu[target[c]] = c <=> OwnerStored(c, target[c]))
        BY Zenon DEF LocksInv, TypeOK
    <3> QED BY <2>1, <3>1, Zenon DEF OwnerStored, CpuInv, InHolding
  <2> QED BY <1>0, <2>1, <2>2, <2>3, <2>4, Zenon DEF CpuInv, OpenCalls, MayTake, InHolding
<1>17. CASE HoldPopCli(c)
  <2>1. /\ pc[c] = "h_pop" /\ op[c] \in {"acquire", "release"} /\ ~in_trap[c]
        /\ ~borrowed[c] /\ num_cli[c] > 1 /\ ~FL_IF[c]
    <3>1. pc[c] = "h_pop" /\ op[c] \in {"acquire", "release"}
        BY <1>0, <1>17, Zenon DEF HoldPopCli, Enable, CpuInv
    <3>2. OpenCalls(c) = 2
        BY <3>1 DEF OpenCalls
    <3>3. num_cli[c] > 1 /\ num_cli[c] # 0
        BY <1>0, <1>n, <3>2
    <3> QED BY <1>0, <3>1, <3>3, Zenon DEF CpuInv
  <2>2. /\ pc'[c] = "h_drop" /\ num_cli'[c] = num_cli[c] - 1 /\ borrowed'[c]
        /\ ~FL_IF'[c]
      BY <1>0, <1>17, <2>1 DEF HoldPopCli, Enable, TypeOK
  <2>3. UNCHANGED <<guards, op, target, flags, res, int_enabled, in_trap, sti_done>>
      BY <1>17, <2>1, Zenon DEF HoldPopCli, Enable, shared, call, clis, intr
  <2>4. OpenCalls(c) = 2 /\ OpenCalls(c)' = 1
      BY <2>1, <2>2, <2>3 DEF OpenCalls
  <2>5. num_cli'[c] # 0 /\ num_cli[c] # 0 /\ num_cli'[c] = Cardinality(guards'[c]) + OpenCalls(c)'
      BY <1>0, <1>n, <2>1, <2>2, <2>3, <2>4
  <2> QED BY <1>0, <2>1, <2>2, <2>3, <2>5, Zenon DEF CpuInv, MayTake, InHolding
<1>18. CASE HoldReturn(c)
  <2>1. /\ pc[c] = "h_drop" /\ op[c] \in {"acquire", "release"} /\ ~in_trap[c]
        /\ res[c] <=> op[c] = "release"
      BY <1>0, <1>18, Zenon DEF HoldReturn, CpuInv, OpenCalls, InHolding
  <2>2. /\ pc'[c] = IF op[c] = "acquire" THEN "cas" ELSE "clear"
        /\ ~borrowed'[c]
      BY <1>0, <1>18, <2>1, Zenon DEF HoldReturn, TypeOK
  <2>3. UNCHANGED <<guards, op, target, flags, res, FL_IF, num_cli, int_enabled, in_trap, sti_done>>
      BY <1>18, <2>1, Zenon DEF HoldReturn, shared, call, clis, intr
  <2> QED BY <1>0, <2>1, <2>2, <2>3, Zenon DEF CpuInv, OpenCalls, MayTake, InHolding
<1>19. CASE CompareAndSwap(c)
  <2>1. pc[c] = "cas" /\ op[c] = "acquire" /\ ~in_trap[c] /\ ~borrowed[c]
      BY <1>0, <1>19, Zenon DEF CompareAndSwap, CpuInv, OpenCalls, InHolding
  <2>2. pc'[c] = "owner"
      BY <1>19, <2>1, Zenon DEF CompareAndSwap, TypeOK
  <2>3. UNCHANGED <<guards, op, target, flags, res, FL_IF, num_cli, int_enabled, borrowed,
                    in_trap, sti_done>>
      BY <1>19, <2>1, Zenon DEF CompareAndSwap, shared, call, clis, intr
  <2> QED BY <1>0, <2>1, <2>2, <2>3 DEF CpuInv, OpenCalls, MayTake, InHolding
<1>20. CASE StoreOwner(c)
  <2>1. /\ pc[c] = "owner" /\ op[c] = "acquire" /\ ~FL_IF[c] /\ ~in_trap[c] /\ ~borrowed[c]
        /\ IsFiniteSet(guards[c]) /\ target[c] \notin guards[c]
    <3>1. pc[c] = "owner" /\ op[c] = "acquire"
        BY <1>0, <1>20, Zenon DEF StoreOwner, CpuInv, InHolding
    <3>2. OpenCalls(c) = 1
        BY <3>1 DEF OpenCalls
    <3>3. num_cli[c] # 0
        BY <1>0, <1>n, <3>2
    <3> QED BY <1>0, <3>1, <3>3, Zenon DEF CpuInv
  <2>2. /\ pc'[c] = "run" /\ op'[c] = "none" /\ guards'[c] = guards[c] \cup {target[c]}
      BY <1>20, <2>1 DEF StoreOwner, TypeOK
  <2>3. UNCHANGED <<FL_IF, num_cli, int_enabled, borrowed, in_trap, sti_done>>
      BY <1>20, <2>1, Zenon DEF StoreOwner, shared, call, clis, intr
  <2>4. /\ IsFiniteSet(guards'[c])
        /\ Cardinality(guards'[c]) = Cardinality(guards[c]) + 1
    <3> DEFINE G == guards[c] t == target[c]
    <3>1. IsFiniteSet(G) /\ t \notin G /\ guards'[c] = G \cup {t}
        BY <2>1, <2>2, Zenon
    <3> HIDE DEF G, t
    <3> QED BY <3>1, FS_AddElement, Zenon DEF G
  <2> QED BY <1>0, <2>1, <2>2, <2>3, <2>4 DEF CpuInv, OpenCalls, MayTake, InHolding
<1>21. CASE ReleaseStores(c)
  <2>1. /\ pc[c] \in {"clear", "unlock"} /\ op[c] = "release" /\ ~in_trap[c]
        /\ ~borrowed[c]
      BY <1>0, <1>21, Zenon DEF ReleaseStores, CpuInv, OpenCalls, InHolding
  <2>2. pc'[c] = IF pc[c] = "clear" THEN "unlock" ELSE "pop"
      BY <1>21, <2>1, Zenon DEF ReleaseStores, TypeOK
  <2>3. UNCHANGED <<guards, op, target, flags, res, FL_IF, num_cli, int_enabled, borrowed,
                    in_trap, sti_done>>
      BY <1>21, <2>1, Zenon DEF ReleaseStores, shared, call, clis, intr
  <2> QED BY <1>0, <2>1, <2>2, <2>3 DEF CpuInv, OpenCalls, MayTake, InHolding
<1> QED
    BY ZenonT(30), <1>1, <1>2, <1>3, <1>4, <1>5, <1>6, <1>7, <1>8, <1>9, <1>10, <1>11, <1>12, <1>13,
       <1>14, <1>15, <1>16, <1>17, <1>18, <1>19, <1>20, <1>21 DEF CpuStep, Step

-----------------------------------------------------------------------------
(* All CPUs *)

USE CpusAssumption, LocksAssumption, NestingAssumption

\* A step of CPU c changes neither the control state nor the ownership of others.
LEMMA OthersUnchanged ==
    ASSUME NEW c \in Cpus, Frame(c), NEW d \in Cpus \ {c}
    PROVE  /\ CpuInv(d) => CpuInv(d)'
           /\ \A l \in Locks : /\ Owns(d, l)' <=> Owns(d, l)
                               /\ OwnerStored(d, l)' <=> OwnerStored(d, l)
<1>1. CpuInv(d) => CpuInv(d)'
    BY ZenonT(30) DEF Frame, CpuInv, OpenCalls, MayTake
<1>2. \A l \in Locks : /\ Owns(d, l)' <=> Owns(d, l)
                       /\ OwnerStored(d, l)' <=> OwnerStored(d, l)
    BY ZenonT(30) DEF Frame, Owns, OwnerStored
<1> QED BY <1>1, <1>2, Zenon

\* A step that gives and takes no lock keeps the locks' invariant.
LEMMA QuietStep ==
    ASSUME TypeOK, LocksInv, MutualExclusion, NEW c \in Cpus, Frame(c), UNCHANGED shared,
           \A l \in Locks : /\ Owns(c, l)' <=> Owns(c, l)
                            /\ OwnerStored(c, l)' <=> OwnerStored(c, l)
    PROVE  LocksInv' /\ MutualExclusion'
<1>1. \A d \in Cpus, l \in Locks : /\ Owns(d, l)' <=> Owns(d, l)
                                   /\ OwnerStored(d, l)' <=> OwnerStored(d, l)
    BY OthersUnchanged, Zenon
<1> QED BY ZenonT(30), <1>1 DEF LocksInv, MutualExclusion, shared

\* The steps that give and take no lock: all but the compare_and_swap, the
\* stores that follow it, the stores of release and the drop of a guard.
LEMMA QuietActions ==
    ASSUME TypeOK, NEW c \in Cpus, CpuInv(c), CpuInv(c)',
           \/ StartAp(c) \/ Sti(c) \/ Trap(c) \/ TrapRet(c) \/ CliCall(c)
           \/ \E l \in Locks : AcquireCall(c, l)
           \/ PushFlags(c) \/ PushCli(c) \/ Body(c) \/ PopCli(c) \/ PopReturn(c)
           \/ HoldPushFlags(c) \/ HoldPushCli(c) \/ HoldLocked(c) \/ HoldCpu(c)
           \/ HoldPopCli(c) \/ HoldReturn(c)
    PROVE  /\ UNCHANGED shared
           /\ \A l \in Locks : /\ Owns(c, l)' <=> Owns(c, l)
                               /\ OwnerStored(c, l)' <=> OwnerStored(c, l)
<1> USE DEF TypeOK, Owns, OwnerStored, InHolding, Goto, At, Running, shared, call
<1>1. CASE StartAp(c) \/ Sti(c) \/ Trap(c) \/ TrapRet(c)
    BY <1>1, Zenon DEF StartAp, Sti, Trap, TrapRet
<1>2. CASE CliCall(c) \/ \E l \in Locks : AcquireCall(c, l)
  <2>1. /\ pc[c] = "run" /\ pc'[c] = "push_flags" /\ op'[c] \in {"acquire", "cli"}
        /\ UNCHANGED <<shared, guards>>
    <3>1. CASE CliCall(c)
        BY <3>1, Zenon DEF CliCall
    <3>2. CASE \E l \in Locks : AcquireCall(c, l)
        BY <3>2, Zenon DEF AcquireCall
    <3> QED BY ZenonT(30), <1>2, <3>1, <3>2
  <2>2. op[c] = "none"
      BY <2>1, Zenon DEF CpuInv
  <2> QED BY <2>1, <2>2, Zenon
<1>3. CASE PushFlags(c) \/ HoldPushFlags(c)
  <2>1. CASE PushFlags(c)
      BY <2>1, Zenon DEF PushFlags, ReadFlags, CpuInv
  <2>2. CASE HoldPushFlags(c)
      BY <2>2, Zenon DEF HoldPushFlags, ReadFlags, CpuInv
  <2> QED BY ZenonT(30), <1>3, <2>1, <2>2
<1>4. CASE PushCli(c) \/ HoldPushCli(c)
    BY ZenonT(30), <1>4 DEF PushCli, HoldPushCli, Disable, CpuInv
<1>5. CASE PopCli(c) \/ HoldPopCli(c)
    BY ZenonT(30), <1>5 DEF PopCli, HoldPopCli, Enable, CpuInv
<1>6. CASE Body(c) \/ PopReturn(c)
  <2>1. CASE Body(c)
      BY <2>1, Zenon DEF Body, CpuInv
  <2>2. CASE PopReturn(c)
      BY <2>2, Zenon DEF PopReturn, CpuInv
  <2> QED BY ZenonT(30), <1>6, <2>1, <2>2
<1>7. CASE HoldLocked(c) \/ HoldCpu(c)
  <2>1. CASE HoldLocked(c)
      BY <2>1, Zenon DEF HoldLocked, CpuInv
  <2>2. CASE HoldCpu(c)
      BY <2>2, Zenon DEF HoldCpu, CpuInv
  <2> QED BY ZenonT(30), <1>7, <2>1, <2>2
<1>8. CASE HoldReturn(c)
    BY ZenonT(30), <1>8 DEF HoldReturn, CpuInv
<1> QED BY ZenonT(30), <1>1, <1>2, <1>3, <1>4, <1>5, <1>6, <1>7, <1>8

\* A step of CPU c keeps what the fields of the locks say about their owners,
\* and mutual exclusion: the stores of acquire and release one by one.
LEMMA LocksStep ==
    ASSUME TypeOK, LocksInv, MutualExclusion, NEW c \in Cpus, CpuInv(c), CpuInv(c)',
           Frame(c), CpuStep(c)
    PROVE  LocksInv' /\ MutualExclusion'
<1>1. CASE CompareAndSwap(c)
  <2>1. PICK t \in Locks : t = target[c]
      BY Zenon DEF TypeOK
  <2>2. /\ ~locked[t] /\ pc[c] = "cas" /\ op[c] = "acquire" /\ t \notin guards[c]
        /\ locked' = [locked EXCEPT ![t] = TRUE] /\ UNCHANGED <<cpu, guards, op, target>>
        /\ pc'[c] = "owner"
      BY <1>1, <2>1, Zenon DEF CompareAndSwap, CpuInv, InHolding, At, Goto, TypeOK, call
  <2>3. \A l \in Locks : Owns(c, l)' <=> l = t \/ Owns(c, l)
      BY <2>1, <2>2, Zenon DEF Owns, InHolding
  <2>4. \A l \in Locks : OwnerStored(c, l)' <=> OwnerStored(c, l)
      BY <2>1, <2>2, Zenon DEF OwnerStored, InHolding
  <2>5. \A d \in Cpus : ~Owns(d, t)
      BY ZenonT(30), <2>2 DEF LocksInv
  <2>6. MutualExclusion'
      BY <2>3, <2>5, OthersUnchanged DEF MutualExclusion
  <2>7. \A l \in Locks : locked'[l] <=> \E d \in Cpus : Owns(d, l)'
      BY <2>2, <2>3, OthersUnchanged DEF LocksInv, TypeOK
  <2>8. \A d \in Cpus, l \in Locks : cpu'[l] = d <=> OwnerStored(d, l)'
      BY <2>2, <2>4, OthersUnchanged DEF LocksInv
  <2> QED BY ZenonT(30), <2>6, <2>7, <2>8 DEF LocksInv
<1>2. CASE StoreOwner(c)
  <2>1. PICK t \in Locks : t = target[c]
      BY Zenon DEF TypeOK
  <2>2. /\ pc[c] = "owner" /\ op[c] = "acquire" /\ pc'[c] = "run" /\ op'[c] = "none"
        /\ guards'[c] = guards[c] \cup {t} /\ cpu' = [cpu EXCEPT ![t] = c]
        /\ UNCHANGED locked
      BY <1>2, <2>1, Zenon DEF StoreOwner, CpuInv, InHolding, At, Goto, TypeOK
  <2>3. \A l \in Locks : Owns(c, l)' <=> Owns(c, l)
      BY <2>1, <2>2, Zenon DEF Owns, InHolding
  <2>4. \A l \in Locks : OwnerStored(c, l)' <=> l = t \/ OwnerStored(c, l)
      BY <2>1, <2>2, Zenon DEF OwnerStored, InHolding
  <2>5. Owns(c, t)
      BY <2>1, <2>2, Zenon DEF Owns
  <2>6. \A d \in Cpus \ {c} : ~OwnerStored(d, t)
      BY <2>5, Zenon DEF MutualExclusion, Owns, OwnerStored
  <2>7. MutualExclusion'
      BY <2>3, OthersUnchanged DEF MutualExclusion
  <2>8. \A l \in Locks : locked'[l] <=> \E d \in Cpus : Owns(d, l)'
    <3>1. \A d \in Cpus, l \in Locks : Owns(d, l)' <=> Owns(d, l)
        BY <2>3, OthersUnchanged
    <3> QED BY <2>2, <3>1, Zenon DEF LocksInv
  <2>9. \A d \in Cpus, l \in Locks : cpu'[l] = d <=> OwnerStored(d, l)'
    <3> SUFFICES ASSUME NEW d \in Cpus, NEW l \in Locks
                 PROVE  cpu'[l] = d <=> OwnerStored(d, l)'
        BY Zenon
    <3>1. cpu'[l] = IF l = t THEN c ELSE cpu[l]
        BY <2>2, Zenon DEF TypeOK
    <3>2. cpu[l] = d <=> OwnerStored(d, l)
        BY Zenon DEF LocksInv
    <3>3. CASE d = c
        BY <2>4, <3>1, <3>2, <3>3, Zenon
    <3>4. CASE d # c
      <4>1. OwnerStored(d, l)' <=> OwnerStored(d, l)
          BY <3>4, OthersUnchanged, Zenon
      <4> QED BY <2>6, <3>1, <3>2, <3>4, <4>1, Zenon
    <3> QED BY <3>3, <3>4, Zenon
  <2> QED BY <2>7, <2>8, <2>9, Zenon DEF LocksInv
<1>3. CASE ReleaseStores(c)
  <2>1. PICK t \in Locks : t = target[c]
      BY Zenon DEF TypeOK
  <2>2. op[c] = "release" /\ UNCHANGED <<op, target, guards>> /\ t \notin guards[c]
      BY <1>3, <2>1, Zenon DEF ReleaseStores, CpuInv, InHolding, At, call, TypeOK
  <2>3. CASE pc[c] = "clear"
    <3>1. cpu' = [cpu EXCEPT ![t] = -1] /\ UNCHANGED locked /\ pc'[c] = "unlock"
        BY <1>3, <2>1, <2>3, Zenon DEF ReleaseStores, At, Goto, TypeOK
    <3>2. \A l \in Locks : Owns(c, l)' <=> Owns(c, l)
        BY <2>1, <2>2, <2>3, <3>1, Zenon DEF Owns, InHolding
    <3>3. \A l \in Locks : OwnerStored(c, l)' <=> l # t /\ OwnerStored(c, l)
        BY <2>1, <2>2, <2>3, <3>1, Zenon DEF OwnerStored, InHolding
    <3>4. \A d \in Cpus \ {c} : ~OwnerStored(d, t)
        BY ZenonT(30), <2>1, <2>2, <2>3 DEF MutualExclusion, Owns, OwnerStored
    <3>5. MutualExclusion'
        BY <3>2, OthersUnchanged DEF MutualExclusion
    <3>6. \A l \in Locks : locked'[l] <=> \E d \in Cpus : Owns(d, l)'
        BY <3>1, <3>2, OthersUnchanged DEF LocksInv
    <3>7. \A d \in Cpus, l \in Locks : cpu'[l] = d <=> OwnerStored(d, l)'
      <4> SUFFICES ASSUME NEW d \in Cpus, NEW l \in Locks
                   PROVE  cpu'[l] = d <=> OwnerStored(d, l)'
          BY Zenon
      <4>1. d # -1
          OBVIOUS
      <4>2. cpu'[l] = IF l = t THEN -1 ELSE cpu[l]
          BY <3>1, Zenon DEF TypeOK
      <4>3. cpu[l] = d <=> OwnerStored(d, l)
          BY Zenon DEF LocksInv
      <4>4. CASE d = c
          BY <3>3, <4>1, <4>2, <4>3, <4>4, Zenon
      <4>5. CASE d # c
        <5>1. OwnerStored(d, l)' <=> OwnerStored(d, l)
            BY <4>5, OthersUnchanged, Zenon
        <5> QED BY <3>4, <4>1, <4>2, <4>3, <4>5, <5>1, Zenon
      <4> QED BY <4>4, <4>5, Zenon
    <3> QED BY <3>5, <3>6, <3>7, Zenon DEF LocksInv
  <2>4. CASE pc[c] # "clear"
    <3>1. /\ pc[c] = "unlock" /\ locked' = [locked EXCEPT ![t] = FALSE]
          /\ UNCHANGED cpu /\ pc'[c] = "pop"
        BY <1>3, <2>1, <2>4, Zenon DEF ReleaseStores, At, Goto, TypeOK
    <3>2. \A l \in Locks : Owns(c, l)' <=> l # t /\ Owns(c, l)
        BY <2>1, <2>2, <3>1, Zenon DEF Owns, InHolding
    <3>3. \A l \in Locks : OwnerStored(c, l)' <=> OwnerStored(c, l)
        BY <2>1, <2>2, <3>1, Zenon DEF OwnerStored, InHolding
    <3>4. \A d \in Cpus \ {c} : ~Owns(d, t)
        BY <2>1, <2>2, <3>1, Zenon DEF MutualExclusion, Owns
    <3>5. MutualExclusion'
        BY <3>2, OthersUnchanged DEF MutualExclusion
    <3>6. \A l \in Locks : locked'[l] <=> \E d \in Cpus : Owns(d, l)'
        BY <3>1, <3>2, <3>4, OthersUnchanged DEF LocksInv, TypeOK
    <3>7. \A d \in Cpus, l \in Locks : cpu'[l] = d <=> OwnerStored(d, l)'
        BY <3>1, <3>3, OthersUnchanged DEF LocksInv
    <3> QED BY <3>5, <3>6, <3>7, Zenon DEF LocksInv
  <2> QED BY <2>3, <2>4, Zenon
<1>4. CASE \E l \in Locks : ReleaseCall(c, l)
  <2>1. PICK t \in Locks : ReleaseCall(c, t)
      BY <1>4, Zenon
  <2>2. /\ t \in guards[c] /\ guards'[c] = guards[c] \ {t} /\ op[c] = "none"
        /\ op'[c] = "release" /\ target'[c] = t /\ pc'[c] = "hpush_flags" /\ UNCHANGED shared
      BY <2>1, Zenon DEF ReleaseCall, Running, CpuInv, Goto, TypeOK
  <2>3. \A l \in Locks : /\ Owns(c, l)' <=> Owns(c, l)
                         /\ OwnerStored(c, l)' <=> OwnerStored(c, l)
      BY ZenonT(30), <2>2 DEF Owns, OwnerStored, InHolding
  <2> QED BY <2>2, <2>3, QuietStep, Zenon
<1>5. CASE StartAp(c) \/ Sti(c) \/ Trap(c) \/ TrapRet(c) \/ CliCall(c)
    BY <1>5, QuietActions, QuietStep, Zenon
<1>6. ASSUME NEW l \in Locks, AcquireCall(c, l) PROVE LocksInv' /\ MutualExclusion'
    BY <1>6, QuietActions, QuietStep, Zenon
<1>7. CASE PushFlags(c) \/ PushCli(c) \/ Body(c) \/ PopCli(c) \/ PopReturn(c)
    BY <1>7, QuietActions, QuietStep, Zenon
<1>8. CASE \/ HoldPushFlags(c) \/ HoldPushCli(c) \/ HoldLocked(c) \/ HoldCpu(c)
           \/ HoldPopCli(c) \/ HoldReturn(c)
    BY <1>8, QuietActions, QuietStep, Zenon
<1> QED
    BY <1>1, <1>2, <1>3, <1>4, <1>5, <1>6, <1>7, <1>8, Zenon DEF CpuStep, Step

\* Nothing but the boot CPU's no-op locking happens before mp::init.
LEMMA NoStepBeforeLapic ==
    ASSUME TypeOK, BootInv, lapic = "None", NEW c \in Cpus, CpuStep(c)
    PROVE  FALSE
<1>1. pc[c] \in {"run", "off"} /\ ~in_trap[c] /\ ~FL_IF[c]
    BY ZenonT(30) DEF BootInv
<1> QED
    BY ZenonT(30), <1>1 DEF CpuStep, Step, StartAp, Sti, Trap, TrapRet, CliCall, AcquireCall, ReleaseCall,
       PushFlags, PushCli, Body, PopCli, PopReturn, HoldPushFlags, HoldPushCli, HoldLocked,
       HoldCpu, HoldPopCli, HoldReturn, CompareAndSwap, StoreOwner, ReleaseStores,
       ReadFlags, Disable, Enable, At

\* LockInv is inductive: every step of the system keeps it.
LEMMA InvStep == TypeOK /\ LockInv /\ [Next]_vars => LockInv'
<1> SUFFICES ASSUME TypeOK, LockInv, [Next]_vars PROVE LockInv'
    BY Zenon
<1>1. TypeOK'
    BY TypeStep, Zenon
<1>2. CASE UNCHANGED vars
  <2>1. UNCHANGED <<lapic, locked, cpu, guards, pc, op, target, flags, res, FL_IF, num_cli,
                    int_enabled, borrowed, in_trap, sti_done>>
      BY <1>2, Zenon DEF vars
  <2>2. \A c \in Cpus, l \in Locks : /\ Owns(c, l)' <=> Owns(c, l)
                                     /\ OwnerStored(c, l)' <=> OwnerStored(c, l)
      BY <2>1 DEF Owns, OwnerStored
  <2>3. ASSUME NEW c \in Cpus PROVE CpuInv(c) => CpuInv(c)'
      BY ZenonT(30), <2>1 DEF CpuInv, OpenCalls, MayTake
  <2>4. BootInv => BootInv'
      BY ZenonT(30), <2>1 DEF BootInv
  <2>5. LocksInv => LocksInv'
      BY ZenonT(30), <2>1, <2>2 DEF LocksInv
  <2>6. MutualExclusion'
      BY <2>2, Zenon DEF LockInv, MutualExclusion
  <2> QED BY <2>1, <2>3, <2>4, <2>5, <2>6, Zenon DEF LockInv
<1>3. CASE MpInit
  <2>1. /\ lapic' = "Some" /\ BootInv /\ \A c \in Cpus : guards[c] = {}
        /\ UNCHANGED <<locked, cpu, guards, pc, op, target, flags, res, FL_IF, num_cli,
                       int_enabled, borrowed, in_trap, sti_done>>
      BY <1>3, Zenon DEF MpInit, LockInv, BootInv, shared, call, clis, intr
  <2>2. \A c \in Cpus, l \in Locks : ~Owns(c, l)' /\ ~OwnerStored(c, l)'
    <3>1. \A c \in Cpus : op'[c] = "none" /\ guards'[c] = {}
        BY ZenonT(30), <2>1 DEF BootInv
    <3> QED BY <3>1, Zenon DEF Owns, OwnerStored
  <2>3. LocksInv'
    <3>1. \A l \in Locks : ~locked'[l] /\ cpu'[l] = -1
        BY <2>1, Zenon DEF BootInv
    <3>2. -1 \notin Cpus
        OBVIOUS
    <3> QED BY <2>2, <3>1, <3>2, Zenon DEF LocksInv
  <2>4. ASSUME NEW c \in Cpus PROVE CpuInv(c)'
    <3>1. /\ op[c] = "none" /\ num_cli[c] = 0 /\ ~FL_IF[c]
          /\ ~sti_done[c] /\ ~in_trap[c] /\ ~borrowed[c]
        BY ZenonT(30), <2>1 DEF BootInv
    <3>2. pc[c] \in {"run", "off"} /\ guards[c] = {}
      <4>1. CASE c = Bsp
          BY <2>1, <4>1, Zenon DEF BootInv
      <4>2. CASE c \in Cpus \ {Bsp}
          BY <2>1, <4>2, Zenon DEF BootInv
      <4> QED BY <4>1, <4>2, Zenon
    <3>3. IsFiniteSet(guards[c]) /\ Cardinality(guards[c]) = 0
        BY <3>2, FS_EmptySet, Zenon
    <3>4. /\ op'[c] = "none" /\ num_cli'[c] = 0 /\ ~FL_IF'[c] /\ ~sti_done'[c]
          /\ ~in_trap'[c] /\ ~borrowed'[c] /\ pc'[c] \in {"run", "off"}
          /\ IsFiniteSet(guards'[c]) /\ Cardinality(guards'[c]) = 0
        BY <2>1, <3>1, <3>2, <3>3, Zenon
    <3>5. OpenCalls(c)' = 0
        BY <3>4 DEF OpenCalls
    <3>6. /\ pc'[c] # "panic" /\ pc'[c] # "push_cli"
          /\ pc'[c] \notin {"h_drop", "drop"} /\ pc'[c] \notin {"h_pop", "h_drop"}
        BY <3>4, Zenon
    <3>7. num_cli'[c] = Cardinality(guards'[c]) + OpenCalls(c)'
        BY <3>4, <3>5
    <3> QED BY ZenonT(30), <3>4, <3>6, <3>7 DEF CpuInv
  <2>5. MutualExclusion'
      BY <2>2, Zenon DEF MutualExclusion
  <2> QED BY <2>1, <2>3, <2>4, <2>5, Zenon DEF LockInv
<1>4. ASSUME NEW l \in Locks, AcquireNoLapic(l) \/ ReleaseNoLapic(l) PROVE LockInv'
  <2>1. /\ lapic = "None" /\ lapic' = "None" /\ BootInv
        /\ \A c \in Cpus \ {Bsp} : guards'[c] = guards[c]
        /\ UNCHANGED <<locked, cpu, pc, op, target, FL_IF, num_cli, borrowed, in_trap, sti_done>>
      BY <1>4, Zenon DEF AcquireNoLapic, ReleaseNoLapic, LockInv, TypeOK, shared, call, clis, intr
  <2>2. BootInv'
      BY <2>1, Zenon DEF BootInv
  <2>3. \A c \in Cpus, k \in Locks : Owns(c, k)' => c = Bsp
      BY ZenonT(30), <2>1 DEF BootInv, Owns
  <2> QED BY ZenonT(30), <2>1, <2>2, <2>3 DEF LockInv, MutualExclusion
<1>5. ASSUME NEW c \in Cpus, CpuStep(c) PROVE LockInv'
  <2>1. lapic = "Some"
      BY <1>5, NoStepBeforeLapic, Zenon DEF LockInv, TypeOK
  <2>2. LocksInv /\ MutualExclusion /\ \A d \in Cpus : CpuInv(d)
      BY <2>1, Zenon DEF LockInv
  <2>3. Frame(c)
      BY <1>5, StepFrame, Zenon
  <2>4. CpuInv(c)'
      BY <1>1, <1>5, <2>1, <2>2, CpuInvStep, Zenon
  <2>5. \A d \in Cpus : CpuInv(d)'
      BY <2>2, <2>3, <2>4, OthersUnchanged, Zenon
  <2>6. LocksInv' /\ MutualExclusion'
      BY <1>5, <2>2, <2>3, <2>4, LocksStep, Zenon
  <2>7. lapic' = "Some"
      BY <2>1, <2>3, Zenon DEF Frame
  <2> QED BY <2>5, <2>6, <2>7, Zenon DEF LockInv
<1> QED
    BY <1>2, <1>3, <1>4, <1>5, Zenon DEF Next, CpuStep

(* The inductive invariant holds in every reachable state.                 *)
THEOREM LockInvariant == Spec => []LockInv
<1>1. Init => LockInv
    BY DEF Init, LockInv, BootInv, MutualExclusion, Owns
<1>2. Init => TypeOK
    BY AnyLockType DEF Init, TypeOK, Points
<1>3. TypeOK /\ LockInv /\ [Next]_vars => TypeOK' /\ LockInv'
    BY TypeStep, InvStep, Zenon
<1> QED BY <1>1, <1>2, <1>3, PTL DEF Spec

(* A lock never has two owners (SpinLock::acquire, SpinLock::release).     *)
THEOREM MutualExclusionHolds == Spec => []MutualExclusion
<1>1. LockInv => MutualExclusion
    BY Zenon DEF LockInv
<1> QED BY <1>1, LockInvariant, PTL

(* No assertion or panic of the lock code, and no RefCell borrow of        *)
(* my_cpu(), ever fails.                                                   *)
THEOREM NeverPanics == Spec => []NoPanic
<1>1. TypeOK /\ LockInv => NoPanic
    BY Zenon DEF TypeOK, LockInv, BootInv, CpuInv, NoPanic
<1> QED BY <1>1, LockInvariant, TypeCorrect, PTL

(* num_cli is the number of live guards plus the calls in progress.        *)
THEOREM NestingDepthExact == Spec => []NestingDepth
<1>1. LockInv => NestingDepth
    BY ZenonT(30) DEF LockInv, CpuInv, NestingDepth
<1> QED BY <1>1, LockInvariant, PTL

(* Outside the lock code interrupts are on exactly when the scheduler has  *)
(* enabled them and no guard is alive.                                     *)
THEOREM InterruptsAlwaysRestored == Spec => []InterruptsRestored
<1>1. LockInv => InterruptsRestored
  <2> SUFFICES ASSUME LockInv, NEW c \in Cpus, lapic = "Some", Running(c)
               PROVE  FL_IF[c] <=> sti_done[c] /\ guards[c] = {}
      BY Zenon DEF InterruptsRestored
  <2>1. CpuInv(c) /\ pc[c] = "run" /\ ~in_trap[c]
      BY Zenon DEF LockInv, Running
  <2>2. num_cli[c] = Cardinality(guards[c]) + 0 /\ IsFiniteSet(guards[c])
      BY <2>1 DEF CpuInv, OpenCalls
  <2>3. num_cli[c] = 0 <=> guards[c] = {}
    <3>1. Cardinality(guards[c]) \in Nat
        BY <2>2, FS_CardinalityType, Zenon
    <3>2. num_cli[c] = Cardinality(guards[c])
        BY <2>2, <3>1
    <3>3. Cardinality(guards[c]) = 0 <=> guards[c] = {}
        BY <2>2, FS_EmptySet, Zenon
    <3> QED BY <3>2, <3>3, Zenon
  <2> QED BY <2>1, <2>3, Zenon DEF CpuInv
<1> QED BY <1>1, LockInvariant, PTL

-----------------------------------------------------------------------------

\* The abstract owner of a lock is the CPU that owns it, -1 when none does.
LEMMA OwnerOfExact ==
    ASSUME MutualExclusion, NEW l \in Locks
    PROVE  /\ \A c \in Cpus : OwnerOf(l) = c <=> Owns(c, l)
           /\ OwnerOf(l) = -1 <=> \A c \in Cpus : ~Owns(c, l)
<1>1. -1 \notin Cpus
    OBVIOUS
<1>2. CASE \E c \in Cpus : Owns(c, l)
    BY <1>1, <1>2 DEF OwnerOf, MutualExclusion
<1>3. CASE ~\E c \in Cpus : Owns(c, l)
    BY <1>1, <1>3 DEF OwnerOf
<1> QED BY <1>2, <1>3

\* When nobody's ownership changes, neither does the abstract owner.
LEMMA OwnersSame ==
    ASSUME \A c \in Cpus, l \in Locks : Owns(c, l)' <=> Owns(c, l)
    PROVE  [l \in Locks |-> OwnerOf(l)]' = [l \in Locks |-> OwnerOf(l)]
<1> SUFFICES ASSUME NEW l \in Locks PROVE OwnerOf(l)' = OwnerOf(l)
    OBVIOUS
<1>1. \A c \in Cpus : Owns(c, l)' <=> Owns(c, l)
    OBVIOUS
<1> QED BY ZenonT(30), <1>1 DEF OwnerOf

\* A step of a CPU that neither wins a lock nor unlocks one, and is no
\* interrupt, changes neither the owners nor the handlers.
LEMMA StutterStep ==
    ASSUME TypeOK, NEW c \in Cpus, CpuInv(c), CpuInv(c)', Frame(c), CpuStep(c),
           ~CompareAndSwap(c), ~(ReleaseStores(c) /\ pc[c] = "unlock"), ~Trap(c), ~TrapRet(c)
    PROVE  UNCHANGED M!vars
<1>1. ASSUME \A l \in Locks : Owns(c, l)' <=> Owns(c, l), in_trap' = in_trap
      PROVE  UNCHANGED M!vars
  <2>1. \A d \in Cpus, l \in Locks : Owns(d, l)' <=> Owns(d, l)
      BY <1>1, OthersUnchanged
  <2>2. [l \in Locks |-> OwnerOf(l)]' = [l \in Locks |-> OwnerOf(l)]
      BY <2>1, OwnersSame
  <2> QED BY <1>1, <2>2 DEF M!vars
<1>2. in_trap' = in_trap
    BY ZenonT(30) DEF CpuStep, Step, StartAp, Sti, CliCall, AcquireCall, ReleaseCall, PushFlags, PushCli,
       Body, PopCli, PopReturn, HoldPushFlags, HoldPushCli, HoldLocked, HoldCpu, HoldPopCli,
       HoldReturn, StoreOwner, ReleaseStores, ReadFlags, Disable, Enable, intr
<1>3. CASE StoreOwner(c)
  <2>1. /\ pc[c] = "owner" /\ op[c] = "acquire" /\ pc'[c] = "run" /\ op'[c] = "none"
        /\ guards'[c] = guards[c] \cup {target[c]}
      BY <1>3 DEF StoreOwner, CpuInv, InHolding, At, Goto, TypeOK
  <2> QED BY <1>1, <1>2, <2>1 DEF Owns, InHolding
<1>4. CASE ReleaseStores(c)
  <2>1. /\ pc[c] = "clear" /\ pc'[c] = "unlock" /\ UNCHANGED <<guards, op, target>>
      BY <1>4 DEF ReleaseStores, At, Goto, TypeOK, call
  <2> QED BY <1>1, <1>2, <2>1 DEF Owns, InHolding
<1>5. ASSUME NEW t \in Locks, ReleaseCall(c, t) PROVE UNCHANGED M!vars
  <2>1. /\ t \in guards[c] /\ guards'[c] = guards[c] \ {t} /\ op[c] = "none"
        /\ op'[c] = "release" /\ target'[c] = t /\ pc'[c] = "hpush_flags"
      BY <1>5 DEF ReleaseCall, Running, CpuInv, Goto, TypeOK
  <2> QED BY ZenonT(30), <1>1, <1>2, <2>1 DEF Owns, InHolding
<1>6. CASE ~StoreOwner(c) /\ ~ReleaseStores(c) /\ ~\E t \in Locks : ReleaseCall(c, t)
  <2>1. \A l \in Locks : Owns(c, l)' <=> Owns(c, l)
      BY <1>6, QuietActions DEF CpuStep, Step
  <2> QED BY <1>1, <1>2, <2>1
<1> QED BY <1>3, <1>4, <1>5, <1>6

\* Winning the compare_and_swap is the abstract Take.
LEMMA TakeStep ==
    ASSUME TypeOK, LockInv, LockInv', lapic = "Some", NEW c \in Cpus, Frame(c), CompareAndSwap(c)
    PROVE  M!Take(c, target[c])
<1>1. PICK t \in Locks : t = target[c]
    BY DEF TypeOK
<1>2. /\ ~locked[t] /\ pc[c] = "cas" /\ op[c] = "acquire" /\ UNCHANGED <<guards, op, target, in_trap>>
      /\ pc'[c] = "owner" /\ ~in_trap[c] /\ MayTake(c, t)
    BY ZenonT(30), <1>1 DEF CompareAndSwap, LockInv, CpuInv, InHolding, At, Goto, TypeOK, call, intr
<1>3. \A d \in Cpus : ~Owns(d, t)
    BY ZenonT(30), <1>2 DEF LockInv, LocksInv
<1>4. MutualExclusion /\ MutualExclusion'
    BY DEF LockInv
<1>5. Owns(c, t)' /\ \A d \in Cpus, l \in Locks : l # t => (Owns(d, l)' <=> Owns(d, l))
  <2>1. Owns(c, t)' /\ \A l \in Locks : l # t => (Owns(c, l)' <=> Owns(c, l))
      BY <1>1, <1>2 DEF Owns, InHolding
  <2> QED BY <2>1, OthersUnchanged
<1>6. OwnerOf(t) = -1 /\ OwnerOf(t)' = c
  <2>1. OwnerOf(t) = -1
      BY <1>3, <1>4, OwnerOfExact
  <2>2. OwnerOf(t)' = c
      BY <1>4, <1>5 DEF OwnerOf, MutualExclusion
  <2> QED BY <2>1, <2>2
<1>7. \A l \in Locks : l # t => OwnerOf(l)' = OwnerOf(l)
    BY ZenonT(30), <1>5 DEF OwnerOf
<1>8. \A h \in Locks : OwnerOf(h) = c => <<h, t>> \in Nesting
  <2>1. \A h \in Locks : OwnerOf(h) = c => h \in guards[c]
      BY <1>2, <1>4, OwnerOfExact DEF Owns
  <2> QED BY <1>2, <2>1 DEF MayTake
<1>9. [l \in Locks |-> OwnerOf(l)]' = [[l \in Locks |-> OwnerOf(l)] EXCEPT ![t] = c]
    BY ZenonT(30), <1>6, <1>7
<1> QED BY ZenonT(30), <1>1, <1>2, <1>6, <1>8, <1>9 DEF M!Take

\* Clearing locked is the abstract Give.
LEMMA GiveStep ==
    ASSUME TypeOK, LockInv, LockInv', lapic = "Some", NEW c \in Cpus, Frame(c),
           ReleaseStores(c), pc[c] = "unlock"
    PROVE  M!Give(c, target[c])
<1>1. PICK t \in Locks : t = target[c]
    BY DEF TypeOK
<1>2. MutualExclusion /\ MutualExclusion' /\ CpuInv(c)
    BY DEF LockInv
<1>3. /\ op[c] = "release" /\ UNCHANGED <<guards, op, target, in_trap>> /\ t \notin guards[c]
      /\ pc'[c] = "pop" /\ ~in_trap[c]
    BY <1>1, <1>2 DEF ReleaseStores, CpuInv, InHolding, At, Goto, TypeOK, call, intr
<1>4. Owns(c, t) /\ ~Owns(c, t)' /\ \A l \in Locks : l # t => (Owns(c, l)' <=> Owns(c, l))
    BY ZenonT(30), <1>1, <1>3 DEF Owns, InHolding
<1>5. \A d \in Cpus : ~Owns(d, t)'
    BY <1>2, <1>4, OthersUnchanged DEF MutualExclusion
<1>6. OwnerOf(t) = c
    BY <1>2, <1>4, OwnerOfExact
<1>7. OwnerOf(t)' = -1
    BY <1>5 DEF OwnerOf
<1>8. \A l \in Locks : l # t => OwnerOf(l)' = OwnerOf(l)
  <2>1. \A d \in Cpus, l \in Locks : l # t => (Owns(d, l)' <=> Owns(d, l))
      BY <1>4, OthersUnchanged
  <2> QED BY ZenonT(30), <2>1 DEF OwnerOf
<1>9. [l \in Locks |-> OwnerOf(l)]' = [[l \in Locks |-> OwnerOf(l)] EXCEPT ![t] = -1]
    BY ZenonT(30), <1>7, <1>8
<1> QED BY <1>1, <1>3, <1>6, <1>9 DEF M!Give

\* An interrupt finds a CPU that owns nothing.
LEMMA HandlerStep ==
    ASSUME TypeOK, LockInv, lapic = "Some", NEW c \in Cpus, Frame(c), Trap(c) \/ TrapRet(c)
    PROVE  M!EnterHandler(c) \/ M!LeaveHandler(c)
<1>1. /\ CpuInv(c) /\ MutualExclusion
      /\ UNCHANGED <<guards, op, target, pc>>
    BY DEF LockInv, Trap, TrapRet, call
<1>2. [l \in Locks |-> OwnerOf(l)]' = [l \in Locks |-> OwnerOf(l)]
    BY <1>1, OwnersSame DEF Owns
<1>3. CASE Trap(c)
  <2>1. num_cli[c] = 0 /\ ~in_trap[c] /\ in_trap' = [in_trap EXCEPT ![c] = TRUE]
      BY <1>1, <1>3 DEF Trap, CpuInv
  <2>2. guards[c] = {} /\ OpenCalls(c) = 0
    <3>1. IsFiniteSet(guards[c]) /\ num_cli[c] = Cardinality(guards[c]) + OpenCalls(c)
        BY ZenonT(30), <1>1 DEF CpuInv
    <3>2. Cardinality(guards[c]) \in Nat
        BY <3>1, FS_CardinalityType
    <3>3. OpenCalls(c) \in Nat
        BY DEF OpenCalls
    <3>4. Cardinality(guards[c]) = 0 /\ OpenCalls(c) = 0
        BY <2>1, <3>1, <3>2, <3>3
    <3> QED BY <3>1, <3>4, FS_EmptySet
  <2>3. \A l \in Locks : ~Owns(c, l)
      BY <2>2 DEF Owns, OpenCalls, InHolding
  <2>4. \A l \in Locks : OwnerOf(l) # c
      BY <1>1, <2>3, OwnerOfExact
  <2>5. {d \in Cpus : in_trap[d]}' = {d \in Cpus : in_trap[d]} \cup {c}
      BY <2>1 DEF TypeOK
  <2> QED BY <1>2, <2>1, <2>4, <2>5 DEF M!EnterHandler
<1>4. CASE TrapRet(c)
  <2>1. in_trap[c] /\ in_trap' = [in_trap EXCEPT ![c] = FALSE]
      BY <1>4 DEF TrapRet
  <2>2. {d \in Cpus : in_trap[d]}' = {d \in Cpus : in_trap[d]} \ {c}
      BY <2>1 DEF TypeOK
  <2> QED BY <1>2, <2>1, <2>2 DEF M!LeaveHandler
<1> QED BY <1>3, <1>4

\* Before mp::init a guard of the boot CPU is ownership, without any store.
LEMMA BootStep ==
    ASSUME TypeOK, LockInv, LockInv', NEW t \in Locks, AcquireNoLapic(t) \/ ReleaseNoLapic(t)
    PROVE  M!Take(Bsp, t) \/ M!Give(Bsp, t)
<1>1. /\ BootInv /\ MutualExclusion /\ MutualExclusion' /\ ~in_trap[Bsp]
      /\ UNCHANGED <<pc, op, target, in_trap>> /\ BootInv'
    BY DEF AcquireNoLapic, ReleaseNoLapic, LockInv, BootInv, call, intr
<1>2. \A d \in Cpus, l \in Locks : /\ Owns(d, l) <=> d = Bsp /\ l \in guards[Bsp]
                                   /\ Owns(d, l)' <=> d = Bsp /\ l \in guards'[Bsp]
    BY ZenonT(30), <1>1 DEF BootInv, Owns
<1>3. \A l \in Locks : /\ OwnerOf(l) = IF l \in guards[Bsp] THEN Bsp ELSE -1
                       /\ OwnerOf(l)' = IF l \in guards'[Bsp] THEN Bsp ELSE -1
    BY ZenonT(30), <1>2 DEF OwnerOf
<1>4. CASE AcquireNoLapic(t)
  <2>1. guards'[Bsp] = guards[Bsp] \cup {t} /\ t \notin guards[Bsp] /\ MayTake(Bsp, t)
      BY ZenonT(30), <1>4 DEF AcquireNoLapic, TypeOK, MayTake
  <2>2. [l \in Locks |-> OwnerOf(l)]' = [[l \in Locks |-> OwnerOf(l)] EXCEPT ![t] = Bsp]
      BY ZenonT(30), <1>3, <2>1
  <2>3. \A h \in Locks : OwnerOf(h) = Bsp => <<h, t>> \in Nesting
      BY <1>3, <2>1 DEF MayTake
  <2> QED BY ZenonT(30), <1>1, <1>3, <2>1, <2>2, <2>3 DEF M!Take
<1>5. CASE ReleaseNoLapic(t)
  <2>1. guards'[Bsp] = guards[Bsp] \ {t} /\ t \in guards[Bsp]
      BY <1>5 DEF ReleaseNoLapic, TypeOK
  <2>2. [l \in Locks |-> OwnerOf(l)]' = [[l \in Locks |-> OwnerOf(l)] EXCEPT ![t] = -1]
      BY ZenonT(30), <1>3, <2>1
  <2> QED BY ZenonT(30), <1>1, <1>3, <2>1, <2>2 DEF M!Give
<1> QED BY <1>4, <1>5

(* The lock code implements the abstract mutex: every step is a Take, a    *)
(* Give, the start or the end of an interrupt handler, or a stutter.       *)
THEOREM Refinement == Spec => ImplementsMutex
<1>1. Init => M!Init
  <2> SUFFICES ASSUME Init PROVE M!Init
      OBVIOUS
  <2>1. \A c \in Cpus, l \in Locks : ~Owns(c, l)
      BY DEF Init, Owns
  <2>2. {c \in Cpus : in_trap[c]} = {}
      BY DEF Init
  <2> QED BY <2>1, <2>2 DEF M!Init, OwnerOf
<1>2. TypeOK /\ LockInv /\ LockInv' /\ [Next]_vars => [M!Next]_(M!vars)
  <2> SUFFICES ASSUME TypeOK, LockInv, LockInv', [Next]_vars PROVE [M!Next]_(M!vars)
      OBVIOUS
  <2>1. ASSUME UNCHANGED <<guards, op, target, pc, in_trap>> PROVE UNCHANGED M!vars
      BY <2>1 DEF M!vars, OwnerOf, Owns
  <2>2. CASE UNCHANGED vars
      BY <2>1, <2>2 DEF vars
  <2>3. CASE MpInit
      BY <2>1, <2>3 DEF MpInit, call, intr
  <2>4. ASSUME NEW t \in Locks, AcquireNoLapic(t) \/ ReleaseNoLapic(t) PROVE M!Next
      BY <2>4, BootStep DEF M!Next
  <2>5. ASSUME NEW c \in Cpus, CpuStep(c) PROVE [M!Next]_(M!vars)
    <3>1. lapic = "Some" /\ lapic' = "Some" /\ Frame(c)
        BY <2>5, NoStepBeforeLapic, StepFrame DEF LockInv, TypeOK, Frame
    <3>2. CpuInv(c) /\ CpuInv(c)' /\ target[c] \in Locks
        BY <3>1 DEF LockInv, TypeOK
    <3>3. CASE CompareAndSwap(c)
        BY <3>1, <3>2, <3>3, TakeStep DEF M!Next
    <3>4. CASE ReleaseStores(c) /\ pc[c] = "unlock"
        BY <3>1, <3>2, <3>4, GiveStep DEF M!Next
    <3>5. CASE Trap(c) \/ TrapRet(c)
        BY <3>1, <3>5, HandlerStep DEF M!Next
    <3>6. CASE /\ ~CompareAndSwap(c) /\ ~(ReleaseStores(c) /\ pc[c] = "unlock")
               /\ ~Trap(c) /\ ~TrapRet(c)
        BY <2>5, <3>1, <3>2, <3>6, StutterStep
    <3> QED BY <3>3, <3>4, <3>5, <3>6
  <2> QED BY <2>2, <2>3, <2>4, <2>5 DEF Next, CpuStep
<1> QED BY <1>1, <1>2, TypeCorrect, LockInvariant, PTL DEF Spec, ImplementsMutex, M!Spec

=============================================================================
