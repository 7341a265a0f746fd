----------------------------- MODULE KernelProofs -----------------------------
(***************************************************************************)
(* For any number of processors and any heap: init is dispatched once, no  *)
(* two processors share a stack, none can be interrupted before it is      *)
(* ready, and where the heap is large enough none panics. The inductive    *)
(* invariant has four parts beside the types. Starting is the protocol of  *)
(* start_others() with one processor at a time; Dispatch ties the two      *)
(* locks to the program points that hold them; Stacks keeps the pages in   *)
(* use and the free ones apart; Prepared orders GDT, IDT, page directory   *)
(* and sti. Untroubled adds what the panics depend on: how many pages are  *)
(* left after those that page tables and stacks have taken, and who holds  *)
(* a lock.                                                                 *)
(***************************************************************************)
EXTENDS Kernel, FiniteSetTheorems, TLAPS

\* The boot CPU is one of the CPUs.
LEMMA BspIsCpu == Bsp \in Cpus
BY KernelAssumption, Zenon DEF Cpus

\* The IPIs still on their way to one processor.
Fresh == <<"INIT", "STARTUP", "STARTUP">>
Trains == {<<>>, <<"STARTUP">>, <<"STARTUP", "STARTUP">>, Fresh}

Procs == [state : {"Unused", "Embryo", "Runnable", "Running"},
          pg_dir : Pages \cup {NoPage}, kernel_stack : Pages \cup {NoPage}]

Types ==
    /\ pc \in [Cpus -> Labels] /\ ipi \in [Cpus -> Trains] /\ idx \in Nat
    /\ free \in SUBSET Pages /\ mailbox \in Pages \cup {NoPage}
    /\ stack \in [Cpus -> Pages \cup {NoPage}]
    /\ pg_dir \in [Cpus -> {"none", "entry", "kernel", "init"}]
    /\ gdt \in [Cpus -> BOOLEAN] /\ idt \in [Cpus -> BOOLEAN]
    /\ started \in [Cpus -> BOOLEAN] /\ sti \in [Cpus -> BOOLEAN]
    /\ current_proc \in [Cpus -> {"None", "init"}]
    /\ ptable \in Cpus \cup {-1} /\ plock \in Cpus \cup {-1}
    /\ proc \in Procs

\* The statics, and the loop index of start_others().
Globals ==
    /\ lapic \in {"None", "Some"} /\ idx \in 0..NCpu
    /\ idt_filled \in BOOLEAN /\ kvm_built \in BOOLEAN /\ first_time \in BOOLEAN

\* Where only the boot CPU goes, and where only the others do, but for seginit and idt_init.
Init1ToOthers == {"init1", "kvmalloc", "mp_init", "trap_init", "others", "wait"}
InUserInit == {"ui_lock", "ui_alloc", "ui_put"}
Asleep == {"halted", "wait_sipi", "ap_start"}

\* start_others() and the processor it waits for: the others are halted, or up.
Starting ==
    /\ pc[Bsp] \notin Asleep \cup {"mp_enter"} /\ ipi[Bsp] = <<>>
    /\ pc[Bsp] = "wait" => idx \in Cpus \ {Bsp}
    /\ \A c \in Cpus \ {Bsp} :
         /\ pc[c] \notin Init1ToOthers \cup InUserInit
         /\ pc[c] = "halted" =>
              ~started[c] /\ (ipi[c] = <<>> \/ (ipi[c] = Fresh /\ idx = c /\ pc[Bsp] = "wait"))
         /\ pc[c] \in {"wait_sipi", "ap_start", "mp_enter", "seginit", "idt_init"} =>
              ~started[c] /\ idx = c /\ pc[Bsp] = "wait"
         /\ pc[c] # "halted" => ipi[c] # Fresh
         /\ c > idx \/ (c = idx /\ pc[Bsp] # "wait") => pc[c] = "halted" /\ ipi[c] = <<>>

\* With init current, in scheduler()'s body; and running init, past switch.
Entered == {"forkret", "todo", "user"}
InBody == {"switch_uvm", "set_running", "switch"} \cup Entered

\* The owners of PROC_TABLE and of the process, and where init is.
Dispatch ==
    /\ \A c \in Cpus :
         /\ pc[c] \in InBody \cup {"pick", "ui_alloc", "ui_put"} => ptable = c
         /\ current_proc[c] # "None" =>
              current_proc[c] = "init" /\ ptable = c /\ pc[c] \in InBody \cup {"panic"}
         /\ pc[c] \in InBody => current_proc[c] = "init"
         /\ pc[c] \in Entered <=> plock = c
         /\ pc[c] \in Entered \cup {"switch"} => proc.state = "Running"
    /\ runnable \in {<<>>, <<"init">>}
    /\ runnable # <<>> => proc.state = "Runnable"
    /\ runnable # <<>> \/ pc[Bsp] \in Init1ToOthers \cup InUserInit \cup {"seginit"} =>
         \A c \in Cpus : current_proc[c] = "None"
    /\ pc[Bsp] \in Init1ToOthers \cup InUserInit \cup {"seginit"} => runnable = <<>>

\* Who has which page. Until init2 all of them are low ones.
Stacks ==
    /\ \A c, d \in Cpus : c # d /\ stack[c] # NoPage => stack[c] # stack[d]
    /\ mailbox \notin free /\ proc.kernel_stack \notin free
    /\ \A c \in Cpus :
         /\ stack[c] \notin free
         /\ pc[c] \notin Entered => stack[c] = NoPage \/ stack[c] # proc.kernel_stack
         /\ pc[c] \in Asleep => stack[c] = NoPage
    /\ pc[Bsp] = "wait" /\ pc[idx] \in Asleep =>
         mailbox # NoPage /\ \A c \in Cpus : stack[c] # mailbox
    /\ pc[Bsp] \in Init1ToOthers \cup {"seginit"} =>
         /\ free \subseteq LowPages /\ mailbox \in LowPages \cup {NoPage}
         /\ \A c \in Cpus : stack[c] \in LowPages \cup {NoPage}
    /\ pc[Bsp] \in Init1ToOthers \cup {"seginit", "ui_lock", "ui_alloc"} =>
         proc.kernel_stack = NoPage
    /\ pc[Bsp] = "init1" => mailbox = NoPage /\ \A c \in Cpus : stack[c] = NoPage

\* The page directory of init, first an empty one, is neither free nor a stack.
Directory ==
    /\ proc.pg_dir \notin free
    /\ proc.pg_dir # NoPage =>
         /\ proc.pg_dir # proc.kernel_stack /\ proc.pg_dir # mailbox
         /\ \A c \in Cpus : stack[c] # proc.pg_dir
    /\ pc[Bsp] = "ui_put" => proc.pg_dir # NoPage
    /\ pc[Bsp] \in Init1ToOthers \cup {"seginit", "ui_lock", "ui_alloc"} => proc.pg_dir = NoPage

\* What a processor has loaded, and that it can reach its local APIC by then.
Prepared ==
    /\ pc[Bsp] \in {"others", "wait", "idt_init"} \cup InUserInit => idt_filled
    /\ pc[Bsp] \in {"trap_init", "others", "wait"} \cup InUserInit => gdt[Bsp]
    /\ \A c \in Cpus :
         /\ pc[c] \in Asleep \cup {"mp_enter"} => ~gdt[c]
         /\ pc[c] = "idt_init" => gdt[c]
         /\ pc[c] = "sti" => idt[c]
         /\ sti[c] => idt[c]
         /\ idt[c] => gdt[c] /\ idt_filled
         /\ gdt[c] => MyCpuOk(c)

Inv == Types /\ Globals /\ Starting /\ Dispatch /\ Stacks /\ Directory /\ Prepared

-----------------------------------------------------------------------------
(* Types *)

\* What is left of the IPIs after a delivery, and which one was delivered.
LEMMA TrainTail ==
    ASSUME NEW t \in Trains, t # <<>>
    PROVE  /\ Tail(t) \in Trains \ {Fresh}
           /\ t = Fresh => Head(t) = "INIT" /\ Tail(t) # <<>>
           /\ t # Fresh => Head(t) = "STARTUP"
<1>1. CASE t = Fresh
  BY <1>1 DEF Trains, Fresh
<1>2. CASE t = <<"STARTUP">>
  BY <1>2 DEF Trains, Fresh
<1>3. CASE t = <<"STARTUP", "STARTUP">>
  BY <1>3 DEF Trains, Fresh
<1>. QED BY <1>1, <1>2, <1>3, Zenon DEF Trains

\* alloc_proc takes two free pages, or panics.
LEMMA AllocProcTakes ==
    ASSUME AllocProc
    PROVE  \/ OutOfPages(2) /\ pc' = [pc EXCEPT ![Bsp] = "panic"] /\ UNCHANGED <<free, proc>>
           \/ /\ ~OutOfPages(2) /\ pc' = [pc EXCEPT ![Bsp] = "ui_put"]
              /\ \E d \in free : \E p \in free \ {d} :
                   /\ free' = free \ {d, p}
                   /\ proc' = [state |-> "Embryo", pg_dir |-> d, kernel_stack |-> p]
BY Zenon DEF AllocProc, Goto

\* user_init takes its pages from the free ones and gives the empty directory back, or
\* panics.
LEMMA UserInitTakes ==
    ASSUME Types, UserInit
    PROVE  \/ /\ plock = Bsp \/ OutOfPages(KvmPages + 1)
              /\ pc' = [pc EXCEPT ![Bsp] = "panic"] /\ UNCHANGED <<free, ptable, runnable, proc>>
           \/ /\ plock # Bsp /\ pc' = [pc EXCEPT ![Bsp] = "idt_init"] /\ ptable' = -1
              /\ runnable' = Append(runnable, "init")
              /\ \E d \in free :
                   /\ free' \subseteq (free \ {d}) \cup {proc.pg_dir}
                   /\ proc' \in Procs /\ proc'.state = "Runnable"
                   /\ proc'.pg_dir = d /\ proc'.kernel_stack = proc.kernel_stack
<1>1. CASE plock = Bsp \/ OutOfPages(KvmPages + 1)
  BY <1>1, Zenon DEF UserInit, Goto
<1>2. CASE ~(plock = Bsp \/ OutOfPages(KvmPages + 1))
  <2>1. PICK S \in SUBSET free :
           /\ \E T : free' = ((free \ S) \cup {proc.pg_dir}) \ T
           /\ \E d \in S : proc' = [proc EXCEPT !.state = "Runnable", !.pg_dir = d]
    BY <1>2, Zenon DEF UserInit, Taken
  <2>2. PICK d \in S : proc' = [proc EXCEPT !.state = "Runnable", !.pg_dir = d]
    BY <2>1, Zenon
  <2>3. d \in free /\ free' \subseteq (free \ {d}) \cup {proc.pg_dir}
    BY <2>1, <2>2, Zenon
  <2>4. /\ proc' \in Procs /\ proc'.state = "Runnable"
        /\ proc'.pg_dir = d /\ proc'.kernel_stack = proc.kernel_stack
    <3>1. proc \in Procs /\ d \in Pages
      BY <2>3, Zenon DEF Types
    <3>. QED BY <2>2, <3>1, Zenon DEF Procs
  <2>5. /\ plock # Bsp /\ pc' = [pc EXCEPT ![Bsp] = "idt_init"] /\ ptable' = -1
        /\ runnable' = Append(runnable, "init")
    BY <1>2, Zenon DEF UserInit, Goto
  <2>. QED BY <2>3, <2>4, <2>5, Zenon
<1>. QED BY <1>1, <1>2, Zenon

\* Every step keeps the types.
LEMMA TypesStep ==
    ASSUME Types, Dispatch, Directory, Next PROVE Types'
<1>. USE BspIsCpu DEF Types, global, hw, others, sched, Goto, Labels
<1>1. CASE Init1
  BY <1>1, Zenon DEF Init1, Pages
<1>2. CASE Kvmalloc
  <2>1. free' \in SUBSET Pages
    BY <1>2, Zenon DEF Kvmalloc
  <2>. QED BY <1>2, <2>1, Zenon DEF Kvmalloc
<1>3. CASE MpInit
  BY <1>3, Zenon DEF MpInit
<1>4. CASE TrapInit
  BY <1>4, Zenon DEF TrapInit
<1>5. CASE StartAp
  <2>1. CASE idx = Bsp
    BY <1>5, <2>1 DEF StartAp
  <2>2. CASE idx # Bsp /\ free = {}
    BY <1>5, <2>2 DEF StartAp
  <2>3. CASE idx # Bsp /\ free # {}
    <3>1. free' \in SUBSET Pages /\ mailbox' \in Pages
      BY <1>5, <2>3, Zenon DEF StartAp
    <3>2. ipi' = [ipi EXCEPT ![idx] = Fresh] /\ pc' = [pc EXCEPT ![Bsp] = "wait"]
      BY <1>5, <2>3, Zenon DEF StartAp, Fresh
    <3>3. ipi' \in [Cpus -> Trains] /\ pc' \in [Cpus -> Labels]
      BY <3>2, Zenon DEF Trains
    <3>. QED BY <1>5, <2>3, <3>1, <3>3, Zenon DEF StartAp
  <2>. QED BY <2>1, <2>2, <2>3, Zenon
<1>6. CASE WaitStarted
  BY <1>6 DEF WaitStarted
<1>7. CASE Init2
  BY <1>7, Zenon DEF Init2, Pages
<1>8. CASE AllocProc
  <2>1. free' \in SUBSET Pages /\ proc' \in Procs
    <3>1. CASE UNCHANGED <<free, proc>>
      BY <3>1, Zenon
    <3>2. ASSUME NEW d \in free, NEW p \in free \ {d}, free' = free \ {d, p},
                 proc' = [state |-> "Embryo", pg_dir |-> d, kernel_stack |-> p]
          PROVE  free' \in SUBSET Pages /\ proc' \in Procs
      BY <3>2 DEF Procs
    <3>. QED BY <1>8, <3>1, <3>2, AllocProcTakes, Zenon
  <2>2. UNCHANGED <<ipi, idx, mailbox, stack, pg_dir, gdt, idt, started, sti, current_proc,
                    ptable, plock>>
    BY <1>8, Zenon DEF AllocProc
  <2>3. pc' \in [Cpus -> Labels]
    BY <1>8, AllocProcTakes, Zenon
  <2>. QED BY <2>1, <2>2, <2>3, Zenon
<1>9. CASE UserInit
  <2>1. pc[Bsp] = "ui_put"
    BY <1>9, Zenon DEF UserInit
  <2>2. proc.pg_dir \in Pages
    BY <2>1, Zenon DEF Directory, Procs
  <2>3. free' \in SUBSET Pages /\ proc' \in Procs /\ ptable' \in Cpus \cup {-1}
    BY <1>9, <2>2, UserInitTakes, Zenon
  <2>4. UNCHANGED <<ipi, idx, mailbox, stack, pg_dir, gdt, idt, started, sti, current_proc,
                    plock>>
    BY <1>9, Zenon DEF UserInit
  <2>5. pc' \in [Cpus -> Labels]
    BY <1>9, UserInitTakes, Zenon
  <2>. QED BY <2>3, <2>4, <2>5, Zenon
<1>10. ASSUME NEW c \in Cpus, Deliver(c) PROVE Types'
  BY <1>10, TrainTail, Zenon DEF Deliver
<1>11. ASSUME NEW c \in Cpus, ApStart(c) PROVE Types'
  BY <1>11, Zenon DEF ApStart
<1>12. ASSUME NEW c \in Cpus, MpEnter(c) PROVE Types'
  BY <1>12, Zenon DEF MpEnter
<1>13. ASSUME NEW c \in Cpus, Seginit(c) PROVE Types'
  <2>1. pc' \in [Cpus -> Labels]
    BY <1>13 DEF Seginit
  <2>2. gdt' \in [Cpus -> BOOLEAN]
    BY <1>13, Zenon DEF Seginit
  <2>. QED BY <1>13, <2>1, <2>2, Zenon DEF Seginit
<1>14. ASSUME NEW c \in Cpus, MpMain(c) PROVE Types'
  <2>1. pc' \in [Cpus -> Labels]
    BY <1>14 DEF MpMain
  <2>2. idt' \in [Cpus -> BOOLEAN] /\ started' \in [Cpus -> BOOLEAN]
    BY <1>14, Zenon DEF MpMain
  <2>. QED BY <1>14, <2>1, <2>2, Zenon DEF MpMain
<1>15. ASSUME NEW c \in Cpus, LockPtable(c) PROVE Types'
  BY <1>15, Zenon DEF LockPtable
<1>16. ASSUME NEW c \in Cpus, Sti(c) PROVE Types'
  BY <1>16, Zenon DEF Sti
<1>17. ASSUME NEW c \in Cpus, ClearCurrent(c) PROVE Types'
  BY <1>17, Zenon DEF ClearCurrent
<1>18. ASSUME NEW c \in Cpus, GetRunnable(c) PROVE Types'
  <2>1. runnable = <<>> \/ Head(runnable) = "init"
    BY DEF Dispatch
  <2>. QED BY <1>18, <2>1 DEF GetRunnable
<1>19. ASSUME NEW c \in Cpus, SwitchUvm(c) PROVE Types'
  BY <1>19 DEF SwitchUvm
<1>20. ASSUME NEW c \in Cpus, SetRunning(c) PROVE Types'
  BY <1>20 DEF SetRunning, Procs
<1>21. ASSUME NEW c \in Cpus, Switch(c) PROVE Types'
  BY <1>21 DEF Switch, Procs
<1>22. ASSUME NEW c \in Cpus, Forkret(c) PROVE Types'
  BY <1>22, Zenon DEF Forkret
<1>. QED
  BY <1>1, <1>2, <1>3, <1>4, <1>5, <1>6, <1>7, <1>8, <1>9, <1>10, <1>11, <1>12, <1>13,
     <1>14, <1>15, <1>16, <1>17, <1>18, <1>19, <1>20, <1>21, <1>22, Zenon
  DEF Next, BootStep, ApStep, CpuStep

\* Every step keeps the statics' types, and the loop of start_others() ends at the last CPU.
LEMMA GlobalsStep ==
    ASSUME Globals, Starting, Next PROVE Globals'
<1>. USE DEF Globals, global, others, sched
<1>1. CASE StartAp
  <2>1. UNCHANGED <<lapic, idt_filled, kvm_built, first_time>> /\ idx < NCpu
    BY <1>1, Zenon DEF StartAp
  <2>2. idx' = idx \/ idx' = idx + 1
    BY <1>1, Zenon DEF StartAp
  <2>3. idx' \in 0..NCpu
    BY <2>1, <2>2, KernelAssumption
  <2>. QED BY <2>1, <2>3, Zenon
<1>2. CASE WaitStarted
  <2>1. UNCHANGED <<lapic, idt_filled, kvm_built, first_time>> /\ idx' = idx + 1
    BY <1>2, Zenon DEF WaitStarted
  <2>2. idx \in Cpus
    BY <1>2, Zenon DEF WaitStarted, Starting
  <2>3. idx' \in 0..NCpu
    BY <2>1, <2>2, KernelAssumption DEF Cpus
  <2>. QED BY <2>1, <2>3, Zenon
<1>3. CASE BootStep /\ ~StartAp /\ ~WaitStarted
  BY <1>3, Zenon DEF BootStep, Init1, Kvmalloc, MpInit, TrapInit, Init2, AllocProc, UserInit
<1>4. ASSUME NEW c \in Cpus, ApStep(c) PROVE Globals'
  BY <1>4, Zenon DEF ApStep, Deliver, ApStart, MpEnter
<1>5. ASSUME NEW c \in Cpus, CpuStep(c) PROVE Globals'
  BY <1>5, Zenon DEF CpuStep, Seginit, MpMain, LockPtable, Sti, ClearCurrent, GetRunnable,
     SwitchUvm, SetRunning, Switch, Forkret
<1>. QED BY <1>1, <1>2, <1>3, <1>4, <1>5, Zenon DEF Next

-----------------------------------------------------------------------------
(* The start of the processors *)

\* One processor at a time is started.
LEMMA StartingStep ==
    ASSUME Types, Starting, Next PROVE Starting'
<1>. USE BspIsCpu DEF Types, global, hw, others, sched, Goto, Starting, Asleep, Init1ToOthers, InUserInit
<1>1. CASE Init1
  BY <1>1 DEF Init1
<1>2. CASE Kvmalloc
  BY <1>2 DEF Kvmalloc
<1>3. CASE MpInit
  BY <1>3 DEF MpInit
<1>4. CASE TrapInit
  BY <1>4 DEF TrapInit
<1>5. CASE StartAp
  <2>1. pc[Bsp] = "others" /\ idx \in Cpus /\ UNCHANGED started
    <3>1. pc[Bsp] = "others" /\ idx < NCpu /\ UNCHANGED started
      BY <1>5, Zenon DEF StartAp
    <3>. QED BY <3>1, KernelAssumption DEF Cpus
  <2>2. CASE idx = Bsp
    <3>1. idx' = idx + 1 /\ UNCHANGED <<pc, ipi>>
      BY <1>5, <2>2, Zenon DEF StartAp
    <3>2. \A c \in Cpus \ {Bsp} : c > idx' \/ c = idx' => c > idx
      BY <2>1, <2>2, <3>1 DEF Cpus
    <3>. QED BY <2>1, <3>1, <3>2, Zenon
  <2>3. CASE idx # Bsp /\ free = {}
    BY <1>5, <2>1, <2>3 DEF StartAp
  <2>4. CASE idx # Bsp /\ free # {}
    <3>1. /\ ipi' = [ipi EXCEPT ![idx] = Fresh] /\ pc' = [pc EXCEPT ![Bsp] = "wait"]
          /\ idx' = idx
      BY <1>5, <2>4, Zenon DEF StartAp, Fresh
    <3>2. pc[idx] = "halted" /\ ~started[idx]
      BY <2>1, <2>4, Zenon
    <3>3. ~(idx > idx)
      BY <2>1 DEF Cpus
    <3>. QED BY <2>1, <2>4, <3>1, <3>2, <3>3
  <2>. QED BY <2>2, <2>3, <2>4, Zenon
<1>6. CASE WaitStarted
  BY <1>6 DEF WaitStarted, Cpus
<1>7. CASE Init2
  BY <1>7 DEF Init2
<1>8. CASE AllocProc
  BY <1>8 DEF AllocProc
<1>9. CASE UserInit
  <2>1. \E l \in {"panic", "idt_init"} : pc' = [pc EXCEPT ![Bsp] = l]
    BY <1>9, UserInitTakes, Zenon
  <2>2. pc[Bsp] = "ui_put" /\ UNCHANGED <<ipi, idx, started>>
    BY <1>9, Zenon DEF UserInit
  <2>. QED BY <2>1, <2>2
<1>10. ASSUME NEW c \in Cpus, Deliver(c) PROVE Starting'
  <2>1. c # Bsp /\ ipi[c] # <<>> /\ ipi' = [ipi EXCEPT ![c] = Tail(ipi[c])]
    BY <1>10, Zenon DEF Deliver
  <2>2. Tail(ipi[c]) # Fresh
    BY <2>1, TrainTail, Zenon
  <2>3. UNCHANGED <<idx, started>>
    BY <1>10, Zenon DEF Deliver
  <2>4. CASE ipi[c] = Fresh
    <3>1. pc[c] = "halted" /\ ~started[c] /\ idx = c /\ pc[Bsp] = "wait"
      BY <2>1, <2>4, Zenon
    <3>2. pc' = [pc EXCEPT ![c] = "wait_sipi"]
      BY <1>10, <2>4, TrainTail, Zenon DEF Deliver
    <3>3. ~(c > idx)
      BY <3>1 DEF Cpus
    <3>. QED BY <2>1, <2>2, <2>3, <3>1, <3>2, <3>3
  <2>5. CASE ipi[c] # Fresh
    <3>1. pc[c] # "halted"
      BY <2>1, <2>5, Zenon
    <3>2. Head(ipi[c]) = "STARTUP"
      BY <2>1, <2>5, TrainTail, Zenon
    <3>3. pc' = pc \/ (pc[c] = "wait_sipi" /\ pc' = [pc EXCEPT ![c] = "ap_start"])
      BY <1>10, <3>2, Zenon DEF Deliver
    <3>. QED BY <2>1, <2>2, <2>3, <3>1, <3>3
  <2>. QED BY <2>4, <2>5, Zenon
<1>11. ASSUME NEW c \in Cpus, ApStart(c) PROVE Starting'
  BY <1>11 DEF ApStart
<1>12. ASSUME NEW c \in Cpus, MpEnter(c) PROVE Starting'
  BY <1>12 DEF MpEnter
<1>13. ASSUME NEW c \in Cpus, Seginit(c) PROVE Starting'
  BY <1>13 DEF Seginit
<1>14. ASSUME NEW c \in Cpus, MpMain(c) PROVE Starting'
  BY <1>14 DEF MpMain
<1>15. ASSUME NEW c \in Cpus, LockPtable(c) PROVE Starting'
  BY <1>15 DEF LockPtable
<1>16. ASSUME NEW c \in Cpus, Sti(c) PROVE Starting'
  BY <1>16 DEF Sti
<1>17. ASSUME NEW c \in Cpus, ClearCurrent(c) PROVE Starting'
  BY <1>17 DEF ClearCurrent
<1>18. ASSUME NEW c \in Cpus, GetRunnable(c) PROVE Starting'
  BY <1>18 DEF GetRunnable
<1>19. ASSUME NEW c \in Cpus, SwitchUvm(c) PROVE Starting'
  BY <1>19 DEF SwitchUvm
<1>20. ASSUME NEW c \in Cpus, SetRunning(c) PROVE Starting'
  BY <1>20 DEF SetRunning
<1>21. ASSUME NEW c \in Cpus, Switch(c) PROVE Starting'
  BY <1>21 DEF Switch
<1>22. ASSUME NEW c \in Cpus, Forkret(c) PROVE Starting'
  BY <1>22 DEF Forkret
<1>. QED
  BY <1>1, <1>2, <1>3, <1>4, <1>5, <1>6, <1>7, <1>8, <1>9, <1>10, <1>11, <1>12, <1>13,
     <1>14, <1>15, <1>16, <1>17, <1>18, <1>19, <1>20, <1>21, <1>22, Zenon
  DEF Next, BootStep, ApStep, CpuStep

\* An IPI moves only a processor that start_others() is starting.
LEMMA DeliverMoves ==
    ASSUME Types, Starting, NEW c \in Cpus, Deliver(c)
    PROVE  /\ c # Bsp
           /\ pc' = pc \/ \E l \in Asleep : pc[c] \in Asleep /\ pc' = [pc EXCEPT ![c] = l]
<1>1. c # Bsp /\ ipi[c] \in Trains /\ ipi[c] # <<>>
  BY Zenon DEF Deliver, Starting, Types
<1>2. CASE ipi[c] = Fresh
  <2>1. pc[c] = "halted"
    BY <1>1, <1>2, Zenon DEF Starting
  <2>2. pc' = [pc EXCEPT ![c] = "wait_sipi"]
    BY <1>1, <1>2, TrainTail, Zenon DEF Deliver
  <2>. QED BY <1>1, <2>1, <2>2, Zenon DEF Asleep
<1>3. CASE ipi[c] # Fresh
  <2>1. Head(ipi[c]) = "STARTUP"
    BY <1>1, <1>3, TrainTail, Zenon
  <2>2. pc' = pc \/ (pc[c] = "wait_sipi" /\ pc' = [pc EXCEPT ![c] = "ap_start"])
    BY <2>1, Zenon DEF Deliver
  <2>. QED BY <1>1, <2>2, Zenon DEF Asleep
<1>. QED BY <1>2, <1>3, Zenon

-----------------------------------------------------------------------------

\* The locks keep init in one place.
LEMMA DispatchStep ==
    ASSUME Types, Starting, Dispatch, Next PROVE Dispatch'
<1>. USE BspIsCpu DEF Types, global, hw, others, sched, Goto, Starting, Dispatch, Entered, InBody, Asleep, Init1ToOthers, InUserInit
<1>1. CASE Init1
  BY <1>1 DEF Init1
<1>2. CASE Kvmalloc
  BY <1>2 DEF Kvmalloc
<1>3. CASE MpInit
  BY <1>3 DEF MpInit
<1>4. CASE TrapInit
  BY <1>4 DEF TrapInit
<1>5. CASE StartAp
  BY <1>5 DEF StartAp
<1>6. CASE WaitStarted
  BY <1>6 DEF WaitStarted
<1>7. CASE Init2
  BY <1>7 DEF Init2
<1>8. CASE AllocProc
  BY <1>8 DEF AllocProc
<1>9. CASE UserInit
  <2>1. pc[Bsp] = "ui_put" /\ UNCHANGED <<current_proc, plock>>
    BY <1>9, Zenon DEF UserInit
  <2>2. CASE pc' = [pc EXCEPT ![Bsp] = "panic"] /\ UNCHANGED <<ptable, runnable, proc>>
    BY <2>1, <2>2
  <2>3. CASE /\ pc' = [pc EXCEPT ![Bsp] = "idt_init"] /\ ptable' = -1
             /\ runnable' = Append(runnable, "init") /\ proc'.state = "Runnable"
    <3>1. runnable' = <<"init">>
      BY <2>1, <2>3
    <3>2. ptable = Bsp /\ -1 \notin Cpus
      BY <2>1 DEF Cpus
    <3>. QED BY <2>1, <2>3, <3>1, <3>2
  <2>. HIDE DEF Types, Dispatch
  <2>. QED BY <1>9, <2>2, <2>3, UserInitTakes, Zenon
<1>10. ASSUME NEW c \in Cpus, Deliver(c) PROVE Dispatch'
  <2>1. UNCHANGED <<current_proc, ptable, plock, runnable, proc>>
    BY <1>10, Zenon DEF Deliver
  <2>. QED BY <1>10, <2>1, DeliverMoves
<1>11. ASSUME NEW c \in Cpus, ApStart(c) PROVE Dispatch'
  BY <1>11 DEF ApStart
<1>12. ASSUME NEW c \in Cpus, MpEnter(c) PROVE Dispatch'
  BY <1>12 DEF MpEnter
<1>13. ASSUME NEW c \in Cpus, Seginit(c) PROVE Dispatch'
  BY <1>13 DEF Seginit
<1>14. ASSUME NEW c \in Cpus, MpMain(c) PROVE Dispatch'
  BY <1>14 DEF MpMain
<1>15. ASSUME NEW c \in Cpus, LockPtable(c) PROVE Dispatch'
  <2>1. ptable' = c /\ UNCHANGED <<current_proc, plock, runnable, proc>>
    BY <1>15, Zenon DEF LockPtable
  <2>2. \A d \in Cpus \ {c} : ptable # d
    BY <1>15 DEF LockPtable, Cpus
  <2>3. \/ pc[c] \in {"ui_lock", "lock"} /\ pc' = [pc EXCEPT ![c] = "panic"]
        \/ pc[c] = "lock" /\ pc' = [pc EXCEPT ![c] = "pick"]
        \/ pc[c] = "ui_lock" /\ pc' = [pc EXCEPT ![c] = "ui_alloc"]
    BY <1>15, Zenon DEF LockPtable
  <2>. QED BY <2>1, <2>2, <2>3
<1>16. ASSUME NEW c \in Cpus, Sti(c) PROVE Dispatch'
  BY <1>16 DEF Sti
<1>17. ASSUME NEW c \in Cpus, ClearCurrent(c) PROVE Dispatch'
  BY <1>17 DEF ClearCurrent
<1>18. ASSUME NEW c \in Cpus, GetRunnable(c) PROVE Dispatch'
  <2>1. CASE runnable = <<>>
    BY <1>18, <2>1 DEF GetRunnable
  <2>2. CASE runnable # <<>>
    <3>1. runnable = <<"init">>
      BY <2>2, Zenon
    <3>2. Head(runnable) = "init" /\ Tail(runnable) = <<>>
      BY <3>1
    <3>3. /\ pc[c] = "pick" /\ pc' = [pc EXCEPT ![c] = "switch_uvm"]
          /\ current_proc' = [current_proc EXCEPT ![c] = "init"]
          /\ runnable' = <<>> /\ UNCHANGED <<ptable, plock, proc>>
      BY <1>18, <2>2, <3>2, Zenon DEF GetRunnable
    <3>4. ptable = c /\ \A d \in Cpus : current_proc[d] = "None"
      BY <2>2, <3>3, Zenon
    <3>5. pc[Bsp] \notin Init1ToOthers \cup InUserInit \cup {"seginit"}
      BY <2>2, Zenon
    <3>. QED BY <3>3, <3>4, <3>5
  <2>. QED BY <2>1, <2>2, Zenon
<1>19. ASSUME NEW c \in Cpus, SwitchUvm(c) PROVE Dispatch'
  BY <1>19 DEF SwitchUvm
<1>20. ASSUME NEW c \in Cpus, SetRunning(c) PROVE Dispatch'
  <2>1. pc[c] = "set_running" /\ UNCHANGED <<current_proc, ptable, plock, runnable>>
    BY <1>20, Zenon DEF SetRunning
  <2>2. runnable = <<>>
    BY <2>1, Zenon
  <2>3. \/ pc' = [pc EXCEPT ![c] = "panic"] /\ proc' = proc
        \/ pc' = [pc EXCEPT ![c] = "switch"] /\ proc'.state = "Running"
    BY <1>20 DEF SetRunning, Procs
  <2>. QED BY <2>1, <2>2, <2>3
<1>21. ASSUME NEW c \in Cpus, Switch(c) PROVE Dispatch'
  <2>1. pc[c] = "switch" /\ plock # c
    BY <1>21, Zenon DEF Switch
  <2>2. plock = -1 /\ plock' = c /\ pc' = [pc EXCEPT ![c] = "forkret"]
    BY <1>21, <2>1, Zenon DEF Switch
  <2>3. UNCHANGED <<current_proc, ptable, runnable, proc>>
    BY <1>21, Zenon DEF Switch
  <2>4. current_proc[c] = "init" /\ ptable = c /\ runnable = <<>> /\ -1 \notin Cpus
    BY <2>1 DEF Cpus
  <2>. QED BY <2>1, <2>2, <2>3, <2>4
<1>22. ASSUME NEW c \in Cpus, Forkret(c) PROVE Dispatch'
  BY <1>22 DEF Forkret
<1>. QED
  BY <1>1, <1>2, <1>3, <1>4, <1>5, <1>6, <1>7, <1>8, <1>9, <1>10, <1>11, <1>12, <1>13,
     <1>14, <1>15, <1>16, <1>17, <1>18, <1>19, <1>20, <1>21, <1>22, Zenon
  DEF Next, BootStep, ApStep, CpuStep

\* A step that touches no page keeps them apart, unless it puts a processor to sleep, takes
\* one out of init, or takes the boot CPU back.
LEMMA PagesStay ==
    ASSUME Starting, Stacks,
           \A d \in Cpus : pc'[d] \in Asleep => pc[d] \in Asleep,
           \A d \in Cpus : pc[d] \in Entered => pc'[d] \in Entered,
           pc'[Bsp] \in Init1ToOthers \cup {"seginit", "ui_lock", "ui_alloc"} => pc'[Bsp] = pc[Bsp],
           UNCHANGED <<free, mailbox, stack, idx>>,
           proc'.kernel_stack = proc.kernel_stack
    PROVE  Stacks'
<1>1. pc'[Bsp] = "wait" => pc[Bsp] = "wait" /\ idx \in Cpus
  BY Zenon DEF Starting, Init1ToOthers
<1>. QED BY <1>1, Zenon DEF Stacks, Init1ToOthers

\* The same for a step of one processor to another point.
LEMMA NoPageMoves ==
    ASSUME Types, Starting, Stacks, NEW c \in Cpus, NEW l, pc' = [pc EXCEPT ![c] = l],
           l \notin Asleep, pc[c] \in Entered => l \in Entered,
           c = Bsp => l \notin Init1ToOthers \cup {"seginit", "ui_lock", "ui_alloc"},
           UNCHANGED <<free, mailbox, stack, idx>>,
           proc'.kernel_stack = proc.kernel_stack
    PROVE  Stacks'
<1>1. \A d \in Cpus : pc'[d] \in Asleep => pc[d] \in Asleep
  BY Zenon DEF Types
<1>2. \A d \in Cpus : pc[d] \in Entered => pc'[d] \in Entered
  BY Zenon DEF Types
<1>3. pc'[Bsp] \in Init1ToOthers \cup {"seginit", "ui_lock", "ui_alloc"} => pc'[Bsp] = pc[Bsp]
  <2>1. c # Bsp => pc'[Bsp] = pc[Bsp]
    BY BspIsCpu, Zenon DEF Types
  <2>2. c = Bsp => pc'[Bsp] = l
    BY BspIsCpu DEF Types
  <2>. QED BY <2>1, <2>2, Zenon
<1>. QED BY <1>1, <1>2, <1>3, PagesStay, Zenon

\* No page is used twice.
LEMMA StacksStep ==
    ASSUME Types, Starting, Dispatch, Stacks, Directory, Next PROVE Stacks'
<1>. USE BspIsCpu DEF Types, global, hw, others, sched, Goto, Stacks, Entered, Asleep, Init1ToOthers
<1>1. CASE Init1
  BY <1>1, KernelAssumption, Zenon DEF Init1
<1>2. CASE Kvmalloc
  <2>1. free' \subseteq free /\ pc[Bsp] = "kvmalloc" /\ UNCHANGED <<mailbox, stack, idx, proc>>
    BY <1>2, Zenon DEF Kvmalloc
  <2>2. \E l \in {"panic", "mp_init"} : pc' = [pc EXCEPT ![Bsp] = l]
    BY <1>2, Zenon DEF Kvmalloc
  <2>. QED BY <2>1, <2>2
<1>3. CASE MpInit
  BY <1>3, Zenon DEF MpInit
<1>4. CASE TrapInit
  BY <1>4, Zenon DEF TrapInit
<1>5. CASE StartAp
  BY <1>5 DEF StartAp
<1>6. CASE WaitStarted
  BY <1>6 DEF WaitStarted
<1>7. CASE Init2
  <2>1. /\ pc[Bsp] = "others" /\ free' = free \cup HighPages
        /\ UNCHANGED <<mailbox, stack, idx, proc>>
    BY <1>7, Zenon DEF Init2
  <2>2. pc' = [pc EXCEPT ![Bsp] = "ui_lock"]
    BY <1>7, Zenon DEF Init2
  <2>3. /\ mailbox \notin HighPages /\ proc.kernel_stack \notin HighPages
        /\ \A c \in Cpus : stack[c] \notin HighPages
    BY <2>1, KernelAssumption, Zenon
  <2>. QED BY <2>1, <2>2, <2>3, Zenon
<1>8. CASE AllocProc
  <2>1. pc[Bsp] = "ui_alloc" /\ UNCHANGED <<mailbox, stack, idx>>
    BY <1>8, Zenon DEF AllocProc
  <2>2. CASE pc' = [pc EXCEPT ![Bsp] = "panic"] /\ UNCHANGED <<free, proc>>
    BY <2>1, <2>2
  <2>3. ASSUME NEW d \in free, NEW p \in free \ {d}, free' = free \ {d, p},
               proc' = [state |-> "Embryo", pg_dir |-> d, kernel_stack |-> p],
               pc' = [pc EXCEPT ![Bsp] = "ui_put"]
        PROVE  Stacks'
    BY <2>1, <2>3
  <2>. HIDE DEF Types, Stacks
  <2>. QED BY <1>8, <2>2, <2>3, AllocProcTakes, Zenon
<1>9. CASE UserInit
  <2>1. pc[Bsp] = "ui_put" /\ UNCHANGED <<mailbox, stack, idx>>
    BY <1>9, Zenon DEF UserInit
  <2>2. CASE pc' = [pc EXCEPT ![Bsp] = "panic"] /\ UNCHANGED <<free, proc>>
    BY <2>1, <2>2
  <2>3. CASE /\ pc' = [pc EXCEPT ![Bsp] = "idt_init"]
             /\ free' \subseteq free \cup {proc.pg_dir}
             /\ proc'.kernel_stack = proc.kernel_stack
    <3>1. /\ proc.pg_dir # mailbox /\ proc.pg_dir # proc.kernel_stack
          /\ \A c \in Cpus : stack[c] # proc.pg_dir
      BY <2>1, Zenon DEF Directory
    <3>. QED BY <2>1, <2>3, <3>1
  <2>. HIDE DEF Types, Stacks
  <2>. QED BY <1>9, <2>2, <2>3, UserInitTakes, Zenon
<1>10. ASSUME NEW c \in Cpus, Deliver(c) PROVE Stacks'
  <2>1. UNCHANGED <<free, mailbox, stack, idx, proc>>
    BY <1>10, Zenon DEF Deliver
  <2>2. /\ pc'[Bsp] = pc[Bsp]
        /\ \A d \in Cpus : /\ pc'[d] \in Asleep <=> pc[d] \in Asleep
                           /\ pc[d] \in Entered => pc'[d] \in Entered
    BY <1>10, DeliverMoves
  <2>. HIDE DEF Types, Stacks
  <2>. QED BY <2>1, <2>2, PagesStay, Zenon
<1>11. ASSUME NEW c \in Cpus, ApStart(c) PROVE Stacks'
  <2>1. c # Bsp /\ idx = c /\ pc[Bsp] = "wait"
    BY <1>11, Zenon DEF ApStart, Starting
  <2>2. /\ stack' = [stack EXCEPT ![c] = mailbox] /\ UNCHANGED <<free, mailbox, idx, proc>>
        /\ pc' = [pc EXCEPT ![c] = "mp_enter"] \/ pc' = [pc EXCEPT ![c] = "fault"]
    BY <1>11, Zenon DEF ApStart
  <2>3. mailbox # NoPage /\ \A d \in Cpus : stack[d] # mailbox
    BY <1>11, <2>1, Zenon DEF ApStart
  <2>. QED BY <2>1, <2>2, <2>3
<1>12. ASSUME NEW c \in Cpus, MpEnter(c) PROVE Stacks'
  <2>1. c # Bsp
    BY <1>12, Zenon DEF MpEnter, Starting
  <2>2. \E l \in {"seginit", "fault"} : pc' = [pc EXCEPT ![c] = l]
    BY <1>12, Zenon DEF MpEnter
  <2>3. pc[c] = "mp_enter" /\ UNCHANGED <<free, mailbox, stack, idx, proc>>
    BY <1>12, Zenon DEF MpEnter
  <2>. HIDE DEF Types, Stacks
  <2>. QED BY <2>1, <2>2, <2>3, NoPageMoves, Zenon
<1>13. ASSUME NEW c \in Cpus, Seginit(c) PROVE Stacks'
  <2>1. \/ pc' = [pc EXCEPT ![c] = "fault"]
        \/ c = Bsp /\ pc' = [pc EXCEPT ![c] = "trap_init"]
        \/ c # Bsp /\ pc' = [pc EXCEPT ![c] = "idt_init"]
    BY <1>13, Zenon DEF Seginit
  <2>2. pc[c] = "seginit" /\ UNCHANGED <<free, mailbox, stack, idx, proc>>
    BY <1>13, Zenon DEF Seginit
  <2>3. CASE c = Bsp /\ pc' = [pc EXCEPT ![c] = "trap_init"]
    BY <2>2, <2>3, Zenon
  <2>4. CASE ~(c = Bsp /\ pc' = [pc EXCEPT ![c] = "trap_init"])
    <3>1. \E l \in {"fault", "idt_init"} : pc' = [pc EXCEPT ![c] = l]
      BY <2>1, <2>4, Zenon
    <3>. HIDE DEF Types, Stacks
    <3>. QED BY <2>2, <3>1, NoPageMoves, Zenon
  <2>. QED BY <2>3, <2>4, Zenon
<1>14. ASSUME NEW c \in Cpus, MpMain(c) PROVE Stacks'
  <2>1. \E l \in {"fault", "sti"} : pc' = [pc EXCEPT ![c] = l]
    BY <1>14, Zenon DEF MpMain
  <2>2. pc[c] = "idt_init" /\ UNCHANGED <<free, mailbox, stack, idx, proc>>
    BY <1>14, Zenon DEF MpMain
  <2>. HIDE DEF Types, Stacks
  <2>. QED BY <2>1, <2>2, NoPageMoves, Zenon
<1>15. ASSUME NEW c \in Cpus, LockPtable(c) PROVE Stacks'
  BY <1>15 DEF LockPtable
<1>16. ASSUME NEW c \in Cpus, Sti(c) PROVE Stacks'
  BY <1>16 DEF Sti
<1>17. ASSUME NEW c \in Cpus, ClearCurrent(c) PROVE Stacks'
  BY <1>17 DEF ClearCurrent
<1>18. ASSUME NEW c \in Cpus, GetRunnable(c) PROVE Stacks'
  <2>1. \E l \in {"clear", "switch_uvm"} : pc' = [pc EXCEPT ![c] = l]
    BY <1>18, Zenon DEF GetRunnable
  <2>2. pc[c] = "pick" /\ UNCHANGED <<free, mailbox, stack, idx, proc>>
    BY <1>18, Zenon DEF GetRunnable
  <2>. HIDE DEF Types, Stacks
  <2>. QED BY <2>1, <2>2, NoPageMoves, Zenon
<1>19. ASSUME NEW c \in Cpus, SwitchUvm(c) PROVE Stacks'
  <2>1. \E l \in {"panic", "set_running"} : pc' = [pc EXCEPT ![c] = l]
    BY <1>19, Zenon DEF SwitchUvm
  <2>2. pc[c] = "switch_uvm" /\ UNCHANGED <<free, mailbox, stack, idx, proc>>
    BY <1>19, Zenon DEF SwitchUvm
  <2>. HIDE DEF Types, Stacks
  <2>. QED BY <2>1, <2>2, NoPageMoves, Zenon
<1>20. ASSUME NEW c \in Cpus, SetRunning(c) PROVE Stacks'
  <2>1. \E l \in {"panic", "switch"} : pc' = [pc EXCEPT ![c] = l]
    BY <1>20, Zenon DEF SetRunning
  <2>2. pc[c] = "set_running" /\ UNCHANGED <<free, mailbox, stack, idx>>
    BY <1>20, Zenon DEF SetRunning
  <2>3. proc'.kernel_stack = proc.kernel_stack
    BY <1>20 DEF SetRunning, Procs
  <2>. HIDE DEF Types, Stacks
  <2>. QED BY <2>1, <2>2, <2>3, NoPageMoves, Zenon
<1>21. ASSUME NEW c \in Cpus, Switch(c) PROVE Stacks'
  <2>1. pc[c] = "switch" /\ plock = -1
    BY <1>21, Zenon DEF Switch, Dispatch
  <2>2. /\ pc' = [pc EXCEPT ![c] = "forkret"]
        /\ stack' = [stack EXCEPT ![c] = proc.kernel_stack]
        /\ UNCHANGED <<free, mailbox, idx, proc>>
    BY <1>21, <2>1 DEF Switch, Cpus
  <2>3. \A d \in Cpus : pc[d] \notin Entered
    BY <2>1 DEF Dispatch, Cpus
  <2>4. c = Bsp \/ pc[Bsp] \notin Init1ToOthers \cup {"seginit"}
    BY <2>1, Zenon DEF Dispatch, InBody
  <2>. QED BY <2>1, <2>2, <2>3, <2>4
<1>22. ASSUME NEW c \in Cpus, Forkret(c) PROVE Stacks'
  BY <1>22 DEF Forkret
<1>. QED
  BY <1>1, <1>2, <1>3, <1>4, <1>5, <1>6, <1>7, <1>8, <1>9, <1>10, <1>11, <1>12, <1>13,
     <1>14, <1>15, <1>16, <1>17, <1>18, <1>19, <1>20, <1>21, <1>22, Zenon
  DEF Next, BootStep, ApStep, CpuStep

\* A step that takes no page and gives none back.
LEMMA DirectoryStays ==
    ASSUME Directory, UNCHANGED <<free, mailbox, stack>>,
           proc'.kernel_stack = proc.kernel_stack, proc'.pg_dir = proc.pg_dir,
           pc'[Bsp] = "ui_put" => pc[Bsp] = "ui_put",
           pc'[Bsp] \in Init1ToOthers \cup {"seginit", "ui_lock", "ui_alloc"} =>
             pc[Bsp] \in Init1ToOthers \cup {"seginit", "ui_lock", "ui_alloc"}
    PROVE  Directory'
BY Zenon DEF Directory

\* The directory that setup_kvm built stays with init, and the empty one was free to go.
LEMMA DirectoryStep ==
    ASSUME Types, Starting, Stacks, Directory, Next PROVE Directory'
<1>. USE BspIsCpu DEF global, hw, others, sched, Goto
<1>0. pc \in [Cpus -> Labels] /\ proc \in Procs
  BY Zenon DEF Types
<1>1. CASE Init1
  <2>1. proc.pg_dir = NoPage /\ free' = LowPages /\ UNCHANGED <<mailbox, stack, proc>>
    BY <1>1, Zenon DEF Init1, Directory, Init1ToOthers
  <2>2. pc'[Bsp] = "kvmalloc"
    BY <1>0, <1>1, Zenon DEF Init1
  <2>. QED BY <2>1, <2>2, KernelAssumption, Zenon DEF Directory
<1>2. CASE Kvmalloc
  <2>1. proc.pg_dir = NoPage /\ free' \subseteq free /\ UNCHANGED <<mailbox, stack, proc>>
    BY <1>2, Zenon DEF Kvmalloc, Directory, Init1ToOthers
  <2>2. pc'[Bsp] \in {"panic", "mp_init"}
    BY <1>0, <1>2, Zenon DEF Kvmalloc
  <2>. QED BY <2>1, <2>2, Zenon DEF Directory
<1>3. CASE MpInit \/ TrapInit \/ WaitStarted
  <2>1. pc[Bsp] \in Init1ToOthers /\ UNCHANGED <<free, mailbox, stack, proc>>
    BY <1>3, Zenon DEF MpInit, TrapInit, WaitStarted, Init1ToOthers
  <2>2. pc'[Bsp] # "ui_put"
    BY <1>0, <1>3, Zenon DEF MpInit, TrapInit, WaitStarted
  <2>. QED BY <2>1, <2>2, DirectoryStays, Zenon
<1>4. CASE StartAp
  <2>1. proc.pg_dir = NoPage /\ UNCHANGED proc /\ free' \subseteq free
    BY <1>4, Zenon DEF StartAp, Directory, Init1ToOthers
  <2>2. pc'[Bsp] # "ui_put"
    BY <1>0, <1>4, Zenon DEF StartAp
  <2>. QED BY <2>1, <2>2, Zenon DEF Directory
<1>5. CASE Init2
  <2>1. proc.pg_dir = NoPage /\ free' = free \cup HighPages /\ UNCHANGED proc
    BY <1>5, Zenon DEF Init2, Directory, Init1ToOthers
  <2>2. pc'[Bsp] = "ui_lock"
    BY <1>0, <1>5, Zenon DEF Init2
  <2>. QED BY <2>1, <2>2, KernelAssumption, Zenon DEF Directory
<1>6. CASE AllocProc
  <2>1. pc[Bsp] = "ui_alloc" /\ UNCHANGED <<mailbox, stack>>
    BY <1>6, Zenon DEF AllocProc
  <2>2. CASE pc' = [pc EXCEPT ![Bsp] = "panic"] /\ UNCHANGED <<free, proc>>
    <3>1. pc'[Bsp] = "panic"
      BY <1>0, <2>2, Zenon
    <3>. QED BY <2>1, <2>2, <3>1, Zenon DEF Directory, Init1ToOthers
  <2>3. ASSUME NEW d \in free, NEW p \in free \ {d}, free' = free \ {d, p},
               proc' = [state |-> "Embryo", pg_dir |-> d, kernel_stack |-> p],
               pc' = [pc EXCEPT ![Bsp] = "ui_put"]
        PROVE  Directory'
    <3>1. pc'[Bsp] = "ui_put" /\ proc'.pg_dir = d /\ proc'.kernel_stack = p
      BY <1>0, <2>3
    <3>2. d # p /\ d # mailbox /\ \A c \in Cpus : stack[c] # d
      BY Zenon DEF Stacks
    <3>3. d # NoPage
      BY KernelAssumption, Zenon DEF Types, Pages
    <3>. QED BY <2>1, <2>3, <3>1, <3>2, <3>3, Zenon DEF Directory, Init1ToOthers
  <2>. QED BY <1>6, <2>2, <2>3, AllocProcTakes, Zenon
<1>7. CASE UserInit
  <2>1. pc[Bsp] = "ui_put" /\ UNCHANGED <<mailbox, stack>>
    BY <1>7, Zenon DEF UserInit
  <2>2. CASE pc' = [pc EXCEPT ![Bsp] = "panic"] /\ UNCHANGED <<free, proc>>
    <3>1. pc'[Bsp] = "panic"
      BY <1>0, <2>2, Zenon
    <3>. QED BY <2>1, <2>2, <3>1, Zenon DEF Directory, Init1ToOthers
  <2>3. ASSUME NEW d \in free, free' \subseteq (free \ {d}) \cup {proc.pg_dir},
               proc'.pg_dir = d, proc'.kernel_stack = proc.kernel_stack,
               pc' = [pc EXCEPT ![Bsp] = "idt_init"]
        PROVE  Directory'
    <3>1. pc'[Bsp] = "idt_init" /\ d # proc.pg_dir
      BY <1>0, <2>3, Zenon DEF Directory
    <3>2. /\ d # proc.kernel_stack /\ d # mailbox
          /\ \A c \in Cpus : stack[c] # d
      BY Zenon DEF Stacks
    <3>. QED BY <2>1, <2>3, <3>1, <3>2, Zenon DEF Directory, Init1ToOthers
  <2>. QED BY <1>7, <2>2, <2>3, UserInitTakes, Zenon
<1>8. ASSUME NEW c \in Cpus, Deliver(c) \/ MpEnter(c) PROVE Directory'
  <2>1. pc'[Bsp] = pc[Bsp]
    BY <1>0, <1>8, DeliverMoves, Zenon DEF MpEnter, Starting
  <2>2. UNCHANGED <<free, mailbox, stack, proc>>
    BY <1>8, Zenon DEF Deliver, MpEnter
  <2>. QED BY <2>1, <2>2, DirectoryStays, Zenon
<1>9. ASSUME NEW c \in Cpus, ApStart(c) PROVE Directory'
  <2>1. c # Bsp /\ stack' = [stack EXCEPT ![c] = mailbox] /\ UNCHANGED <<free, mailbox, proc>>
    BY <1>9, Zenon DEF ApStart, Starting, Asleep
  <2>2. pc'[Bsp] = pc[Bsp]
    BY <1>0, <1>9, <2>1, Zenon DEF ApStart
  <2>3. \A e \in Cpus : stack'[e] \in {stack[e], mailbox}
    BY <2>1 DEF Types
  <2>. QED BY <2>1, <2>2, <2>3, Zenon DEF Directory
<1>10. ASSUME NEW c \in Cpus, Switch(c) PROVE Directory'
  <2>1. UNCHANGED <<free, mailbox, proc>>
    BY <1>10, Zenon DEF Switch
  <2>2. pc'[Bsp] = pc[Bsp] \/ pc'[Bsp] \in {"panic", "forkret"}
    BY <1>0, <1>10, Zenon DEF Switch
  <2>3. \A e \in Cpus : stack'[e] \in {stack[e], proc.kernel_stack}
    BY <1>10 DEF Switch, Types
  <2>. QED BY <2>1, <2>2, <2>3, Zenon DEF Directory, Init1ToOthers
<1>11. ASSUME NEW c \in Cpus, CpuStep(c), ~Switch(c) PROVE Directory'
  <2>1. UNCHANGED <<free, mailbox, stack>>
    BY <1>11, Zenon DEF CpuStep, Seginit, MpMain, LockPtable, Sti, ClearCurrent, GetRunnable,
                        SwitchUvm, SetRunning, Forkret
  <2>2. proc' = proc \/ proc' = [proc EXCEPT !.state = "Running"]
    BY <1>11, Zenon DEF CpuStep, Seginit, MpMain, LockPtable, Sti, ClearCurrent, GetRunnable,
                        SwitchUvm, SetRunning, Forkret
  <2>3. proc'.kernel_stack = proc.kernel_stack /\ proc'.pg_dir = proc.pg_dir
    BY <1>0, <2>2 DEF Procs
  <2>4. \/ pc'[Bsp] = pc[Bsp]
        \/ pc[Bsp] = "seginit" /\ pc'[Bsp] = "trap_init"
        \/ pc[Bsp] = "ui_lock" /\ pc'[Bsp] = "ui_alloc"
        \/ pc'[Bsp] \in {"sti", "clear", "lock", "pick", "switch_uvm", "set_running", "switch",
                          "todo", "user", "panic", "fault"}
    BY <1>0, <1>11, Zenon DEF CpuStep, Seginit, MpMain, LockPtable, Sti, ClearCurrent,
                              GetRunnable, SwitchUvm, SetRunning, Forkret
  <2>. QED BY <2>1, <2>3, <2>4, DirectoryStays, Zenon DEF Init1ToOthers
<1>. QED
  BY <1>1, <1>2, <1>3, <1>4, <1>5, <1>6, <1>7, <1>8, <1>9, <1>10, <1>11, Zenon
  DEF Next, BootStep, ApStep

\* A processor loads its tables before it enables interrupts.
LEMMA PreparedStep ==
    ASSUME Types, Starting, Prepared, Next PROVE Prepared'
<1>. USE BspIsCpu DEF Types, global, hw, others, sched, Goto, Prepared, MyCpuOk, Asleep, InUserInit
<1>1. CASE Init1
  BY <1>1, Zenon DEF Init1
<1>2. CASE Kvmalloc
  <2>1. /\ UNCHANGED <<idt_filled, lapic, gdt, idt, sti>>
        /\ pg_dir' = pg_dir \/ pg_dir' = [pg_dir EXCEPT ![Bsp] = "kernel"]
    BY <1>2, Zenon DEF Kvmalloc
  <2>2. \E l \in {"panic", "mp_init"} : pc' = [pc EXCEPT ![Bsp] = l]
    BY <1>2, Zenon DEF Kvmalloc
  <2>. QED BY <2>1, <2>2, Zenon
<1>3. CASE MpInit
  BY <1>3, Zenon DEF MpInit
<1>4. CASE TrapInit
  BY <1>4, Zenon DEF TrapInit
<1>5. CASE StartAp
  BY <1>5 DEF StartAp
<1>6. CASE WaitStarted
  BY <1>6, Zenon DEF WaitStarted
<1>7. CASE Init2
  BY <1>7, Zenon DEF Init2
<1>8. CASE AllocProc
  BY <1>8 DEF AllocProc
<1>9. CASE UserInit
  <2>1. \E l \in {"panic", "idt_init"} : pc' = [pc EXCEPT ![Bsp] = l]
    BY <1>9, UserInitTakes, Zenon
  <2>2. pc[Bsp] = "ui_put" /\ UNCHANGED <<idt_filled, lapic, pg_dir, gdt, idt, sti>>
    BY <1>9, Zenon DEF UserInit
  <2>. QED BY <2>1, <2>2, Zenon
<1>10. ASSUME NEW c \in Cpus, Deliver(c) PROVE Prepared'
  <2>1. UNCHANGED <<idt_filled, lapic, pg_dir, gdt, idt, sti>>
    BY <1>10, Zenon DEF Deliver
  <2>. QED BY <1>10, <2>1, DeliverMoves
<1>11. ASSUME NEW c \in Cpus, ApStart(c) PROVE Prepared'
  BY <1>11, Zenon DEF ApStart
<1>12. ASSUME NEW c \in Cpus, MpEnter(c) PROVE Prepared'
  BY <1>12, Zenon DEF MpEnter
<1>13. ASSUME NEW c \in Cpus, Seginit(c) PROVE Prepared'
  BY <1>13 DEF Seginit
<1>14. ASSUME NEW c \in Cpus, MpMain(c) PROVE Prepared'
  <2>1. pc[c] = "idt_init" /\ gdt[c] /\ idt_filled /\ MyCpuOk(c)
    BY <1>14, Zenon DEF MpMain, Starting
  <2>2. pc' = [pc EXCEPT ![c] = "sti"] /\ idt' = [idt EXCEPT ![c] = TRUE]
    BY <1>14, <2>1, Zenon DEF MpMain
  <2>3. UNCHANGED <<idt_filled, lapic, pg_dir, gdt, sti>>
    BY <1>14, Zenon DEF MpMain
  <2>. QED BY <2>1, <2>2, <2>3, Zenon
<1>15. ASSUME NEW c \in Cpus, LockPtable(c) PROVE Prepared'
  BY <1>15, Zenon DEF LockPtable
<1>16. ASSUME NEW c \in Cpus, Sti(c) PROVE Prepared'
  BY <1>16, Zenon DEF Sti
<1>17. ASSUME NEW c \in Cpus, ClearCurrent(c) PROVE Prepared'
  BY <1>17, Zenon DEF ClearCurrent
<1>18. ASSUME NEW c \in Cpus, GetRunnable(c) PROVE Prepared'
  BY <1>18 DEF GetRunnable
<1>19. ASSUME NEW c \in Cpus, SwitchUvm(c) PROVE Prepared'
  BY <1>19 DEF SwitchUvm
<1>20. ASSUME NEW c \in Cpus, SetRunning(c) PROVE Prepared'
  BY <1>20 DEF SetRunning
<1>21. ASSUME NEW c \in Cpus, Switch(c) PROVE Prepared'
  BY <1>21 DEF Switch
<1>22. ASSUME NEW c \in Cpus, Forkret(c) PROVE Prepared'
  BY <1>22, Zenon DEF Forkret
<1>. QED
  BY <1>1, <1>2, <1>3, <1>4, <1>5, <1>6, <1>7, <1>8, <1>9, <1>10, <1>11, <1>12, <1>13,
     <1>14, <1>15, <1>16, <1>17, <1>18, <1>19, <1>20, <1>21, <1>22, Zenon
  DEF Next, BootStep, ApStep, CpuStep

-----------------------------------------------------------------------------
(* Theorems *)

\* Inv holds when the boot CPU enters main().
LEMMA InitInv ==
    ASSUME Init PROVE Inv
<1>. USE BspIsCpu DEF Init
<1>1. Types
  BY Zenon DEF Types, Procs, Labels, Trains
<1>2. Starting
  BY Zenon DEF Starting, Asleep, Init1ToOthers, InUserInit, Fresh
<1>3. Dispatch
  BY DEF Dispatch, Entered, InBody, Init1ToOthers, InUserInit, Cpus
<1>4. Stacks
  BY KernelAssumption, Zenon DEF Stacks, Entered, Asleep
<1>5. Prepared
  BY Zenon DEF Prepared, Asleep, InUserInit
<1>6. Globals
  <2>1. 0 \in 0..NCpu
    BY KernelAssumption
  <2>. QED BY <2>1, Zenon DEF Globals
<1>7. Directory
  BY KernelAssumption, Zenon DEF Directory
<1>. QED BY <1>1, <1>2, <1>3, <1>4, <1>5, <1>6, <1>7, Zenon DEF Inv

\* Inv is an invariant of main(), the processors it starts and their schedulers.
THEOREM KernelInvariant == Spec => []Inv
<1>1. Inv /\ [Next]_vars => Inv'
  <2>. SUFFICES ASSUME Inv, [Next]_vars PROVE Inv'
    BY Zenon
  <2>1. CASE Next
    BY <2>1, TypesStep, GlobalsStep, StartingStep, DispatchStep, StacksStep, DirectoryStep,
       PreparedStep, Zenon
    DEF Inv
  <2>2. CASE UNCHANGED vars
    <3>1. Types' /\ Starting'
      BY <2>2, Zenon DEF vars, Inv, Types, Starting
    <3>2. Globals'
      BY <2>2, Zenon DEF vars, Inv, Globals
    <3>3. Dispatch'
      BY <2>2, Zenon DEF vars, Inv, Dispatch
    <3>4. Stacks'
      BY <2>2, Zenon DEF vars, Inv, Stacks
    <3>5. Prepared'
      BY <2>2, Zenon DEF vars, Inv, Prepared, MyCpuOk
    <3>6. Directory'
      BY <2>2, Zenon DEF vars, Inv, Directory
    <3>. QED BY <3>1, <3>2, <3>3, <3>4, <3>5, <3>6, Zenon DEF Inv
  <2>. QED BY <2>1, <2>2, Zenon
<1>. QED BY InitInv, <1>1, PTL DEF Spec

\* Every variable of the kernel keeps its type; the loop of start_others() does not run past
\* the last CPU, and no CPU is sent more IPIs than one start takes.
THEOREM KernelTypes == Spec => []TypeOK
<1>1. Inv => TypeOK
  <2>. SUFFICES ASSUME Inv PROVE TypeOK
    BY Zenon
  <2>1. \A c \in Cpus : Len(ipi[c]) <= 3
    <3>1. /\ Len(<<>>) <= 3 /\ Len(<<"STARTUP">>) <= 3
          /\ Len(<<"STARTUP", "STARTUP">>) <= 3 /\ Len(<<"INIT", "STARTUP", "STARTUP">>) <= 3
      OBVIOUS
    <3>. QED BY <3>1, Zenon DEF Inv, Types, Trains, Fresh
  <2>2. /\ proc.state \in {"Unused", "Embryo", "Runnable", "Running"}
        /\ proc.kernel_stack \in Pages \cup {NoPage} /\ proc.pg_dir \in Pages \cup {NoPage}
    BY Zenon DEF Inv, Types, Procs
  <2>. QED BY <2>1, <2>2, Zenon DEF Inv, Types, Globals, Dispatch, TypeOK
<1>. QED BY <1>1, KernelInvariant, PTL

\* All processors read their stack from one mailbox and the heap grows while they run, but
\* no two run on one page, no stack is on the free list, and only the processor that has
\* switched to init runs on init's stack. user_init's replacement of init's page directory
\* leaves the one in use off the free list.
THEOREM StacksAlwaysDistinct == Spec => []DistinctStacks
<1>1. Inv => DistinctStacks
  BY Zenon DEF Inv, Stacks, Directory, DistinctStacks, Entered
<1>. QED BY <1>1, KernelInvariant, PTL

\* However the schedulers race for the run queue, init is queued or current on one CPU, and
\* the locks of PROC_TABLE and of the process stay with that CPU.
THEOREM InitDispatchedOnce == Spec => []DispatchedOnce
<1>1. Inv => DispatchedOnce
  BY Zenon DEF Inv, Types, Dispatch, DispatchedOnce, Entered, InBody
<1>. QED BY <1>1, KernelInvariant, PTL

\* No processor enables interrupts before its IDT and GDT are loaded and its local APIC can
\* be reached.
THEOREM AlwaysReady == Spec => []ReadyForInterrupts
<1>1. Inv => ReadyForInterrupts
  BY Zenon DEF Inv, Prepared, ReadyForInterrupts
<1>. QED BY <1>1, KernelInvariant, PTL

-----------------------------------------------------------------------------
(* With enough memory nothing panics *)

\* The pages left at each point of main().
Heap ==
    /\ pc[Bsp] \in {"init1", "kvmalloc", "mp_init", "seginit", "trap_init"} => idx = 0
    /\ pc[Bsp] = "kvmalloc" => free = LowPages
    /\ pc[Bsp] \in {"mp_init", "seginit", "trap_init"} =>
         Cardinality(free) + KvmPages = Cardinality(LowPages)
    /\ pc[Bsp] = "others" =>
         Cardinality(free) + KvmPages + (IF idx > Bsp THEN idx - 1 ELSE idx) = Cardinality(LowPages)
    /\ pc[Bsp] = "wait" =>
         Cardinality(free) + KvmPages + (IF idx > Bsp THEN idx ELSE idx + 1) = Cardinality(LowPages)
    /\ pc[Bsp] \in {"ui_lock", "ui_alloc"} => Cardinality(free) >= KvmPages + 3
    /\ pc[Bsp] = "ui_put" => Cardinality(free) >= KvmPages + 1

Holding == InBody \cup {"pick", "ui_alloc", "ui_put"}

\* What every step relies on: the page directory, the local APIC, locks it does not hold,
\* and the stack of init.
Untroubled ==
    /\ pc[Bsp] \notin {"init1", "kvmalloc"} => kvm_built /\ pg_dir[Bsp] \in {"kernel", "init"}
    /\ pc[Bsp] \notin {"init1", "kvmalloc", "mp_init"} => lapic = "Some"
    /\ \A c \in Cpus :
         /\ pc[c] \notin {"fault", "panic"}
         /\ pc[c] = "seginit" => MyCpuOk(c)
         /\ pc[c] \in {"sti", "clear", "lock", "pick"} => gdt[c]
         /\ ptable = c => pc[c] \in Holding
         /\ pc[c] \in InBody => proc.kernel_stack # NoPage
    /\ runnable # <<>> \/ pc[Bsp] = "ui_put" => proc.kernel_stack # NoPage

\* The low pages, the high pages and what is free of them are finite, and what allocations
\* take is missing afterwards.
LEMMA FreePages ==
    ASSUME Types
    PROVE  /\ IsFiniteSet(free) /\ Cardinality(free) \in Nat
           /\ IsFiniteSet(LowPages) /\ Cardinality(LowPages) \in Nat
           /\ IsFiniteSet(HighPages) /\ Cardinality(HighPages) \in Nat
           /\ KvmPages \in Nat \ {0}
           /\ Cardinality(free) = 0 <=> free = {}
           /\ \A p \in free : Cardinality(free \ {p}) = Cardinality(free) - 1
           /\ \A S \in Taken(free, KvmPages) : Cardinality(free \ S) = Cardinality(free) - KvmPages
           /\ \A d \in free : \A p \in free \ {d} :
                Cardinality(free \ {d, p}) = Cardinality(free) - 2
<1>1. free \in SUBSET Pages /\ IsFiniteSet(LowPages) /\ IsFiniteSet(HighPages)
  BY KernelAssumption, Zenon DEF Types
<1>2. IsFiniteSet(free)
  BY <1>1, FS_Union, FS_Subset, Zenon DEF Pages
<1>3. \A S \in Taken(free, KvmPages) : Cardinality(free \ S) = Cardinality(free) - KvmPages
  <2>. SUFFICES ASSUME NEW S \in Taken(free, KvmPages)
                PROVE  Cardinality(free \ S) = Cardinality(free) - KvmPages
    BY Zenon
  <2>1. S \in SUBSET free /\ Cardinality(S) = KvmPages
    BY Zenon DEF Taken
  <2>2. free \cap S = S
    BY <2>1, Zenon
  <2>3. IsFiniteSet(S)
    BY <1>2, <2>1, FS_Subset, Zenon
  <2>4. Cardinality(free \ S) = Cardinality(free) - Cardinality(free \cap S)
    BY <1>2, <2>3, FS_Difference, Zenon
  <2>. QED BY <2>1, <2>2, <2>4, Zenon
<1>4. \A d \in free : \A p \in free \ {d} : Cardinality(free \ {d, p}) = Cardinality(free) - 2
  <2>. SUFFICES ASSUME NEW d \in free, NEW p \in free \ {d}
                PROVE  Cardinality(free \ {d, p}) = Cardinality(free) - 2
    BY Zenon
  <2>1. IsFiniteSet(free \ {d}) /\ Cardinality(free \ {d}) = Cardinality(free) - 1
    BY <1>2, FS_RemoveElement, Zenon
  <2>2. Cardinality((free \ {d}) \ {p}) = Cardinality(free \ {d}) - 1
    BY <2>1, FS_RemoveElement, Zenon
  <2>3. (free \ {d}) \ {p} = free \ {d, p}
    BY Zenon
  <2>4. Cardinality(free) \in Nat
    BY <1>2, FS_CardinalityType, Zenon
  <2>. QED BY <2>1, <2>2, <2>3, <2>4
<1>5. KvmPages \in Nat \ {0}
  BY KernelAssumption, Zenon
<1>. QED BY <1>1, <1>2, <1>3, <1>4, <1>5, FS_CardinalityType, FS_EmptySet, FS_RemoveElement, Zenon

\* A step that leaves the heap and the loop of start_others() alone.
LEMMA HeapStays ==
    ASSUME Heap, UNCHANGED <<free, idx>>,
           \/ pc'[Bsp] = pc[Bsp]
           \/ pc[Bsp] = "seginit" /\ pc'[Bsp] = "trap_init"
           \/ pc[Bsp] = "ui_lock" /\ pc'[Bsp] = "ui_alloc"
           \/ pc'[Bsp] \notin {"init1", "kvmalloc", "mp_init", "seginit", "trap_init", "others",
                               "wait", "ui_lock", "ui_alloc", "ui_put"}
    PROVE  Heap'
BY Zenon DEF Heap

\* The pages left are as many as main() still needs.
LEMMA HeapStep ==
    ASSUME EnoughPages, Types, Globals, Starting, Stacks, Heap, Next PROVE Heap'
<1>. USE BspIsCpu DEF global, others, Goto
<1>0. pc \in [Cpus -> Labels] /\ idx \in 0..NCpu /\ Bsp \in 0..(NCpu - 1) /\ NCpu \in Nat
  BY KernelAssumption, Zenon DEF Types, Globals
<1>1. CASE Init1
  BY <1>0, <1>1, Zenon DEF Init1, Heap
<1>2. CASE Kvmalloc
  <2>1. pc[Bsp] = "kvmalloc" /\ free = LowPages /\ idx' = 0
    BY <1>2, Zenon DEF Kvmalloc, Heap
  <2>2. CASE OutOfPages(KvmPages)
    <3>1. pc'[Bsp] = "panic"
      BY <1>0, <1>2, <2>2, Zenon DEF Kvmalloc
    <3>. QED BY <3>1, Zenon DEF Heap
  <2>3. CASE ~OutOfPages(KvmPages)
    <3>1. pc'[Bsp] = "mp_init" /\ \E S \in Taken(free, KvmPages) : free' = free \ S
      BY <1>0, <1>2, <2>3, Zenon DEF Kvmalloc
    <3>2. Cardinality(free') + KvmPages = Cardinality(LowPages)
      BY <2>1, <3>1, FreePages
    <3>. QED BY <2>1, <3>1, <3>2, Zenon DEF Heap
  <2>. QED BY <2>2, <2>3, Zenon
<1>3. CASE MpInit
  BY <1>0, <1>3, Zenon DEF MpInit, Heap
<1>4. CASE TrapInit
  <2>1. pc[Bsp] = "trap_init" /\ pc'[Bsp] = "others" /\ UNCHANGED <<free, idx>>
    BY <1>0, <1>4, Zenon DEF TrapInit
  <2>2. idx = 0 /\ Cardinality(free) + KvmPages = Cardinality(LowPages)
    BY <2>1, Zenon DEF Heap
  <2>. QED BY <1>0, <2>1, <2>2, FreePages DEF Heap
<1>5. CASE StartAp
  <2>1. pc[Bsp] = "others"
    BY <1>5, Zenon DEF StartAp
  <2>2. Cardinality(free) + KvmPages + (IF idx > Bsp THEN idx - 1 ELSE idx)
            = Cardinality(LowPages)
    BY <2>1, Zenon DEF Heap
  <2>3. CASE idx = Bsp
    <3>1. idx' = idx + 1 /\ UNCHANGED <<pc, free>>
      BY <1>5, <2>3, Zenon DEF StartAp
    <3>2. Cardinality(free') + KvmPages + (IF idx' > Bsp THEN idx' - 1 ELSE idx') = Cardinality(LowPages)
      BY <1>0, <2>2, <2>3, <3>1, FreePages
    <3>. QED BY <2>1, <3>1, <3>2, Zenon DEF Heap
  <2>4. CASE idx # Bsp /\ free = {}
    BY <1>0, <1>5, <2>4, Zenon DEF StartAp, Heap
  <2>5. CASE idx # Bsp /\ free # {}
    <3>1. PICK p \in free : free' = free \ {p}
      BY <1>5, <2>5, Zenon DEF StartAp
    <3>2. idx' = idx /\ pc'[Bsp] = "wait"
      BY <1>0, <1>5, <2>5, Zenon DEF StartAp
    <3>3. Cardinality(free') + KvmPages + (IF idx' > Bsp THEN idx' ELSE idx' + 1) = Cardinality(LowPages)
      BY <1>0, <2>2, <2>5, <3>1, <3>2, FreePages
    <3>. QED BY <3>2, <3>3, Zenon DEF Heap
  <2>. QED BY <2>3, <2>4, <2>5, Zenon
<1>6. CASE WaitStarted
  <2>1. pc[Bsp] = "wait" /\ pc'[Bsp] = "others" /\ idx' = idx + 1 /\ free' = free
    BY <1>0, <1>6, Zenon DEF WaitStarted
  <2>2. /\ Cardinality(free) + KvmPages + (IF idx > Bsp THEN idx ELSE idx + 1) = Cardinality(LowPages)
        /\ idx # Bsp
    BY <2>1, Zenon DEF Heap, Starting
  <2>3. Cardinality(free') + KvmPages + (IF idx' > Bsp THEN idx' - 1 ELSE idx') = Cardinality(LowPages)
    BY <1>0, <2>1, <2>2, FreePages
  <2>. QED BY <2>1, <2>3, Zenon DEF Heap
<1>7. CASE Init2
  <2>1. pc[Bsp] = "others" /\ pc'[Bsp] = "ui_lock" /\ idx = NCpu /\ free' = free \cup HighPages
    BY <1>0, <1>7, Zenon DEF Init2
  <2>2. free \subseteq LowPages /\ Cardinality(free) + KvmPages + (NCpu - 1) = Cardinality(LowPages)
    <3>1. free \subseteq LowPages
      BY <2>1, Zenon DEF Stacks, Init1ToOthers
    <3>. QED BY <1>0, <2>1, <3>1, FreePages DEF Heap
  <2>3. IsFiniteSet(HighPages) /\ Cardinality(HighPages) \in Nat
    BY FreePages, Zenon
  <2>4. LowPages \cap HighPages = {} /\ free \cap HighPages = {}
    BY <2>2, KernelAssumption, Zenon
  <2>5. Cardinality(free') = Cardinality(free) + Cardinality(HighPages)
    <3>1. Cardinality(free') = Cardinality(free) + Cardinality(HighPages) - Cardinality({})
      <4>1. IsFiniteSet(free)
        BY FreePages, Zenon
      <4>2. Cardinality(free \cup HighPages)
              = Cardinality(free) + Cardinality(HighPages) - Cardinality(free \cap HighPages)
        BY <2>3, <4>1, FS_Union, Zenon
      <4>. QED BY <2>1, <2>4, <4>2, Zenon
    <3>. QED BY <2>3, <3>1, FreePages, FS_EmptySet
  <2>6. Cardinality(Pages) = Cardinality(LowPages) + Cardinality(HighPages)
    <3>1. IsFiniteSet(LowPages) /\ Cardinality(LowPages) \in Nat
      BY FreePages, Zenon
    <3>2. Cardinality(LowPages \cup HighPages)
            = Cardinality(LowPages) + Cardinality(HighPages) - Cardinality({})
      BY <2>3, <2>4, <3>1, FS_Union, Zenon
    <3>. QED BY <2>3, <3>1, <3>2, FS_EmptySet DEF Pages
  <2>7. Cardinality(free') >= KvmPages + 3
    BY <1>0, <2>2, <2>3, <2>5, <2>6, FreePages DEF EnoughPages
  <2>. QED BY <2>1, <2>7, Zenon DEF Heap
<1>8. CASE AllocProc
  <2>1. pc[Bsp] = "ui_alloc" /\ Cardinality(free) >= KvmPages + 3
    BY <1>8, Zenon DEF AllocProc, Heap
  <2>2. ~OutOfPages(2)
    BY <2>1, FreePages DEF OutOfPages
  <2>3. pc'[Bsp] = "ui_put" /\ \E d \in free : \E p \in free \ {d} : free' = free \ {d, p}
    BY <1>0, <1>8, <2>2, AllocProcTakes, Zenon
  <2>4. Cardinality(free') = Cardinality(free) - 2
    BY <2>3, FreePages, Zenon
  <2>5. Cardinality(free') >= KvmPages + 1
    BY <2>1, <2>4, FreePages
  <2>. QED BY <2>3, <2>5, Zenon DEF Heap
<1>9. CASE UserInit
  <2>1. pc'[Bsp] \in {"panic", "idt_init"}
    BY <1>0, <1>9, UserInitTakes, Zenon
  <2>. QED BY <2>1, Zenon DEF Heap
<1>11. ASSUME NEW c \in Cpus, ApStep(c) PROVE Heap'
  <2>1. pc'[Bsp] = pc[Bsp] /\ UNCHANGED <<free, idx>>
    BY <1>0, <1>11, DeliverMoves, Zenon DEF ApStep, Deliver, ApStart, MpEnter, Starting, Asleep
  <2>. QED BY <2>1, HeapStays, Zenon
<1>12. ASSUME NEW c \in Cpus, CpuStep(c) PROVE Heap'
  <2>1. UNCHANGED <<free, idx>>
    BY <1>12, Zenon DEF CpuStep, Seginit, MpMain, LockPtable, Sti, ClearCurrent, GetRunnable,
                        SwitchUvm, SetRunning, Switch, Forkret
  <2>2. c # Bsp => pc'[Bsp] = pc[Bsp]
    BY <1>0, <1>12, Zenon DEF CpuStep, Seginit, MpMain, LockPtable, Sti, ClearCurrent, GetRunnable,
                        SwitchUvm, SetRunning, Switch, Forkret
  <2>3. c = Bsp => \/ pc[Bsp] = "seginit" /\ pc'[Bsp] = "trap_init"
                   \/ pc[Bsp] = "ui_lock" /\ pc'[Bsp] = "ui_alloc"
                   \/ pc'[Bsp] \in {"sti", "clear", "lock", "pick", "switch_uvm", "set_running",
                                    "switch", "forkret", "todo", "user", "panic", "fault"}
    BY <1>0, <1>12, Zenon DEF CpuStep, Seginit, MpMain, LockPtable, Sti, ClearCurrent, GetRunnable,
                        SwitchUvm, SetRunning, Switch, Forkret
  <2>. QED BY <2>1, <2>2, <2>3, HeapStays, Zenon
<1>. QED
  BY <1>1, <1>2, <1>3, <1>4, <1>5, <1>6, <1>7, <1>8, <1>9, <1>11, <1>12, Zenon
  DEF Next, BootStep

\* No step of the kernel ends in a panic or a fault.
LEMMA UntroubledStep ==
    ASSUME EnoughPages, Inv, Heap, Untroubled, Next PROVE Untroubled'
<1>. USE BspIsCpu DEF global, hw, others, sched, Goto, MyCpuOk
<1>0. Types /\ Globals /\ Starting /\ Dispatch /\ Stacks /\ Prepared
  BY Zenon DEF Inv
<1>. USE DEF Untroubled, Holding, InBody, Entered
<1>a. pc \in [Cpus -> Labels] /\ pg_dir \in [Cpus -> {"none", "entry", "kernel", "init"}]
  BY <1>0, Zenon DEF Types
<1>b. gdt \in [Cpus -> BOOLEAN] /\ -1 \notin Cpus
  BY <1>0 DEF Types, Cpus
<1>1. CASE Init1
  BY <1>a, <1>1, Zenon DEF Init1
<1>2. CASE Kvmalloc
  <2>1. pc[Bsp] = "kvmalloc" /\ free = LowPages
    BY <1>2, Zenon DEF Kvmalloc, Heap
  <2>2. ~OutOfPages(KvmPages)
    <3>1. Cardinality(LowPages) >= KvmPages + (NCpu - 1)
      BY <1>0, KernelAssumption, FreePages DEF EnoughPages
    <3>. QED BY <1>0, <2>1, <3>1, FreePages, KernelAssumption DEF OutOfPages
  <2>3. /\ pc' = [pc EXCEPT ![Bsp] = "mp_init"] /\ kvm_built'
        /\ pg_dir' = [pg_dir EXCEPT ![Bsp] = "kernel"]
    BY <1>2, <2>2, Zenon DEF Kvmalloc
  <2>4. UNCHANGED <<lapic, gdt, ptable, runnable, proc>>
    BY <1>2, Zenon DEF Kvmalloc
  <2>. QED BY <1>a, <2>1, <2>3, <2>4, Zenon
<1>3. CASE MpInit
  BY <1>a, <1>3, Zenon DEF MpInit
<1>4. CASE TrapInit
  BY <1>a, <1>4, Zenon DEF TrapInit
<1>5. CASE StartAp
  <2>1. free # {} \/ idx = Bsp
    <3>1. pc[Bsp] = "others" /\ idx < NCpu
      BY <1>5, Zenon DEF StartAp
    <3>2. Cardinality(free) + KvmPages + (IF idx > Bsp THEN idx - 1 ELSE idx)
            = Cardinality(LowPages)
      BY <3>1, Zenon DEF Heap
    <3>3. idx \in 0..NCpu /\ Bsp \in 0..(NCpu - 1) /\ NCpu \in Nat
      BY <1>0, KernelAssumption, Zenon DEF Globals
    <3>4. Cardinality(LowPages) >= KvmPages + (NCpu - 1)
      BY <1>0, <3>3, FreePages DEF EnoughPages
    <3>. QED BY <1>0, <3>1, <3>2, <3>3, <3>4, FreePages
  <2>2. pc[Bsp] = "others" /\ (pc' = pc \/ pc' = [pc EXCEPT ![Bsp] = "wait"])
    BY <1>5, <2>1, Zenon DEF StartAp
  <2>3. UNCHANGED <<lapic, kvm_built, pg_dir, gdt, ptable, runnable, proc>>
    BY <1>5, Zenon DEF StartAp
  <2>. QED BY <1>a, <2>2, <2>3, Zenon
<1>6. CASE WaitStarted
  BY <1>a, <1>6, Zenon DEF WaitStarted
<1>7. CASE Init2
  BY <1>a, <1>7, Zenon DEF Init2
<1>8. CASE AllocProc
  <2>1. pc[Bsp] = "ui_alloc" /\ Cardinality(free) >= KvmPages + 3
    BY <1>8, Zenon DEF AllocProc, Heap
  <2>2. ~OutOfPages(2)
    BY <1>0, <2>1, FreePages DEF OutOfPages
  <2>3. pc' = [pc EXCEPT ![Bsp] = "ui_put"] /\ proc'.kernel_stack # NoPage
    <3>1. NoPage \notin free
      BY <1>0, KernelAssumption, Zenon DEF Types, Pages
    <3>2. ASSUME NEW d \in free, NEW p \in free \ {d},
                 proc' = [state |-> "Embryo", pg_dir |-> d, kernel_stack |-> p]
          PROVE  proc'.kernel_stack # NoPage
      BY <3>1, <3>2
    <3>. QED BY <1>8, <2>2, <3>2, AllocProcTakes, Zenon
  <2>4. UNCHANGED <<lapic, kvm_built, pg_dir, gdt, ptable, runnable>>
    BY <1>8, Zenon DEF AllocProc
  <2>. QED BY <1>a, <2>1, <2>3, <2>4, Zenon
<1>9. CASE UserInit
  <2>1. pc[Bsp] = "ui_put" /\ Cardinality(free) >= KvmPages + 1 /\ plock # Bsp
    BY <1>0, <1>9, Zenon DEF UserInit, Heap, Dispatch
  <2>2. ~OutOfPages(KvmPages + 1)
    BY <1>0, <2>1, FreePages DEF OutOfPages
  <2>3. /\ pc' = [pc EXCEPT ![Bsp] = "idt_init"] /\ ptable' = -1
        /\ proc'.kernel_stack = proc.kernel_stack
    BY <1>0, <1>9, <2>1, <2>2, UserInitTakes, Zenon
  <2>4. UNCHANGED <<lapic, kvm_built, pg_dir, gdt>>
    BY <1>9, Zenon DEF UserInit
  <2>. QED BY <1>a, <1>b, <2>1, <2>3, <2>4, Zenon
<1>10. ASSUME NEW c \in Cpus, Deliver(c) PROVE Untroubled'
  <2>1. UNCHANGED <<lapic, kvm_built, pg_dir, gdt, ptable, runnable, proc>>
    BY <1>10, Zenon DEF Deliver
  <2>2. c # Bsp /\ (pc' = pc \/ \E l \in Asleep : pc[c] \in Asleep /\ pc' = [pc EXCEPT ![c] = l])
    BY <1>0, <1>10, DeliverMoves, Zenon
  <2>. QED BY <1>a, <2>1, <2>2, Zenon DEF Asleep
<1>11. ASSUME NEW c \in Cpus, ApStart(c) PROVE Untroubled'
  <2>1. c # Bsp /\ idx = c /\ pc[Bsp] = "wait"
    BY <1>0, <1>11, Zenon DEF ApStart, Starting, Asleep
  <2>2. mailbox \in LowPages
    BY <1>0, <1>11, <2>1, Zenon DEF ApStart, Stacks, Asleep, Init1ToOthers
  <2>3. pc' = [pc EXCEPT ![c] = "mp_enter"] /\ pg_dir' = [pg_dir EXCEPT ![c] = "entry"]
    BY <1>11, <2>2, Zenon DEF ApStart
  <2>4. pc[c] = "ap_start" /\ UNCHANGED <<lapic, kvm_built, gdt, ptable, runnable, proc>>
    BY <1>11, Zenon DEF ApStart
  <2>. QED BY <1>a, <2>1, <2>3, <2>4, Zenon
<1>12. ASSUME NEW c \in Cpus, MpEnter(c) PROVE Untroubled'
  <2>1. c # Bsp /\ pc[Bsp] = "wait"
    BY <1>0, <1>12, Zenon DEF MpEnter, Starting
  <2>2. kvm_built /\ lapic = "Some"
    BY <2>1, Zenon
  <2>3. pc' = [pc EXCEPT ![c] = "seginit"] /\ pg_dir' = [pg_dir EXCEPT ![c] = "kernel"]
    BY <1>12, <2>2, Zenon DEF MpEnter
  <2>4. pc[c] = "mp_enter" /\ UNCHANGED <<lapic, kvm_built, gdt, ptable, runnable, proc>>
    BY <1>12, Zenon DEF MpEnter
  <2>. QED BY <1>a, <2>1, <2>2, <2>3, <2>4, Zenon
<1>13. ASSUME NEW c \in Cpus, Seginit(c) PROVE Untroubled'
  <2>1. MyCpuOk(c) /\ pc[c] = "seginit"
    BY <1>13, Zenon DEF Seginit
  <2>2. /\ \E l \in {"trap_init", "idt_init"} : pc' = [pc EXCEPT ![c] = l]
        /\ gdt' = [gdt EXCEPT ![c] = TRUE]
    BY <1>13, <2>1, Zenon DEF Seginit
  <2>3. UNCHANGED <<lapic, kvm_built, pg_dir, ptable, runnable, proc>>
    BY <1>13, Zenon DEF Seginit
  <2>. QED BY <1>a, <1>b, <2>1, <2>2, <2>3, Zenon
<1>14. ASSUME NEW c \in Cpus, MpMain(c) PROVE Untroubled'
  <2>1. gdt[c] /\ MyCpuOk(c) /\ pc[c] = "idt_init"
    BY <1>0, <1>14, Zenon DEF MpMain, Prepared
  <2>2. pc' = [pc EXCEPT ![c] = "sti"]
    BY <1>14, <2>1, Zenon DEF MpMain
  <2>3. UNCHANGED <<lapic, kvm_built, pg_dir, gdt, ptable, runnable, proc>>
    BY <1>14, Zenon DEF MpMain
  <2>. QED BY <1>a, <2>1, <2>2, <2>3, Zenon
<1>15. ASSUME NEW c \in Cpus, LockPtable(c) PROVE Untroubled'
  <2>1. ptable # c
    BY <1>15, Zenon DEF LockPtable
  <2>2. \/ pc[c] = "lock" /\ pc' = [pc EXCEPT ![c] = "pick"]
        \/ pc[c] = "ui_lock" /\ pc' = [pc EXCEPT ![c] = "ui_alloc"]
    BY <1>15, <2>1, Zenon DEF LockPtable
  <2>3. ptable' = c /\ UNCHANGED <<lapic, kvm_built, pg_dir, gdt, runnable, proc>>
    BY <1>15, Zenon DEF LockPtable
  <2>4. CASE pc[c] = "lock" /\ pc' = [pc EXCEPT ![c] = "pick"]
    BY <1>a, <2>3, <2>4, Zenon
  <2>5. CASE pc[c] = "ui_lock" /\ pc' = [pc EXCEPT ![c] = "ui_alloc"]
    <3>1. c = Bsp
      BY <1>0, <2>5, Zenon DEF Starting, InUserInit
    <3>. QED BY <1>a, <2>3, <2>5, <3>1, Zenon
  <2>. QED BY <2>2, <2>4, <2>5, Zenon
<1>16. ASSUME NEW c \in Cpus, Sti(c) PROVE Untroubled'
  BY <1>a, <1>16, Zenon DEF Sti
<1>17. ASSUME NEW c \in Cpus, ClearCurrent(c) PROVE Untroubled'
  <2>1. MyCpuOk(c) /\ pc[c] = "clear"
    BY <1>0, <1>17, Zenon DEF ClearCurrent, Prepared
  <2>2. pc' = [pc EXCEPT ![c] = "lock"]
    BY <1>17, <2>1, Zenon DEF ClearCurrent
  <2>3. UNCHANGED <<lapic, kvm_built, pg_dir, gdt, ptable, runnable, proc>>
    BY <1>17, Zenon DEF ClearCurrent
  <2>. QED BY <1>a, <2>1, <2>2, <2>3, Zenon
<1>18. ASSUME NEW c \in Cpus, GetRunnable(c) PROVE Untroubled'
  <2>1. pc[c] = "pick" /\ UNCHANGED <<lapic, kvm_built, pg_dir, gdt, proc>> /\ ptable = c
    BY <1>0, <1>18, Zenon DEF GetRunnable, Dispatch
  <2>2. CASE runnable = <<>>
    <3>1. pc' = [pc EXCEPT ![c] = "clear"] /\ ptable' = -1 /\ runnable' = runnable
      BY <1>18, <2>2, Zenon DEF GetRunnable
    <3>. QED BY <1>a, <1>b, <2>1, <2>2, <3>1, Zenon
  <2>3. CASE runnable # <<>>
    <3>1. pc' = [pc EXCEPT ![c] = "switch_uvm"] /\ ptable' = ptable
      BY <1>18, <2>3, Zenon DEF GetRunnable
    <3>. QED BY <1>a, <2>1, <2>3, <3>1, Zenon
  <2>. QED BY <2>2, <2>3, Zenon
<1>19. ASSUME NEW c \in Cpus, SwitchUvm(c) PROVE Untroubled'
  <2>1. pc[c] = "switch_uvm" /\ plock # c /\ proc.kernel_stack # NoPage
    BY <1>0, <1>19, Zenon DEF SwitchUvm, Dispatch
  <2>2. pc' = [pc EXCEPT ![c] = "set_running"] /\ pg_dir' = [pg_dir EXCEPT ![c] = "init"]
    BY <1>19, <2>1, Zenon DEF SwitchUvm
  <2>3. UNCHANGED <<lapic, kvm_built, gdt, ptable, runnable, proc>>
    BY <1>19, Zenon DEF SwitchUvm
  <2>. QED BY <1>a, <2>1, <2>2, <2>3, Zenon
<1>20. ASSUME NEW c \in Cpus, SetRunning(c) PROVE Untroubled'
  <2>1. pc[c] = "set_running" /\ plock # c
    BY <1>0, <1>20, Zenon DEF SetRunning, Dispatch
  <2>2. pc' = [pc EXCEPT ![c] = "switch"] /\ proc' = [proc EXCEPT !.state = "Running"]
    BY <1>20, <2>1, Zenon DEF SetRunning
  <2>3. proc'.kernel_stack = proc.kernel_stack
    BY <1>0, <2>2, Zenon DEF Types, Procs
  <2>4. UNCHANGED <<lapic, kvm_built, pg_dir, gdt, ptable, runnable>>
    BY <1>20, Zenon DEF SetRunning
  <2>. QED BY <1>a, <2>1, <2>2, <2>3, <2>4, Zenon
<1>21. ASSUME NEW c \in Cpus, Switch(c) PROVE Untroubled'
  <2>1. pc[c] = "switch" /\ plock # c
    BY <1>0, <1>21, Zenon DEF Switch, Dispatch
  <2>2. pc' = [pc EXCEPT ![c] = "forkret"]
    BY <1>21, <2>1, Zenon DEF Switch
  <2>3. UNCHANGED <<lapic, kvm_built, pg_dir, gdt, ptable, runnable, proc>>
    BY <1>21, Zenon DEF Switch
  <2>. QED BY <1>a, <2>1, <2>2, <2>3, Zenon
<1>22. ASSUME NEW c \in Cpus, Forkret(c) PROVE Untroubled'
  BY <1>a, <1>22, Zenon DEF Forkret
<1>. QED
  BY <1>1, <1>2, <1>3, <1>4, <1>5, <1>6, <1>7, <1>8, <1>9, <1>10, <1>11, <1>12, <1>13,
     <1>14, <1>15, <1>16, <1>17, <1>18, <1>19, <1>20, <1>21, <1>22, Zenon
  DEF Next, BootStep, ApStep, CpuStep

\* On a machine with the pages it needs, no CPU faults or panics in main(), while it is being
\* started or in its scheduler, but for the todo!() on the CPU that has dispatched init.
THEOREM NeverPanics == EnoughPages => (Spec => []OnlyTodoPanics)
<1>. SUFFICES ASSUME EnoughPages PROVE Spec => []OnlyTodoPanics
  BY Zenon
<1>1. Init => Heap /\ Untroubled
  BY BspIsCpu, KernelAssumption DEF Init, Heap, Untroubled, Holding, InBody, Entered, Cpus
<1>2. Inv /\ Heap /\ Untroubled /\ [Next]_vars => Heap' /\ Untroubled'
  <2>. SUFFICES ASSUME Inv, Heap, Untroubled, [Next]_vars PROVE Heap' /\ Untroubled'
    BY Zenon
  <2>1. CASE Next
    BY <2>1, HeapStep, UntroubledStep, Zenon DEF Inv
  <2>2. CASE UNCHANGED vars
    BY <2>2, Zenon DEF vars, Heap, Untroubled, MyCpuOk
  <2>. QED BY <2>1, <2>2, Zenon
<1>3. Inv /\ Untroubled => OnlyTodoPanics
  BY Zenon DEF Inv, Dispatch, Untroubled, OnlyTodoPanics, InBody, Entered
<1>. QED BY <1>1, <1>2, <1>3, KernelInvariant, PTL DEF Spec
=============================================================================
