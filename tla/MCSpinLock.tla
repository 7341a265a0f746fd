----------------------------- MODULE MCSpinLock -----------------------------
(* Two CPUs contending for the process table's lock and, under it or alone,  *)
(* the heap's lock, as scheduler() and user_init() do: the smallest instance *)
(* with nesting and contention.                                              *)
EXTENDS SpinLock

CONSTANTS ptable, kheap

MCCpus == {0, 1}
MCLocks == {ptable, kheap}
MCNesting == {<<ptable, kheap>>}
=============================================================================
