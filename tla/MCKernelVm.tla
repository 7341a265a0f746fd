----------------------------- MODULE MCKernelVm -----------------------------
(***************************************************************************)
(* 64 pages of 2 bytes under 8 directory entries. KERNBASE is page 32,     *)
(* memory ends at page 22, devices start at page 59: ranges begin, end and *)
(* meet in the middle of a table. The kernel's text ends anywhere below    *)
(* the heap, which has pages 8 to 21.                                      *)
(***************************************************************************)
EXTENDS KernelVm

MCDataSymbols == {68, 70, 72, 74, 76, 78}
MCHeapPages == [i \in 1..14 |-> 14 + 2 * i]
=============================================================================
