------------------------------ MODULE MCKernel ------------------------------
(***************************************************************************)
(* Three processors, the boot CPU in the middle of cpus() so that          *)
(* start_others() starts one before and one after skipping it. A directory *)
(* has one page table, and there is not a page more than main() needs.     *)
(***************************************************************************)
EXTENDS Kernel

CONSTANTS p1, p2, p3, p4, h1, h2, h3, h4, h5

MCLowPages == {p1, p2, p3, p4}
MCHighPages == {h1, h2, h3, h4, h5}

ASSUME MCEnoughPages == EnoughPages
=============================================================================
