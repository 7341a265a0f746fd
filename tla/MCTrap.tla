------------------------------- MODULE MCTrap -------------------------------
(***************************************************************************)
(* The interrupts the kernel opens: timer, keyboard, disk and APIC error   *)
(* (whose priority class is above the others'). ErrVectors are the ones of *)
(* the Intel manual.                                                       *)
(***************************************************************************)
EXTENDS Trap

MCIrqs == {32, 33, 46, 51}
MCErrVectors == {8, 10, 11, 12, 13, 14, 17}
=============================================================================
