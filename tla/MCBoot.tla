------------------------------- MODULE MCBoot -------------------------------
(***************************************************************************)
(* Sectors of 2 bytes and pages of 4 sectors. Memory is, in order, the     *)
(* page of ap_start and the loader (0x7000, 0x7c00), the scratch page      *)
(* (0x10000) and three pages for the kernel (0x100000). The layouts have   *)
(* the AP's entry code, text, rodata going on in the middle of a sector,   *)
(* data with bss on a page of its own, and the linker's empty header.      *)
(***************************************************************************)
EXTENDS Boot

Segment(pos, addr, filesz, memsz) ==
    [p_offset |-> pos, p_paddr |-> addr, p_filesz |-> filesz, p_memsz |-> memsz]

\* PT_GNU_STACK, which the linker may append.
GnuStack == Segment(0, 0, 0, 0)

MCLayouts ==
    { << Segment(8, 0, ap, ap), Segment(16, 16, text, text),
         Segment(16 + text, 16 + text, ro, ro), Segment(d, 32, data, data + bss) >> \o stack :
        ap \in {1, 4}, text \in {3, 4, 9}, ro \in {0, 1, 4}, d \in {32, 40},
        data \in {0, 1, 3}, bss \in {0, 1, 4}, stack \in {<< >>, << GnuStack >>} }
=============================================================================
