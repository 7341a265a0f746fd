-------------------------------- MODULE Boot --------------------------------
(***************************************************************************)
(* The boot loader (bootloader/src/main.rs, elf.rs): boot_main() reads the *)
(* first page of the kernel's ELF file to a scratch page, then copies each *)
(* program segment to its physical address, whole disk sectors at a time,  *)
(* and zeroes the rest of the segment. It "might copy more than asked",    *)
(* before and after the segment, and it reads the program headers from the *)
(* scratch page while the copying goes on.                                 *)
(*                                                                         *)
(* Byte i of the file is the number i; the ELF magic and e_entry are byte  *)
(* 0 and the i-th program header is byte e_phoff + i.                      *)
(***************************************************************************)
EXTENDS Integers, Sequences

CONSTANTS
    SECTOR_SIZE, PAGE_SIZE,
    MemSize,      \* bytes of physical memory
    FileSize,     \* bytes of the kernel file; zeros follow it on the disk
    LoaderAt,     \* the loader's stack (one sector) and its code (one sector)
    ElfAt,        \* the scratch page, 0x10000
    e_phoff,
    Layouts       \* the sequences of program headers the linker may write

ASSUME BootAssumption ==
    /\ SECTOR_SIZE \in Nat \ {0} /\ PAGE_SIZE \in Nat \ {0}
    /\ MemSize \in Nat /\ FileSize \in Nat /\ LoaderAt \in Nat /\ ElfAt \in Nat
    /\ PAGE_SIZE % SECTOR_SIZE = 0 /\ MemSize % PAGE_SIZE = 0
    /\ LoaderAt % SECTOR_SIZE = 0 /\ ElfAt % PAGE_SIZE = 0
    /\ LoaderAt + 2 * SECTOR_SIZE <= ElfAt /\ ElfAt + PAGE_SIZE <= MemSize

Zero == -1
Other == -2    \* the boot sector, and what memory held before

Loader == LoaderAt .. LoaderAt + 2 * SECTOR_SIZE - 1
Scratch == ElfAt .. ElfAt + PAGE_SIZE - 1

InFile(s) == s.p_paddr .. s.p_paddr + s.p_filesz - 1
InMemory(s) == s.p_paddr .. s.p_paddr + s.p_memsz - 1

PagesOf(bytes) == {b \div PAGE_SIZE : b \in bytes}

\* A header for which nothing is read or zeroed, as the linker's PT_GNU_STACK: the
\* loader does not look at p_type.
Empty(s) == s.p_memsz = 0 /\ s.p_paddr % SECTOR_SIZE = 0

\* read_segment reads the sector of p_paddr even for a segment without bytes,
\* when it does not start on a sector.
Touched(s) == IF Empty(s) THEN {} ELSE InMemory(s) \cup {s.p_paddr}

ProgramHeaders == [p_offset : Nat, p_paddr : Nat, p_filesz : Nat, p_memsz : Nat]

\* What the linker guarantees (kernel.ld): offsets and addresses agree modulo
\* the page size, segments that are not empty ascend, the scratch page and the loader's memory
\* are left free, and two segments meet in a page only where the second goes
\* on in the file and in memory, with no zero-filled part in between.
Linked(layout) ==
    /\ layout \in Seq(ProgramHeaders)
    /\ e_phoff \in 1 .. PAGE_SIZE - Len(layout)
    /\ \A i \in DOMAIN layout :
        LET s == layout[i] IN
        /\ s.p_offset % PAGE_SIZE = s.p_paddr % PAGE_SIZE
        /\ s.p_filesz <= s.p_memsz /\ s.p_offset + s.p_filesz <= FileSize
        /\ s.p_paddr + s.p_memsz <= MemSize
        /\ Touched(s) \cap Loader = {} /\ PagesOf(Touched(s)) \cap PagesOf(Scratch) = {}
        /\ \A j \in 1 .. i - 1 :
            LET r == layout[j] IN
            /\ Empty(r) \/ Empty(s) \/ r.p_paddr + r.p_memsz <= s.p_paddr
            /\ \/ PagesOf(InMemory(r)) \cap PagesOf(Touched(s)) = {}
               \/ /\ r.p_memsz = r.p_filesz
                  /\ r.p_paddr - r.p_offset = s.p_paddr - s.p_offset

ASSUME LayoutAssumption == \A layout \in Layouts : Linked(layout)

VARIABLES
    mem,               \* physical memory
    is_elf, layout,    \* the file on the disk
    ph,                \* program header of the segment being loaded, 0: the ELF page
    pa, end_pa, offset,\* locals of read_segment; offset counts sectors
    pc

vars == <<mem, is_elf, layout, ph, pa, end_pa, offset, pc>>

\* start: the loader runs at LoaderAt, interrupts off, and calls boot_main.
Init ==
    /\ mem = [a \in 0 .. MemSize - 1 |-> Other]
    /\ is_elf \in BOOLEAN /\ layout \in Layouts
    /\ ph = 0 /\ pa = 0 /\ end_pa = 0 /\ offset = 0
    /\ pc = "start"

\* Byte k of a sector of the disk: sector 0 is the boot loader's (dd seek=1).
Disk(sector, k) ==
    LET i == (sector - 1) * SECTOR_SIZE + k
    IN IF sector = 0 THEN Other ELSE IF i < FileSize THEN i ELSE Zero

-----------------------------------------------------------------------------
\* Mutant of ReadSegment: the whole offset is subtracted.
ReadSegmentSubOffset(p, count, off) ==
    /\ end_pa' = p + count
    /\ pa' = p - off
    /\ offset' = off \div SECTOR_SIZE + 1
    /\ pc' = "read"

\* Mutant of ReadSegment: the copy starts at p, sector aligned in the file or not.
ReadSegmentNoSub(p, count, off) ==
    /\ end_pa' = p + count
    /\ pa' = p
    /\ offset' = off \div SECTOR_SIZE + 1
    /\ pc' = "read"

\* Entry of read_segment: round down to a sector; the kernel starts at sector 1.
ReadSegment(p, count, off) ==
    /\ end_pa' = p + count
    /\ pa' = p - (off % SECTOR_SIZE)
    /\ offset' = off \div SECTOR_SIZE + 1
    /\ pc' = "read"

BootMain ==
    /\ pc = "start"
    /\ ReadSegment(ElfAt, PAGE_SIZE, 0)
    /\ UNCHANGED <<mem, is_elf, layout, ph>>

\* Mutant of ReadSector: the loop test lets pa = end_pa pass.
ReadSectorOneMore ==
    /\ pc = "read" /\ pa <= end_pa
    /\ mem' = [a \in DOMAIN mem |->
                  IF a \in pa .. pa + SECTOR_SIZE - 1 THEN Disk(offset, a - pa) ELSE mem[a]]
    /\ pa' = pa + SECTOR_SIZE /\ offset' = offset + 1
    /\ UNCHANGED <<is_elf, layout, ph, end_pa, pc>>

\* Mutant of ReadSector: pa is not advanced.
ReadSectorAgain ==
    /\ pc = "read" /\ pa < end_pa
    /\ mem' = [a \in DOMAIN mem |->
                  IF a \in pa .. pa + SECTOR_SIZE - 1 THEN Disk(offset, a - pa) ELSE mem[a]]
    /\ offset' = (offset + 1) % FileSize
    /\ UNCHANGED <<is_elf, layout, ph, pa, end_pa, pc>>

\* One turn of read_segment's loop: read_sector copies a whole sector.
ReadSector ==
    /\ pc = "read" /\ pa < end_pa
    /\ mem' = [a \in DOMAIN mem |->
                  IF a \in pa .. pa + SECTOR_SIZE - 1 THEN Disk(offset, a - pa) ELSE mem[a]]
    /\ pa' = pa + SECTOR_SIZE /\ offset' = offset + 1
    /\ UNCHANGED <<is_elf, layout, ph, end_pa, pc>>

\* The loop ends: the ELF page is verified, a segment's rest is zeroed (stosb).
ReadDone ==
    /\ pc = "read" /\ pa >= end_pa
    /\ IF ph = 0
       THEN /\ pc' = IF is_elf THEN "next" ELSE "spin"
            /\ UNCHANGED mem
       ELSE /\ pc' = "next"
            /\ mem' = [a \in DOMAIN mem |->
                          IF a \in InMemory(layout[ph]) \ InFile(layout[ph]) THEN Zero ELSE mem[a]]
    /\ UNCHANGED <<is_elf, layout, ph, pa, end_pa, offset>>

\* The next program header, read from the scratch page as it is now. One that
\* was overwritten sends the loader astray.
NextSegment ==
    /\ pc = "next" /\ ph < Len(layout)
    /\ ph' = ph + 1
    /\ IF mem[ElfAt + e_phoff + ph] = e_phoff + ph
       THEN ReadSegment(layout[ph'].p_paddr, layout[ph'].p_filesz, layout[ph'].p_offset)
       ELSE pc' = "astray" /\ UNCHANGED <<pa, end_pa, offset>>
    /\ UNCHANGED <<mem, is_elf, layout>>

\* The jump to e_entry, also read from the scratch page.
EnterKernel ==
    /\ pc = "next" /\ ph = Len(layout)
    /\ pc' = IF mem[ElfAt] = 0 THEN "kernel" ELSE "astray"
    /\ UNCHANGED <<mem, is_elf, layout, ph, pa, end_pa, offset>>

Next == BootMain \/ ReadSector \/ ReadDone \/ NextSegment \/ EnterKernel

Spec == Init /\ [][Next]_vars
FairSpec == Spec /\ WF_vars(Next)

-----------------------------------------------------------------------------
(* Properties *)

\* Every sector read lies in memory, up to the sector read_segment's last
\* pointer step may reach.
TypeOK ==
    /\ mem \in [0 .. MemSize - 1 -> {Zero, Other} \cup 0 .. FileSize - 1]
    /\ is_elf \in BOOLEAN /\ layout \in Layouts
    /\ ph \in 0 .. Len(layout)
    /\ pa \in 0 .. MemSize /\ end_pa \in 0 .. MemSize /\ offset \in Nat
    /\ pc \in {"start", "read", "next", "spin", "astray", "kernel"}

\* A segment is in memory as its program header says.
Loaded(s) ==
    \A a \in InMemory(s) :
        mem[a] = IF a \in InFile(s) THEN a - s.p_paddr + s.p_offset ELSE Zero

\* When the kernel is entered each segment is in memory as the ELF file says,
\* the bytes of the file and then zeros, although every read_segment may have
\* copied more than asked over what was loaded before it.
LoadedExactly ==
    pc = "kernel" => \A i \in DOMAIN layout : Loaded(layout[i])

\* What the loader still needs is never overwritten: its own stack and code,
\* and from the time it is read the ELF page with the program headers.
LoaderIntact ==
    /\ \A a \in Loader : mem[a] = Other
    /\ pc # "start" /\ (ph # 0 \/ pc = "next") =>
          \A a \in Scratch : mem[a] = Disk(1, a - ElfAt)

\* boot_main enters the kernel if the file is an ELF file and comes back to
\* the spin loop after its call if not.
Boots == <>[](pc = IF is_elf THEN "kernel" ELSE "spin")
=============================================================================
