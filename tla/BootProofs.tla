------------------------------ MODULE BootProofs ------------------------------
(***************************************************************************)
(* The boot loader, for every sector and page size, every memory and every *)
(* layout the linker may write: the whole sectors that read_segment copies *)
(* never spoil what is in memory already. A sector holds a byte of its     *)
(* segment and lies in one page, so it misses the scratch page and the     *)
(* loader, and where it meets an earlier segment it brings the same bytes. *)
(***************************************************************************)
EXTENDS Boot, TLAPS

-----------------------------------------------------------------------------
(* Sectors and pages *)

\* Division with remainder.
LEMMA Euclid ==
    ASSUME NEW n \in Nat \ {0}, NEW a \in Nat
    PROVE  a \div n \in Nat /\ a % n \in 0 .. n - 1 /\ a = n * (a \div n) + (a % n)
<1>1. a \div n \in Int /\ a % n \in 0 .. n - 1
  OBVIOUS
<1>2. a = n * (a \div n) + (a % n)
  OBVIOUS
<1>3. a \div n >= 0
  OBVIOUS
<1>. QED BY <1>1, <1>2, <1>3

\* The quotient and the remainder are unique.
LEMMA Quotient ==
    ASSUME NEW n \in Nat \ {0}, NEW q \in Nat, NEW r \in 0 .. n - 1
    PROVE  (n * q + r) \div n = q /\ (n * q + r) % n = r
OBVIOUS

\* The multiples of n.
LEMMA Multiples ==
    ASSUME NEW n \in Nat \ {0}, NEW a \in Nat, NEW b \in Nat, a % n = 0, b % n = 0
    PROVE  (a + n) % n = 0 /\ (a < b => a + n <= b) /\ (a + b) % n = 0
<1>. DEFINE p == a \div n  q == b \div n
<1>1. p \in Nat /\ a = n * p + 0 /\ q \in Nat /\ b = n * q + 0
  BY Euclid, Z3
<1>. HIDE DEF p, q
<1>2. (a + n) = n * (p + 1) + 0 /\ (a + b) = n * (p + q) + 0 /\ p + 1 \in Nat /\ p + q \in Nat
  BY <1>1
<1>3. (a + n) % n = 0 /\ (a + b) % n = 0
  <2>1. 0 \in 0..n-1 
    OBVIOUS
  <2>2. (n * (p + 1) + 0) % n = 0 /\ (n * (p + q) + 0) % n = 0
    BY <1>2, <2>1, Quotient, Zenon
  <2>. QED BY <1>2, <2>2, Zenon
<1>4. ASSUME a < b PROVE a + n <= b
  <2>1. p < q
    BY <1>1, <1>4
  <2>2. n * (p + 1) <= n * q
    BY <1>1, <2>1
  <2>. QED BY <1>1, <2>2
<1>. QED BY <1>3, <1>4

\* Numbers equal modulo a multiple of n are equal modulo n.
LEMMA ModOfMod ==
    ASSUME NEW n \in Nat \ {0}, NEW m \in Nat \ {0}, m % n = 0, NEW a \in Nat
    PROVE  (a % m) % n = a % n
<1>. DEFINE k == m \div n  q == a \div m  r == a % m  
<1>1. q \in Nat /\ r \in 0 .. m - 1 /\ a = m * q + r
  BY Euclid, Zenon
<1>a. k \in Nat /\ m = n * k
  <2>1. k \in Nat /\ m = n * k + (m % n)
    BY Euclid, Zenon
  <2>. HIDE DEF k
  <2>. QED BY <2>1
<1>. HIDE DEF k, q, r
<1>. DEFINE u == r \div n v == r % n
<1>2. u \in Nat /\ v \in 0..n-1 /\ r = n * u + v
  <2>1. r \in Nat
    BY <1>1
  <2>. QED BY <2>1, Euclid, Zenon
<1>. HIDE DEF u, v
<1>3. a = n * (k * q + u) + v /\ k * q + u \in Nat
  BY <1>1, <1>a, <1>2
<1>4. a % n = v
  BY <1>2, <1>3, Quotient, Zenon
<1>. QED BY <1>4 DEF r, v

\* A sector lies in one page.
LEMMA SectorInPage ==
    ASSUME NEW n \in Nat \ {0}, NEW m \in Nat \ {0}, m % n = 0,
           NEW p \in Nat, p % n = 0, NEW a \in p .. p + n - 1
    PROVE  a \div m = p \div m
<1>. DEFINE k == m \div n  q == p \div m  r == p % m 
<1>1. q \in Nat /\ r \in 0 .. m - 1 /\ p = m * q + r
  BY Euclid, Zenon
<1>2. r % n = 0
  BY ModOfMod, Zenon
<1>. HIDE DEF k, q, r
<1>3. r + n <= m
  <2>1. r \in Nat /\ m \in Nat /\ r < m
    BY <1>1
  <2>. QED BY <1>2, <2>1, Multiples, Zenon
<1>. DEFINE d == r + (a - p)
<1>4. a = m * q + d /\ d \in 0..m-1
  BY <1>1, <1>3
<1>. HIDE DEF d
<1>5. a \div m = q
  BY <1>1, <1>4, Quotient, Zenon
<1>. QED BY <1>5 DEF q

-----------------------------------------------------------------------------
(* The inductive invariant *)

\* Where byte 0 of what is being read belongs: the scratch page, or ahead of the segment by
\* its offset in the file.
Base(i) == IF i = 0 THEN ElfAt ELSE layout[i].p_paddr - layout[i].p_offset

\* read_segment's locals: pa and offset move on together, a sector at a time.
Position ==
    pc = "read" =>
        /\ pa % SECTOR_SIZE = 0 /\ offset # 0
        /\ SECTOR_SIZE * (offset - 1) = pa - Base(ph)
        /\ ph = 0 => pa >= ElfAt /\ end_pa = ElfAt + PAGE_SIZE
        /\ ph # 0 => /\ pa > layout[ph].p_paddr - SECTOR_SIZE
                     /\ end_pa = layout[ph].p_paddr + layout[ph].p_filesz

\* What has been copied so far: below pa of the current segment, and all of the earlier ones.
Copied ==
    /\ pc = "read" /\ ph # 0 =>
         \A a \in InFile(layout[ph]) :
             a < pa => mem[a] = a - layout[ph].p_paddr + layout[ph].p_offset
    /\ pc = "read" /\ ph = 0 => \A a \in Scratch : a < pa => mem[a] = Disk(1, a - ElfAt)
    /\ \A i \in 1 .. Len(layout) :
         i < ph \/ (i = ph /\ pc \notin {"read", "astray"}) => Loaded(layout[i])

Inv ==
    /\ TypeOK /\ Position /\ Copied /\ LoaderIntact
    /\ pc = "start" => ph = 0
    /\ pc = "kernel" => ph = Len(layout)

-----------------------------------------------------------------------------
(* The layout *)

\* What the linker guarantees of the i-th segment.
LEMMA Segment ==
    ASSUME layout \in Layouts, NEW i \in 1 .. Len(layout)
    PROVE  /\ layout[i] \in ProgramHeaders
           /\ layout[i].p_offset % PAGE_SIZE = layout[i].p_paddr % PAGE_SIZE
           /\ layout[i].p_filesz <= layout[i].p_memsz
           /\ layout[i].p_offset + layout[i].p_filesz <= FileSize
           /\ layout[i].p_paddr + layout[i].p_memsz <= MemSize
           /\ Touched(layout[i]) \cap Loader = {}
           /\ PagesOf(Touched(layout[i])) \cap PagesOf(Scratch) = {}
<1>1. Linked(layout)
  BY LayoutAssumption, Zenon
<1>2. layout \in Seq(ProgramHeaders)
  BY <1>1, Zenon DEF Linked
<1>3. i \in DOMAIN layout /\ layout[i] \in ProgramHeaders
  BY <1>2
<1>. QED BY <1>1, <1>3, Zenon DEF Linked

\* ... and of an earlier one.
LEMMA Earlier ==
    ASSUME layout \in Layouts, NEW i \in 1 .. Len(layout), NEW j \in 1 .. i - 1
    PROVE  /\ j \in 1 .. Len(layout)
           /\ \/ Empty(layout[j]) \/ Empty(layout[i])
              \/ layout[j].p_paddr + layout[j].p_memsz <= layout[i].p_paddr
           /\ \/ PagesOf(InMemory(layout[j])) \cap PagesOf(Touched(layout[i])) = {}
              \/ /\ layout[j].p_memsz = layout[j].p_filesz
                 /\ layout[j].p_paddr - layout[j].p_offset
                      = layout[i].p_paddr - layout[i].p_offset
<1>1. Linked(layout)
  BY LayoutAssumption, Zenon
<1>2. layout \in Seq(ProgramHeaders)
  BY <1>1, Zenon DEF Linked
<1>3. i \in DOMAIN layout /\ j \in 1 .. Len(layout)
  BY <1>2
<1>. QED BY <1>1, <1>3, Zenon DEF Linked

\* The fields are numbers.
LEMMA Fields ==
    ASSUME layout \in Layouts, NEW i \in 1 .. Len(layout)
    PROVE  /\ layout[i].p_offset \in Nat /\ layout[i].p_paddr \in Nat
           /\ layout[i].p_filesz \in Nat /\ layout[i].p_memsz \in Nat
<1>1. layout[i] \in ProgramHeaders
  BY Segment, Zenon
<1>. QED BY <1>1 DEF ProgramHeaders

\* The number of program headers is a number.
LEMMA Count ==
    ASSUME layout \in Layouts
    PROVE  Len(layout) \in Nat /\ DOMAIN layout = 1 .. Len(layout)
<1>1. layout \in Seq(ProgramHeaders)
  BY LayoutAssumption, Zenon DEF Linked
<1>. QED BY <1>1

\* The scratch page and the loader are made of whole sectors.
LEMMA Sectors ==
    /\ ElfAt % SECTOR_SIZE = 0 /\ (ElfAt + PAGE_SIZE) % SECTOR_SIZE = 0
    /\ MemSize % SECTOR_SIZE = 0 /\ (LoaderAt + 2 * SECTOR_SIZE) % SECTOR_SIZE = 0
<1>. USE BootAssumption
<1>0. 0 \in Nat /\ 0 % SECTOR_SIZE = 0 
  OBVIOUS
<1>1. ElfAt % SECTOR_SIZE = 0 /\ MemSize % SECTOR_SIZE = 0
  <2>1. (ElfAt % PAGE_SIZE) % SECTOR_SIZE = ElfAt % SECTOR_SIZE
    BY ModOfMod, Zenon
  <2>2. (MemSize % PAGE_SIZE) % SECTOR_SIZE = MemSize % SECTOR_SIZE
    BY ModOfMod, Zenon
  <2>. QED BY <1>0, <2>1, <2>2, Zenon
<1>2. (ElfAt + PAGE_SIZE) % SECTOR_SIZE = 0
  <2>1. PAGE_SIZE \in Nat
    OBVIOUS
  <2>. QED BY <1>1, <2>1, Multiples, Zenon
<1>3. (LoaderAt + 2 * SECTOR_SIZE) % SECTOR_SIZE = 0
  <2>1. (LoaderAt + SECTOR_SIZE) % SECTOR_SIZE = 0
    BY Multiples, Zenon
  <2>2. LoaderAt + SECTOR_SIZE \in Nat
    OBVIOUS
  <2>3. ((LoaderAt + SECTOR_SIZE) + SECTOR_SIZE) % SECTOR_SIZE = 0
    BY <2>1, <2>2, Multiples, Zenon
  <2>4. (LoaderAt + SECTOR_SIZE) + SECTOR_SIZE = LoaderAt + 2 * SECTOR_SIZE
    OBVIOUS
  <2>. QED BY <2>3, <2>4, Zenon
<1>. QED BY <1>1, <1>2, <1>3, Zenon

-----------------------------------------------------------------------------
(* read_segment's loop *)

\* The bytes the next turn writes.
Sector == pa .. pa + SECTOR_SIZE - 1

\* The locals are numbers, and the header being loaded is one of the layout.
LEMMA Locals ==
    ASSUME TypeOK
    PROVE  /\ pa \in Nat /\ end_pa \in Nat /\ offset \in Nat /\ ph \in Nat
           /\ pa <= MemSize /\ end_pa <= MemSize
           /\ layout \in Layouts /\ Len(layout) \in Nat
           /\ ph # 0 => ph \in 1 .. Len(layout)
<1>1. layout \in Layouts /\ Len(layout) \in Nat
  BY Count, Zenon DEF TypeOK
<1>2. pa \in 0 .. MemSize /\ end_pa \in 0 .. MemSize /\ offset \in Nat /\ ph \in 0 .. Len(layout)
  BY Zenon DEF TypeOK
<1>. QED BY <1>1, <1>2, BootAssumption

\* A sector read for a segment holds a byte of it, or the byte where it would start.
LEMMA SectorMeets ==
    ASSUME TypeOK, Position, pc = "read", pa < end_pa, ph # 0
    PROVE  \E b \in Touched(layout[ph]) : b \in Sector
<1>. DEFINE s == layout[ph]
<1>1. /\ s.p_paddr \in Nat /\ s.p_filesz \in Nat /\ s.p_memsz \in Nat
      /\ s.p_filesz <= s.p_memsz
  BY Locals, Fields, Segment, Zenon
<1>2. pa > s.p_paddr - SECTOR_SIZE /\ end_pa = s.p_paddr + s.p_filesz
  BY Zenon DEF Position
<1>3. pa \in Nat
  BY Locals, Zenon
<1>. HIDE DEF s
<1>6. ~Empty(s)
  <2>. SUFFICES ASSUME s.p_memsz = 0, s.p_paddr % SECTOR_SIZE = 0 PROVE FALSE
    BY Zenon DEF Empty
  <2>1. pa % SECTOR_SIZE = 0
    BY Zenon DEF Position
  <2>2. pa < s.p_paddr
    BY <1>1, <1>2, <1>3
  <2>3. pa + SECTOR_SIZE <= s.p_paddr
    BY <1>1, <1>3, <2>1, <2>2, Multiples, BootAssumption, Zenon
  <2>. QED BY <1>1, <1>2, <1>3, <2>3, BootAssumption
<1>4. CASE pa <= s.p_paddr
  <2>1. s.p_paddr \in Sector
    BY <1>1, <1>2, <1>3, <1>4, BootAssumption DEF Sector
  <2>. QED BY <1>6, <2>1, Zenon DEF Touched, s
<1>5. CASE pa > s.p_paddr
  <2>1. pa \in Sector /\ pa \in InMemory(s)
    BY <1>1, <1>2, <1>3, <1>5, BootAssumption DEF Sector, InMemory
  <2>. QED BY <1>6, <2>1, Zenon DEF Touched, s
<1>. QED BY <1>1, <1>3, <1>4, <1>5

\* So it lies in a page of the segment.
LEMMA SectorPage ==
    ASSUME TypeOK, Position, pc = "read", pa < end_pa, ph # 0, NEW a \in Sector
    PROVE  a \div PAGE_SIZE \in PagesOf(Touched(layout[ph]))
<1>1. PICK b \in Touched(layout[ph]) : b \in Sector
  BY SectorMeets, Zenon
<1>2. pa \in Nat /\ pa % SECTOR_SIZE = 0
  BY Locals, Zenon DEF Position
<1>3. a \div PAGE_SIZE = pa \div PAGE_SIZE /\ b \div PAGE_SIZE = pa \div PAGE_SIZE
  <2>1. /\ SECTOR_SIZE \in Nat \ {0} /\ PAGE_SIZE \in Nat \ {0} /\ PAGE_SIZE % SECTOR_SIZE = 0
    BY BootAssumption, Zenon
  <2>2. \A c \in Sector : c \div PAGE_SIZE = pa \div PAGE_SIZE
    BY <1>2, <2>1, SectorInPage, Zenon DEF Sector
  <2>. QED BY <1>1, <2>2, Zenon
<1>. QED BY <1>1, <1>3, Zenon DEF PagesOf

\* It leaves the scratch page and the loader alone, ...
LEMMA SectorAway ==
    ASSUME TypeOK, Position, pc = "read", pa < end_pa, ph # 0
    PROVE  Sector \cap Scratch = {} /\ Sector \cap Loader = {}
<1>0. /\ PagesOf(Touched(layout[ph])) \cap PagesOf(Scratch) = {}
      /\ Touched(layout[ph]) \cap Loader = {}
  BY Locals, Segment, Zenon
<1>1. Sector \cap Scratch = {}
  <2>. SUFFICES ASSUME NEW a \in Sector, a \in Scratch PROVE FALSE
    BY Zenon
  <2>1. a \div PAGE_SIZE \in PagesOf(Scratch)
    BY Zenon DEF PagesOf
  <2>. QED BY <1>0, <2>1, SectorPage, Zenon
<1>2. Sector \cap Loader = {}
  <2>. SUFFICES ASSUME NEW a \in Sector, a \in Loader PROVE FALSE
    BY Zenon
  <2>1. PICK b \in Touched(layout[ph]) : b \in Sector
    BY SectorMeets, Zenon
  <2>2. pa \in Nat /\ pa % SECTOR_SIZE = 0
    BY Locals, Zenon DEF Position
  <2>. DEFINE end == LoaderAt + 2 * SECTOR_SIZE
  <2>3. end \in Nat /\ end % SECTOR_SIZE = 0
    BY Sectors, BootAssumption
  <2>4. /\ pa < LoaderAt => pa + SECTOR_SIZE <= LoaderAt
        /\ pa < end => pa + SECTOR_SIZE <= end
    <3>. HIDE DEF end
    <3>. QED BY <2>2, <2>3, Multiples, BootAssumption, Zenon
  <2>5. b \in Loader
    BY <2>1, <2>2, <2>4, BootAssumption DEF Sector, Loader
  <2>. QED BY <1>0, <2>1, <2>5, Zenon
<1>. QED BY <1>1, <1>2, Zenon

\* ... and meets an earlier segment only where the file goes on from it.
LEMMA SectorShared ==
    ASSUME TypeOK, Position, pc = "read", pa < end_pa, ph # 0,
           NEW j \in 1 .. ph - 1, NEW a \in Sector, a \in InMemory(layout[j])
    PROVE  /\ layout[j].p_memsz = layout[j].p_filesz
           /\ layout[j].p_paddr - layout[j].p_offset = Base(ph)
<1>1. a \div PAGE_SIZE \in PagesOf(InMemory(layout[j]))
  BY Zenon DEF PagesOf
<1>2. a \div PAGE_SIZE \in PagesOf(Touched(layout[ph]))
  BY SectorPage, Zenon
<1>. QED BY <1>1, <1>2, Locals, Earlier, Zenon DEF Base

\* The bytes of the disk it brings are those of the file that belong there.
LEMMA SectorBytes ==
    ASSUME TypeOK, Position, pc = "read", NEW a \in Sector
    PROVE  /\ Base(ph) \in Int /\ a \in Nat
           /\ Disk(offset, a - pa) = IF a - Base(ph) < FileSize THEN a - Base(ph) ELSE Zero
<1>1. pa \in Nat /\ offset \in Nat /\ offset # 0
  BY Locals, Zenon DEF Position
<1>2. SECTOR_SIZE * (offset - 1) = pa - Base(ph)
  BY Zenon DEF Position
<1>3. Base(ph) \in Int
  <2>1. CASE ph = 0
    BY <2>1, BootAssumption DEF Base
  <2>2. CASE ph # 0
    <3>1. layout[ph].p_paddr \in Nat /\ layout[ph].p_offset \in Nat
      BY <2>2, Locals, Fields, Zenon
    <3>. QED BY <2>2, <3>1 DEF Base
  <2>. QED BY <2>1, <2>2, Zenon
<1>4. a \in Int /\ a >= pa /\ SECTOR_SIZE \in Int
  BY <1>1, BootAssumption DEF Sector
<1>5. (offset - 1) * SECTOR_SIZE + (a - pa) = a - Base(ph)
  <2>1. (offset - 1) * SECTOR_SIZE = SECTOR_SIZE * (offset - 1)
    BY <1>1, <1>4
  <2>. DEFINE k == (offset - 1) * SECTOR_SIZE   d == Base(ph)
  <2>2. k = pa - d /\ d \in Int
    BY <1>2, <1>3, <2>1, Zenon
  <2>. HIDE DEF k, d
  <2>3. k + (a - pa) = a - d
    BY <1>1, <1>4, <2>2
  <2>. QED BY <2>3, Zenon DEF k, d
<1>6. Disk(offset, a - pa) = IF a - Base(ph) < FileSize THEN a - Base(ph) ELSE Zero
  BY <1>1, <1>5, Zenon DEF Disk
<1>. QED BY <1>1, <1>3, <1>4, <1>6

-----------------------------------------------------------------------------
(* The steps *)

\* Byte k of the kernel's file, from its first sector on.
LEMMA FileByte ==
    ASSUME NEW k \in Int PROVE Disk(1, k) = IF k < FileSize THEN k ELSE Zero
<1>1. (1 - 1) * SECTOR_SIZE + k = k /\ 1 # 0
  BY BootAssumption
<1>. QED BY <1>1, Zenon DEF Disk

\* The memory after a sector has been read.
LEMMA SectorWritten ==
    ASSUME TypeOK, Position, ReadSector
    PROVE  /\ mem' \in [0 .. MemSize - 1 -> {Zero, Other} \cup 0 .. FileSize - 1]
           /\ \A a \in 0 .. MemSize - 1 :
                mem'[a] = IF a \in Sector
                          THEN IF a - Base(ph) < FileSize THEN a - Base(ph) ELSE Zero
                          ELSE mem[a]
<1>. DEFINE B(a) == IF a - Base(ph) < FileSize THEN a - Base(ph) ELSE Zero
<1>1. pc = "read" /\ pa < end_pa
  BY Zenon DEF ReadSector
<1>2. /\ DOMAIN mem = 0 .. MemSize - 1
      /\ \A a \in 0 .. MemSize - 1 : mem[a] \in {Zero, Other} \cup 0 .. FileSize - 1
  BY Zenon DEF TypeOK
<1>3. mem' = [a \in 0 .. MemSize - 1 |-> IF a \in Sector THEN Disk(offset, a - pa) ELSE mem[a]]
  BY <1>2, Zenon DEF ReadSector, Sector
<1>4. \A a \in Sector : Disk(offset, a - pa) = B(a)
  BY <1>1, SectorBytes, Zenon
<1>5. \A a \in 0 .. MemSize - 1 : mem'[a] = IF a \in Sector THEN B(a) ELSE mem[a]
  BY <1>3, <1>4, Zenon
<1>6. \A a \in Sector : B(a) \in {Zero, Other} \cup 0 .. FileSize - 1
  <2>. SUFFICES ASSUME NEW a \in Sector PROVE B(a) \in {Zero} \cup 0 .. FileSize - 1
    BY Zenon
  <2>1. a - Base(ph) \in Nat
    <3>1. /\ pa \in Nat /\ offset \in Nat /\ offset # 0 /\ Base(ph) \in Int
          /\ SECTOR_SIZE * (offset - 1) = pa - Base(ph)
      BY <1>1, Locals, SectorBytes, Zenon DEF Position
    <3>2. a \in Int /\ a >= pa
      BY <3>1, BootAssumption DEF Sector
    <3>3. SECTOR_SIZE * (offset - 1) >= 0
      <4>1. offset - 1 \in Nat /\ SECTOR_SIZE \in Nat
        BY <3>1, BootAssumption
      <4>. QED BY <4>1
    <3>. HIDE DEF B
    <3>. QED BY <3>1, <3>2, <3>3
  <2>. QED BY <2>1, BootAssumption DEF Zero
<1>7. \A a \in 0 .. MemSize - 1 : mem'[a] \in {Zero, Other} \cup 0 .. FileSize - 1
  BY <1>2, <1>5, <1>6, Zenon
<1>. QED BY <1>3, <1>5, <1>7, Zenon

\* One turn of the loop.
LEMMA ReadSectorStep == ASSUME Inv, ReadSector PROVE Inv'
<1>. DEFINE s == layout[ph]
<1>1. /\ pc = "read" /\ pa < end_pa /\ pa' = pa + SECTOR_SIZE /\ offset' = offset + 1
      /\ UNCHANGED <<is_elf, layout, ph, end_pa, pc>>
  BY Zenon DEF ReadSector
<1>2. TypeOK /\ Position /\ Copied /\ LoaderIntact
  BY Zenon DEF Inv
<1>3. /\ pa \in Nat /\ end_pa \in Nat /\ offset \in Nat /\ ph \in Nat /\ end_pa <= MemSize
      /\ pa % SECTOR_SIZE = 0 /\ offset # 0 /\ SECTOR_SIZE * (offset - 1) = pa - Base(ph)
      /\ layout \in Layouts /\ Len(layout) \in Nat /\ (ph # 0 => ph \in 1 .. Len(layout))
  BY <1>1, <1>2, Locals, Zenon DEF Position
<1>4. TypeOK'
  <2>1. pa + SECTOR_SIZE <= MemSize
    <3>1. pa < MemSize
      BY <1>1, <1>3, BootAssumption
    <3>. QED BY <1>3, <3>1, Sectors, Multiples, BootAssumption, Zenon
  <2>2. pa' \in 0 .. MemSize /\ offset' \in Nat
    BY <1>1, <1>3, <2>1, BootAssumption
  <2>. QED BY <1>1, <1>2, <2>2, SectorWritten, Zenon DEF TypeOK
<1>5. Base(ph)' = Base(ph) /\ Base(ph) \in Int
  <2>1. pa \in Sector
    BY <1>3, BootAssumption DEF Sector
  <2>. QED BY <1>1, <1>2, <2>1, SectorBytes, Zenon DEF Base
<1>6. Position'
  <2>1. pa' % SECTOR_SIZE = 0 /\ offset' # 0
    <3>1. (pa + SECTOR_SIZE) % SECTOR_SIZE = 0
      BY <1>3, Multiples, BootAssumption, Zenon
    <3>. QED BY <1>1, <1>3, <3>1
  <2>2. SECTOR_SIZE * (offset' - 1) = pa' - Base(ph)'
    <3>1. SECTOR_SIZE * offset = SECTOR_SIZE * (offset - 1) + SECTOR_SIZE /\ offset' - 1 = offset
      BY <1>1, <1>3, BootAssumption
    <3>. DEFINE k == SECTOR_SIZE * (offset - 1)  d == Base(ph)
    <3>2. k = pa - d /\ d \in Int
      BY <1>3, <1>5, Zenon
    <3>. HIDE DEF k, d
    <3>3. k + SECTOR_SIZE = pa' - d
      BY <1>1, <1>3, <3>2, BootAssumption
    <3>. QED BY <1>5, <3>1, <3>3, Zenon DEF k, d
  <2>3. ph = 0 => pa' >= ElfAt /\ end_pa' = ElfAt + PAGE_SIZE
    <3>1. ph = 0 => pa >= ElfAt /\ end_pa = ElfAt + PAGE_SIZE
      BY <1>1, <1>2, Zenon DEF Position
    <3>. QED BY <1>1, <1>3, <3>1, BootAssumption
  <2>4. ph # 0 => pa' > s.p_paddr - SECTOR_SIZE /\ end_pa' = s.p_paddr + s.p_filesz
    <3>1. ph # 0 => /\ pa > s.p_paddr - SECTOR_SIZE /\ end_pa = s.p_paddr + s.p_filesz
                    /\ s.p_paddr \in Nat /\ s.p_filesz \in Nat
      BY <1>1, <1>2, <1>3, Fields, Zenon DEF Position
    <3>. HIDE DEF s
    <3>. QED BY <1>1, <1>3, <3>1, BootAssumption
  <2>. QED BY <1>1, <2>1, <2>2, <2>3, <2>4, Zenon DEF Position
<1>. DEFINE B(a) == IF a - Base(ph) < FileSize THEN a - Base(ph) ELSE Zero
<1>7. \A a \in 0 .. MemSize - 1 : mem'[a] = IF a \in Sector THEN B(a) ELSE mem[a]
  BY <1>2, SectorWritten, Zenon
<1>. HIDE DEF s
<1>8. Copied'
  <2>1. ASSUME ph # 0
        PROVE  \A a \in InFile(s) : a < pa' => mem'[a] = a - s.p_paddr + s.p_offset
    <3>. SUFFICES ASSUME NEW a \in InFile(s), a < pa'
                  PROVE  mem'[a] = a - s.p_paddr + s.p_offset
      BY Zenon
    <3>1. /\ s.p_paddr \in Nat /\ s.p_filesz \in Nat /\ s.p_memsz \in Nat /\ s.p_offset \in Nat
          /\ s.p_filesz <= s.p_memsz /\ s.p_offset + s.p_filesz <= FileSize
          /\ s.p_paddr + s.p_memsz <= MemSize /\ Base(ph) = s.p_paddr - s.p_offset
      BY <1>3, <2>1, Fields, Segment, Zenon DEF s, Base
    <3>2. a \in 0 .. MemSize - 1 /\ a - Base(ph) = a - s.p_paddr + s.p_offset
          /\ a - Base(ph) < FileSize
      BY <3>1, BootAssumption DEF InFile
    <3>3. CASE a \in Sector
      BY <1>7, <3>2, <3>3, Zenon
    <3>4. CASE a \notin Sector
      <4>1. a < pa
        BY <1>1, <1>3, <3>2, <3>4, BootAssumption DEF Sector
      <4>2. mem[a] = a - s.p_paddr + s.p_offset
        BY <1>1, <1>2, <2>1, <4>1, Zenon DEF Copied, s
      <4>. QED BY <1>7, <3>2, <3>4, <4>2, Zenon
    <3>. QED BY <3>3, <3>4, Zenon
  <2>2. ASSUME ph = 0
        PROVE  \A a \in Scratch : a < pa' => mem'[a] = Disk(1, a - ElfAt)
    <3>. SUFFICES ASSUME NEW a \in Scratch, a < pa' PROVE mem'[a] = Disk(1, a - ElfAt)
      BY Zenon
    <3>1. a \in 0 .. MemSize - 1 /\ a - ElfAt \in Int
      BY BootAssumption DEF Scratch
    <3>2. CASE a \in Sector
      <4>1. Base(ph) = ElfAt
        BY <2>2, Zenon DEF Base
      <4>. QED BY <1>7, <3>1, <3>2, <4>1, FileByte, Zenon
    <3>3. CASE a \notin Sector
      <4>1. a < pa
        BY <1>1, <1>3, <3>1, <3>3, BootAssumption DEF Sector
      <4>2. mem[a] = Disk(1, a - ElfAt)
        BY <1>1, <1>2, <2>2, <4>1, Zenon DEF Copied
      <4>. QED BY <1>7, <3>1, <3>3, <4>2, Zenon
    <3>. QED BY <3>2, <3>3, Zenon
  <2>3. ASSUME NEW i \in 1 .. Len(layout), i < ph
        PROVE  Loaded(layout[i])'
    <3>. DEFINE r == layout[i]
    <3>0. ph # 0 /\ i \in 1 .. ph - 1
      BY <1>3, <2>3
    <3>1. /\ r.p_paddr \in Nat /\ r.p_filesz \in Nat /\ r.p_memsz \in Nat /\ r.p_offset \in Nat
          /\ r.p_filesz <= r.p_memsz /\ r.p_offset + r.p_filesz <= FileSize
          /\ r.p_paddr + r.p_memsz <= MemSize
      BY <1>3, Fields, Segment, Zenon
    <3>2. Loaded(r)
      BY <1>2, <2>3, Zenon DEF Copied
    <3>. HIDE DEF r
    <3>3. ASSUME NEW a \in InMemory(r)
          PROVE  mem'[a] = IF a \in InFile(r) THEN a - r.p_paddr + r.p_offset ELSE Zero
      <4>1. a \in 0 .. MemSize - 1
        BY <3>1, BootAssumption DEF InMemory
      <4>2. CASE a \in Sector
        <5>1. r.p_memsz = r.p_filesz /\ r.p_paddr - r.p_offset = Base(ph)
          BY <1>1, <1>2, <3>0, <3>3, <4>2, SectorShared, Zenon DEF r
        <5>2. a \in InFile(r) /\ a \in Nat /\ a < r.p_paddr + r.p_filesz
          BY <3>1, <3>3, <5>1 DEF InFile, InMemory
        <5>. DEFINE d == Base(ph)
        <5>3. d = r.p_paddr - r.p_offset
          BY <5>1, Zenon
        <5>. HIDE DEF d
        <5>4. a - d = a - r.p_paddr + r.p_offset /\ a - d < FileSize
          <6>1. FileSize \in Nat
            BY BootAssumption
          <6>. DEFINE x == r.p_paddr  o == r.p_offset  f == r.p_filesz
          <6>2. /\ x \in Nat /\ o \in Nat /\ f \in Nat /\ o + f <= FileSize
                /\ d = x - o /\ a < x + f /\ a \in Nat
            BY <3>1, <5>2, <5>3, Zenon
          <6>. HIDE DEF x, o, f
          <6>3. a - d = a - x + o /\ a - d < FileSize
            BY <6>1, <6>2
          <6>. QED BY <6>3, Zenon DEF x, o
        <5>. QED BY <1>7, <4>1, <4>2, <5>2, <5>4, Zenon DEF d
      <4>3. CASE a \notin Sector
        BY <1>7, <3>2, <4>1, <4>3, Zenon DEF Loaded
      <4>. QED BY <4>2, <4>3, Zenon
    <3>. QED BY <1>1, <3>3, Zenon DEF Loaded, r
  <2>. QED BY <1>1, <2>1, <2>2, <2>3, Zenon DEF Copied, s
<1>9. LoaderIntact'
  <2>1. Sector \cap Loader = {} /\ (ph # 0 => Sector \cap Scratch = {})
    <3>1. CASE ph # 0
      BY <1>1, <1>2, <3>1, SectorAway, Zenon
    <3>2. CASE ph = 0
      <4>1. pa >= ElfAt
        BY <1>1, <1>2, <3>2, Zenon DEF Position
      <4>. QED BY <1>3, <3>2, <4>1, BootAssumption DEF Sector, Loader
    <3>. QED BY <3>1, <3>2, Zenon
  <2>2. Loader \subseteq 0 .. MemSize - 1 /\ Scratch \subseteq 0 .. MemSize - 1
    BY BootAssumption DEF Loader, Scratch
  <2>. QED BY <1>1, <1>2, <1>7, <2>1, <2>2, Zenon DEF LoaderIntact
<1>. QED BY <1>1, <1>4, <1>6, <1>8, <1>9, Zenon DEF Inv

\* read_segment is entered with the sector that holds byte off of the file.
LEMMA Rounded ==
    ASSUME NEW p \in Nat, NEW off \in Nat, off % PAGE_SIZE = p % PAGE_SIZE
    PROVE  /\ p - (off % SECTOR_SIZE) \in 0 .. p /\ p - (off % SECTOR_SIZE) > p - SECTOR_SIZE
           /\ (p - (off % SECTOR_SIZE)) % SECTOR_SIZE = 0
           /\ off \div SECTOR_SIZE + 1 \in Nat \ {0}
           /\ SECTOR_SIZE * ((off \div SECTOR_SIZE + 1) - 1)
                = (p - (off % SECTOR_SIZE)) - (p - off)
<1>. DEFINE n == SECTOR_SIZE  q == p \div n  u == off \div n  r == off % n
<1>0. n \in Nat \ {0}
  BY BootAssumption
<1>1. off % n = p % n
  <2>1. (off % PAGE_SIZE) % SECTOR_SIZE = off % SECTOR_SIZE
    BY ModOfMod, BootAssumption, Zenon
  <2>2. (p % PAGE_SIZE) % SECTOR_SIZE = p % SECTOR_SIZE
    BY ModOfMod, BootAssumption, Zenon
  <2>. QED BY <2>1, <2>2, Zenon
<1>2. q \in Nat /\ p = n * q + r /\ r \in 0 .. n - 1 /\ u \in Nat /\ off = n * u + r
  BY <1>0, <1>1, Euclid, Zenon
<1>. HIDE DEF n, q, u, r
<1>3. p - r \in 0 .. p /\ p - r > p - n /\ u + 1 \in Nat \ {0} /\ p - r = n * q + 0
  BY <1>0, <1>2
<1>4. (n * q + 0) % n = 0
  <2>1. 0 \in 0 .. n - 1
    BY <1>0
  <2>. QED BY <1>0, <1>2, <2>1, Quotient, Zenon
<1>5. n * ((u + 1) - 1) = (p - r) - (p - off)
  <2>1. (u + 1) - 1 = u
    BY <1>2
  <2>2. n * u = off - r
    BY <1>0, <1>2
  <2>3. (p - r) - (p - off) = off - r
    BY <1>0, <1>2
  <2>. QED BY <2>1, <2>2, <2>3, Zenon
<1>. QED BY <1>3, <1>4, <1>5, Zenon DEF n, u, r

\* boot_main reads the ELF page.
LEMMA BootMainStep == ASSUME Inv, BootMain PROVE Inv'
<1>. USE DEF BootMain, ReadSegment
<1>1. /\ pc = "start" /\ pc' = "read" /\ UNCHANGED <<mem, is_elf, layout, ph>> /\ ph = 0
      /\ end_pa' = ElfAt + PAGE_SIZE /\ pa' = ElfAt - (0 % SECTOR_SIZE)
      /\ offset' = 0 \div SECTOR_SIZE + 1
  BY Zenon DEF Inv
<1>2. 0 % PAGE_SIZE = ElfAt % PAGE_SIZE
  BY BootAssumption
<1>3. ElfAt \in Nat /\ ElfAt - 0 = ElfAt /\ 0 \in Nat /\ ElfAt + PAGE_SIZE \in 0 .. MemSize
      /\ 0 % SECTOR_SIZE = 0
  BY BootAssumption
<1>4. /\ pa' \in 0 .. ElfAt /\ pa' % SECTOR_SIZE = 0
      /\ offset' \in Nat \ {0} /\ SECTOR_SIZE * (offset' - 1) = pa' - ElfAt
  <2>1. SECTOR_SIZE * ((0 \div SECTOR_SIZE + 1) - 1)
          = (ElfAt - (0 % SECTOR_SIZE)) - (ElfAt - 0)
    BY <1>2, <1>3, Rounded, Zenon
  <2>2. ElfAt - (0 % SECTOR_SIZE) \in 0 .. ElfAt /\ 0 \div SECTOR_SIZE + 1 \in Nat \ {0}
        /\ (ElfAt - (0 % SECTOR_SIZE)) % SECTOR_SIZE = 0
    BY <1>2, <1>3, Rounded, Zenon
  <2>. QED BY <1>1, <1>3, <2>1, <2>2, Zenon
<1>5. pa' = ElfAt /\ pa' \in 0 .. MemSize
  BY <1>1, <1>3, <1>4, BootAssumption
<1>6. TypeOK'
  BY <1>1, <1>3, <1>4, <1>5, Zenon DEF Inv, TypeOK
<1>7. Position'
  <2>1. pa' >= ElfAt
    BY <1>3, <1>5
  <2>. QED BY <1>1, <1>4, <2>1, Zenon DEF Position, Base
<1>8. Copied'
  <2>1. \A a \in Scratch : ~(a < pa')
    BY <1>5, BootAssumption DEF Scratch
  <2>2. \A i \in 1 .. Len(layout) : ~(i < ph) /\ i # ph
    BY <1>1
  <2>. QED BY <1>1, <2>1, <2>2, Zenon DEF Copied
<1>9. LoaderIntact'
  BY <1>1, Zenon DEF Inv, LoaderIntact
<1>. QED BY <1>1, <1>6, <1>7, <1>8, <1>9, Zenon DEF Inv

\* The loop has ended: a segment's rest is zeroed.
LEMMA ReadDoneStep == ASSUME Inv, ReadDone PROVE Inv'
<1>1. /\ pc = "read" /\ pa >= end_pa /\ UNCHANGED <<is_elf, layout, ph, pa, end_pa, offset>>
      /\ pc' \in {"next", "spin"} /\ (ph # 0 => pc' = "next")
  BY Zenon DEF ReadDone
<1>2. TypeOK /\ Position /\ Copied /\ LoaderIntact
  BY Zenon DEF Inv
<1>3. /\ pa \in Nat /\ end_pa \in Nat /\ ph \in Nat
      /\ layout \in Layouts /\ (ph # 0 => ph \in 1 .. Len(layout))
  BY <1>2, Locals, Zenon
<1>4. Position' /\ (pc' = "start" => ph' = 0) /\ (pc' = "kernel" => ph' = Len(layout)')
  BY <1>1, Zenon DEF Position
<1>5. CASE ph = 0
  <2>1. mem' = mem
    BY <1>5, Zenon DEF ReadDone
  <2>2. TypeOK'
    BY <1>1, <1>2, <2>1, Zenon DEF TypeOK
  <2>3. \A a \in Scratch : mem[a] = Disk(1, a - ElfAt)
    <3>1. end_pa = ElfAt + PAGE_SIZE
      BY <1>1, <1>2, <1>5, Zenon DEF Position
    <3>2. \A a \in Scratch : a < pa
      BY <1>1, <1>3, <3>1, BootAssumption DEF Scratch
    <3>. QED BY <1>1, <1>2, <1>5, <3>2, Zenon DEF Copied
  <2>4. Copied'
    <3>1. \A i \in 1 .. Len(layout) : ~(i < ph) /\ i # ph
      BY <1>5
    <3>. QED BY <1>1, <3>1, Zenon DEF Copied
  <2>5. LoaderIntact'
    BY <1>1, <1>2, <2>1, <2>3, Zenon DEF LoaderIntact
  <2>. QED BY <1>4, <2>2, <2>4, <2>5, Zenon DEF Inv
<1>6. CASE ph # 0
  <2>. DEFINE s == layout[ph]   Rest == InMemory(s) \ InFile(s)
  <2>1. /\ s.p_paddr \in Nat /\ s.p_filesz \in Nat /\ s.p_memsz \in Nat /\ s.p_offset \in Nat
        /\ s.p_filesz <= s.p_memsz /\ s.p_paddr + s.p_memsz <= MemSize
        /\ end_pa = s.p_paddr + s.p_filesz
    BY <1>1, <1>2, <1>3, <1>6, Fields, Segment, Zenon DEF Position
  <2>2. /\ mem' = [a \in 0 .. MemSize - 1 |-> IF a \in Rest THEN Zero ELSE mem[a]]
        /\ \A a \in 0 .. MemSize - 1 : mem[a] \in {Zero, Other} \cup 0 .. FileSize - 1
    <3>1. mem \in [0 .. MemSize - 1 -> {Zero, Other} \cup 0 .. FileSize - 1]
      BY <1>2, Zenon DEF TypeOK
    <3>. QED BY <1>6, <3>1, Zenon DEF ReadDone
  <2>3. TypeOK'
    BY <1>1, <1>2, <2>2, Zenon DEF TypeOK
  <2>4. Loaded(s)'
    <3>1. ASSUME NEW a \in InMemory(s)
          PROVE  mem'[a] = IF a \in InFile(s) THEN a - s.p_paddr + s.p_offset ELSE Zero
      <4>. HIDE DEF s
      <4>1. a \in 0 .. MemSize - 1
        BY <2>1, <3>1, BootAssumption DEF InMemory
      <4>2. CASE a \in InFile(s)
        <5>1. a < pa
          BY <1>1, <1>3, <2>1, <4>2 DEF InFile
        <5>2. mem[a] = a - s.p_paddr + s.p_offset
          BY <1>1, <1>2, <1>6, <4>2, <5>1, Zenon DEF Copied, s
        <5>. QED BY <2>2, <4>1, <4>2, <5>2, Zenon
      <4>3. CASE a \notin InFile(s)
        BY <2>2, <3>1, <4>1, <4>3, Zenon
      <4>. QED BY <4>2, <4>3, Zenon
    <3>. QED BY <1>1, <3>1, Zenon DEF Loaded
  <2>5. ASSUME NEW i \in 1 .. Len(layout), i < ph PROVE Loaded(layout[i])'
    <3>. DEFINE r == layout[i]
    <3>0. i \in 1 .. ph - 1
      BY <1>3, <2>5
    <3>1. /\ r.p_paddr \in Nat /\ r.p_memsz \in Nat /\ Loaded(r)
          /\ r.p_memsz = 0 \/ s.p_memsz = 0 \/ r.p_paddr + r.p_memsz <= s.p_paddr
          /\ r.p_paddr + r.p_memsz <= MemSize
      BY <1>2, <1>3, <1>6, <2>5, <3>0, Fields, Segment, Earlier, Zenon DEF Copied, Empty
    <3>. HIDE DEF r, s
    <3>2. \A a \in InMemory(r) : a \in 0 .. MemSize - 1 /\ a \notin InMemory(s)
      <4>. DEFINE x == r.p_paddr  m == r.p_memsz  y == s.p_paddr  k == s.p_memsz
      <4>1. /\ x \in Nat /\ m \in Nat /\ y \in Nat /\ k \in Nat
            /\ m = 0 \/ k = 0 \/ x + m <= y
            /\ x + m <= MemSize /\ y + k <= MemSize
        BY <2>1, <3>1, Zenon
      <4>2. InMemory(r) = x .. x + m - 1 /\ InMemory(s) = y .. y + k - 1
        BY Zenon DEF InMemory
      <4>. HIDE DEF x, m, y, k
      <4>3. MemSize \in Nat
        BY BootAssumption, Zenon
      <4>4. \A a \in x .. x + m - 1 : a \in 0 .. MemSize - 1 /\ a \notin y .. y + k - 1
        BY <4>1, <4>3
      <4>. QED BY <4>2, <4>4, Zenon
    <3>3. \A a \in InMemory(r) : mem'[a] = mem[a]
      BY <2>2, <3>2, Zenon
    <3>. QED BY <1>1, <3>1, <3>3, Zenon DEF Loaded, r
  <2>6. Copied'
    <3>. HIDE DEF Rest
    <3>. QED BY <1>1, <1>6, <2>4, <2>5, Zenon DEF Copied
  <2>7. LoaderIntact'
    <3>1. Touched(s) \cap Loader = {} /\ PagesOf(Touched(s)) \cap PagesOf(Scratch) = {}
      BY <1>3, <1>6, Segment, Zenon
    <3>0. InMemory(s) \subseteq Touched(s)
      <4>. HIDE DEF s
      <4>1. s.p_memsz = 0 => InMemory(s) = {}
        BY <2>1 DEF InMemory
      <4>. QED BY <4>1, Zenon DEF Touched, Empty
    <3>2. Rest \cap Loader = {} /\ Rest \cap Scratch = {}
      BY <3>0, <3>1, Zenon DEF PagesOf
    <3>3. Loader \subseteq 0 .. MemSize - 1 /\ Scratch \subseteq 0 .. MemSize - 1
      BY BootAssumption DEF Loader, Scratch
    <3>. HIDE DEF Rest
    <3>. QED BY <1>1, <1>2, <1>6, <2>2, <3>2, <3>3, Zenon DEF LoaderIntact
  <2>. QED BY <1>4, <2>3, <2>6, <2>7, Zenon DEF Inv
<1>. QED BY <1>5, <1>6, Zenon

\* The next program header is taken up.
LEMMA NextSegmentStep == ASSUME Inv, NextSegment PROVE Inv'
<1>1. /\ pc = "next" /\ ph < Len(layout) /\ ph' = ph + 1 /\ UNCHANGED <<mem, is_elf, layout>>
      /\ pc' \in {"read", "astray"}
  BY Zenon DEF NextSegment, ReadSegment
<1>2. TypeOK /\ Position /\ Copied /\ LoaderIntact
  BY Zenon DEF Inv
<1>3. ph \in Nat /\ Len(layout) \in Nat /\ layout \in Layouts
  BY <1>2, Locals, Zenon
<1>4. ph' \in 1 .. Len(layout) /\ ph' # 0 /\ ph' \in 0 .. Len(layout)
  BY <1>1, <1>3
<1>6. \A i \in 1 .. Len(layout) : i < ph' => Loaded(layout[i])
  <2>1. \A i \in 1 .. Len(layout) : i < ph' => i < ph \/ i = ph
    BY <1>1, <1>3
  <2>. QED BY <1>1, <1>2, <2>1, Zenon DEF Copied
<1>7. \A i \in 1 .. Len(layout) : i < ph' => Loaded(layout[i])'
  BY <1>1, <1>6, Zenon DEF Loaded
<1>8. LoaderIntact'
  BY <1>1, <1>2, <1>4, Zenon DEF LoaderIntact
<1>9. CASE pc' = "astray"
  <2>1. UNCHANGED <<pa, end_pa, offset>>
    BY <1>9, Zenon DEF NextSegment, ReadSegment
  <2>2. TypeOK'
    BY <1>1, <1>2, <1>4, <1>9, <2>1, Zenon DEF TypeOK
  <2>3. Copied'
    BY <1>1, <1>7, <1>9, Zenon DEF Copied
  <2>. QED BY <1>8, <1>9, <2>2, <2>3, Zenon DEF Inv, Position
<1>10. CASE pc' = "read"
  <2>. DEFINE s == layout[ph']
  <2>1. /\ end_pa' = s.p_paddr + s.p_filesz /\ pa' = s.p_paddr - (s.p_offset % SECTOR_SIZE)
        /\ offset' = s.p_offset \div SECTOR_SIZE + 1
    BY <1>10, Zenon DEF NextSegment, ReadSegment
  <2>2. /\ s.p_paddr \in Nat /\ s.p_filesz \in Nat /\ s.p_memsz \in Nat /\ s.p_offset \in Nat
        /\ s.p_filesz <= s.p_memsz /\ s.p_paddr + s.p_memsz <= MemSize
        /\ s.p_offset % PAGE_SIZE = s.p_paddr % PAGE_SIZE
    BY <1>3, <1>4, Fields, Segment, Zenon
  <2>3. /\ pa' \in 0 .. s.p_paddr /\ pa' > s.p_paddr - SECTOR_SIZE /\ pa' % SECTOR_SIZE = 0
        /\ offset' \in Nat \ {0}
        /\ SECTOR_SIZE * (offset' - 1) = pa' - (s.p_paddr - s.p_offset)
    BY <2>1, <2>2, Rounded, Zenon
  <2>. HIDE DEF s
  <2>4. pa' \in 0 .. MemSize /\ end_pa' \in 0 .. MemSize
    BY <2>1, <2>2, <2>3, BootAssumption
  <2>5. TypeOK'
    BY <1>1, <1>2, <1>4, <1>10, <2>3, <2>4, Zenon DEF TypeOK
  <2>6. Position'
    BY <1>1, <1>4, <2>1, <2>3, Zenon DEF Position, Base, s
  <2>7. Copied'
    <3>1. \A a \in InFile(s) : ~(a < pa')
      BY <2>2, <2>3 DEF InFile
    <3>. QED BY <1>1, <1>4, <1>7, <1>10, <3>1, Zenon DEF Copied, s
  <2>. QED BY <1>8, <1>10, <2>5, <2>6, <2>7, Zenon DEF Inv
<1>. QED BY <1>1, <1>9, <1>10, Zenon

\* The jump to e_entry.
LEMMA EnterKernelStep == ASSUME Inv, EnterKernel PROVE Inv'
<1>1. /\ pc = "next" /\ ph = Len(layout)
      /\ UNCHANGED <<mem, is_elf, layout, ph, pa, end_pa, offset>>
      /\ pc' \in {"kernel", "astray"}
  BY Zenon DEF EnterKernel
<1>2. TypeOK /\ Position /\ Copied /\ LoaderIntact
  BY Zenon DEF Inv
<1>3. TypeOK'
  BY <1>1, <1>2, Zenon DEF TypeOK
<1>4. Position' /\ LoaderIntact'
  BY <1>1, <1>2, Zenon DEF Position, LoaderIntact
<1>5. Copied'
  BY <1>1, <1>2, Zenon DEF Copied, Loaded
<1>. QED BY <1>1, <1>3, <1>4, <1>5, Zenon DEF Inv

-----------------------------------------------------------------------------
(* The theorems *)

\* Inv is an invariant of boot_main.
THEOREM BootInvariant == Spec => []Inv
<1>1. Init => Inv
  <2>. SUFFICES ASSUME Init PROVE Inv
    BY Zenon
  <2>. USE DEF Init
  <2>1. layout \in Layouts /\ Len(layout) \in Nat
    BY Count, Zenon
  <2>2. TypeOK
    <3>1. 0 \in 0 .. MemSize /\ 0 \in 0 .. Len(layout) /\ 0 \in Nat
      BY <2>1, BootAssumption
    <3>. QED BY <3>1, Zenon DEF TypeOK
  <2>3. Position
    BY Zenon DEF Position
  <2>4. Copied
    <3>1. \A i \in 1 .. Len(layout) : ~(i < ph) /\ i # ph
      BY <2>1
    <3>. QED BY <3>1, Zenon DEF Copied
  <2>5. LoaderIntact
    <3>1. Loader \subseteq 0 .. MemSize - 1
      BY BootAssumption DEF Loader
    <3>. QED BY <3>1, Zenon DEF LoaderIntact
  <2>. QED BY <2>2, <2>3, <2>4, <2>5, Zenon DEF Inv
<1>2. Inv /\ [Next]_vars => Inv'
  <2>. SUFFICES ASSUME Inv, [Next]_vars PROVE Inv'
    BY Zenon
  <2>1. CASE Next
    BY <2>1, BootMainStep, ReadSectorStep, ReadDoneStep, NextSegmentStep, EnterKernelStep, Zenon
    DEF Next
  <2>2. CASE UNCHANGED vars
    BY <2>2, Zenon DEF vars, Inv, TypeOK, Position, Copied, LoaderIntact, Loaded, Base
  <2>. QED BY <2>1, <2>2, Zenon
<1>. QED BY <1>1, <1>2, PTL DEF Spec

\* Every byte read_segment writes is in memory, and every one it writes is the disk's.
THEOREM BootTypes == Spec => []TypeOK
<1>1. Inv => TypeOK
  BY Zenon DEF Inv
<1>. QED BY <1>1, BootInvariant, PTL

\* Whatever the sector size and the segments, the extra bytes that read_segment copies never
\* spoil a segment: the kernel is entered with all of them as the ELF file says.
THEOREM KernelLoaded == Spec => []LoadedExactly
<1>1. Inv => LoadedExactly
  <2>. SUFFICES ASSUME Inv, pc = "kernel" PROVE \A i \in DOMAIN layout : Loaded(layout[i])
    BY Zenon DEF LoadedExactly
  <2>1. DOMAIN layout = 1 .. Len(layout) /\ Len(layout) \in Nat /\ ph = Len(layout)
    BY Count, Zenon DEF Inv, TypeOK
  <2>. DEFINE n == Len(layout)
  <2>2. n \in Nat
    BY <2>1, Zenon
  <2>. HIDE DEF n
  <2>3. \A i \in 1 .. n : i < n \/ i = n
    BY <2>2
  <2>. QED BY <2>1, <2>3, Zenon DEF n, Inv, Copied
<1>. QED BY <1>1, BootInvariant, PTL

\* Nor do they reach the loader's stack and code, or the ELF page it still reads.
THEOREM LoaderSurvives == Spec => []LoaderIntact
<1>1. Inv => LoaderIntact
  BY Zenon DEF Inv
<1>. QED BY <1>1, BootInvariant, PTL
=============================================================================
