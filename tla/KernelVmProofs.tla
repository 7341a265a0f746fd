---------------------------- MODULE KernelVmProofs ----------------------------
(***************************************************************************)
(* The page tables, for every memory layout and every size of page, table  *)
(* and directory. Sound and Private say what memory looks like while the   *)
(* directories are built: whole directories and tables, each table used by *)
(* one entry, nothing of them on the heap. Contents says what they         *)
(* translate by now: a directory that is complete as intended, the one in  *)
(* hand up to the page map_pages has come to. NewDirectory, NewTable and   *)
(* Stored are the three writes to memory; the arithmetic is in Indices     *)
(* (a page is determined by its two indices) and RangeOf (the last page of *)
(* a range, that of the devices at the top of the address space included). *)
(***************************************************************************)
EXTENDS KernelVm, SequenceTheorems, TLAPS

-----------------------------------------------------------------------------
(* The inductive invariant *)

\* The pages, and what they may hold.
Dirs == {"kernel", "init"}
Entries == [addr : Nat, flags : SUBSET {"P", "W", "U"}]
PdIndex == 0 .. NPDENTRIES - 1
PtIndex == 0 .. NPTENTRIES - 1
Directories == [PdIndex -> Entries]
Tables == [PtIndex -> Entries]
HeapSet == {HeapPages[i] : i \in DOMAIN HeapPages}
Ran(s) == {s[i] : i \in 1 .. Len(s)}
Injective(s) == \A i, j \in 1 .. Len(s) : s[i] = s[j] => i = j

\* The directories that have been allocated.
Begun ==
    {d \in Dirs : (d = dir /\ pc \in {"kmap", "map", "done"}) \/ (d = "kernel" /\ dir = "init")}

\* The directory d at page D[d] of memory m has a table at index i.
Has(D, m, d, i) == "P" \in m[D[d]][i].flags

\* Memory m is made of whole directories (those of B, at their pages D) and tables; the heap h
\* has none of these pages, and each page once.
Sound(B, D, m, h) ==
    /\ h \in Seq(HeapSet) /\ Injective(h)
    /\ m \in [DOMAIN m -> Directories \cup Tables]
    /\ DOMAIN m \subseteq HeapSet \ Ran(h)
    /\ \A d \in B : D[d] \in DOMAIN m /\ m[D[d]] \in Directories
    /\ \A d \in B, i \in PdIndex :
          IF Has(D, m, d, i)
          THEN /\ m[D[d]][i].flags = {"P", "W", "U"} /\ m[D[d]][i].addr \in DOMAIN m
               /\ m[m[D[d]][i].addr] \in Tables
          ELSE m[D[d]][i].addr = 0

\* No two entries use the same table, and no table is a directory.
OwnPages(B, D) == \A d, e \in B : D[d] = D[e] => d = e
NoLoops(B, D, m) == \A d, e \in B, i \in PdIndex : Has(D, m, d, i) => m[D[d]][i].addr # D[e]
OwnTables(B, D, m) ==
    \A d, e \in B, i, j \in PdIndex :
        Has(D, m, d, i) /\ Has(D, m, e, j) /\ m[D[d]][i].addr = m[D[e]][j].addr => d = e /\ i = j
Private(B, D, m) == OwnPages(B, D) /\ NoLoops(B, D, m) /\ OwnTables(B, D, m)

\* What the MMU makes of va in memory m, under the directory at p.
Walk(m, p, va) ==
    LET pde == m[p][pdx(va)]
        pte == m[pde.addr][ptx(va)]
    IN IF "P" \notin pde.flags \/ "P" \notin pte.flags THEN {}
       ELSE {[frame |-> pte.addr, rights |-> (pde.flags \cap pte.flags) \ {"P"}]}

\* The ranges of kmap: where each starts and ends.
Start(j) == IF j = 1 THEN KERNBASE ELSE IF j = 2 THEN KERNLINK
            ELSE IF j = 3 THEN data_vaddr ELSE DEVSPACE
End(j) == IF j = 1 THEN KERNLINK ELSE IF j = 2 THEN data_vaddr
          ELSE IF j = 3 THEN KERNBASE + PHYSTOP ELSE AddrSpace

\* How far the directory being built has come: memory is mapped up to Low, the devices up to High.
Front == IF pc = "map" THEN a ELSE Start(k)
Low == IF k <= 3 THEN Front ELSE KERNBASE + PHYSTOP
High == IF k <= 3 THEN DEVSPACE ELSE IF k = 4 THEN Front ELSE AddrSpace
Reached(va) == (KERNBASE <= va /\ va < Low) \/ (DEVSPACE <= va /\ va < High)

\* What directory d translates va to by now.
Expected(d, va) ==
    IF d # dir THEN Intended(va)
    ELSE IF pc = "done" /\ va = 0 THEN {[frame |-> pa, rights |-> {"W", "U"}]}
    ELSE IF Reached(va) THEN Intended(va) ELSE {}

Contents == \A d \in Begun, va \in Pages : Walk(mem, dirs[d], va) = Expected(d, va)

\* Where the construction stands.
Control ==
    /\ pc \in {"setup", "kmap", "map", "done", "panic"} /\ dir \in Dirs /\ k \in 0 .. 6
    /\ data_vaddr \in DataSymbols /\ dirs \in [Dirs -> Nat]
    /\ pc \in {"kmap", "map"} => k \in 1 .. 5
    /\ pc = "done" => k = 6

\* The page in hand lies in the range in hand, whose last page is last, and pa is its frame.
InRange ==
    pc = "map" /\ k <= 4 =>
        /\ Start(k) <= a /\ a <= last /\ last + PAGE_SIZE = End(k)
        /\ pa = IF k <= 3 THEN a - KERNBASE ELSE a

\* The user page goes to 0, and is neither on the heap nor a page-table page.
UserPage ==
    /\ pc = "map" /\ k = 5 => a = 0 /\ last = 0
    /\ (pc = "map" /\ k = 5) \/ pc = "done" =>
          dir = "init" /\ pa \in HeapSet /\ pa \notin DOMAIN mem \cup Ran(heap)

Located == a \in Pages /\ last \in Pages /\ pa \in Pages
DevicesAbove == "kernel" \in Begun => KERNBASE + PHYSTOP <= DEVSPACE

Inv ==
    /\ Control /\ Located /\ InRange /\ UserPage /\ DevicesAbove
    /\ Sound(Begun, dirs, mem, heap) /\ Private(Begun, dirs, mem) /\ Contents

-----------------------------------------------------------------------------
(* Pages and their places in the directory *)

\* Division with remainder.
LEMMA Euclid ==
    ASSUME NEW n \in Nat \ {0}, NEW x \in Nat
    PROVE  x \div n \in Nat /\ x % n \in 0 .. n - 1 /\ x = n * (x \div n) + (x % n)
<1>1. x \div n \in Int /\ x % n \in 0 .. n - 1
  OBVIOUS
<1>2. x = n * (x \div n) + (x % n)
  OBVIOUS
<1>3. x \div n >= 0
  OBVIOUS
<1>. QED BY <1>1, <1>2, <1>3

\* The quotient and the remainder are unique.
LEMMA Quotient ==
    ASSUME NEW n \in Nat \ {0}, NEW q \in Nat, NEW r \in 0 .. n - 1
    PROVE  (n * q + r) \div n = q /\ (n * q + r) % n = r
OBVIOUS

\* A multiple of n has no remainder.
LEMMA Multiple ==
    ASSUME NEW n \in Nat \ {0}, NEW q \in Nat
    PROVE  (n * q) % n = 0
<1>1. 0 \in 0 .. n - 1 /\ n * q = n * q + 0
  OBVIOUS
<1>. QED BY <1>1, Quotient, Zenon

\* Sums and differences of multiples of n are multiples, and n apart.
LEMMA Multiples ==
    ASSUME NEW n \in Nat \ {0}, NEW x \in Nat, NEW y \in Nat, x % n = 0, y % n = 0
    PROVE  /\ (x + y) % n = 0 /\ (x <= y => (y - x) % n = 0)
           /\ (x < y => x + n <= y /\ n <= y)
<1>. DEFINE p == x \div n  q == y \div n
<1>1. p \in Nat /\ x = n * p + 0 /\ q \in Nat /\ y = n * q + 0
  BY Euclid, Z3
<1>. HIDE DEF p, q
<1>2. (x + y) % n = 0
  <2>1. x + y = n * (p + q) /\ p + q \in Nat
    BY <1>1
  <2>. QED BY <2>1, Multiple, Zenon
<1>3. ASSUME x <= y PROVE (y - x) % n = 0
  <2>1. p <= q
    BY <1>1, <1>3
  <2>2. y - x = n * (q - p) /\ q - p \in Nat
    BY <1>1, <2>1
  <2>. QED BY <2>2, Multiple, Zenon
<1>4. ASSUME x < y PROVE x + n <= y
  <2>1. p < q
    BY <1>1, <1>4
  <2>2. n * (p + 1) <= n * q
    BY <1>1, <2>1
  <2>. QED BY <1>1, <2>2
<1>. QED BY <1>2, <1>3, <1>4

\* A number below n is its own remainder.
LEMMA Small ==
    ASSUME NEW n \in Nat \ {0}, NEW x \in 0 .. n - 1
    PROVE  x % n = x
OBVIOUS

\* The constants.
LEMMA Sizes ==
    /\ PAGE_SIZE \in Nat \ {0} /\ NPDENTRIES \in Nat \ {0} /\ NPTENTRIES \in Nat \ {0}
    /\ KERNBASE \in Nat /\ EXTMEM \in Nat \ {0} /\ PHYSTOP \in Nat /\ DEVSPACE \in Nat
    /\ AddrSpace \in Nat \ {0} /\ KERNLINK \in Nat /\ KERNLINK = KERNBASE + EXTMEM
    /\ EXTMEM < PHYSTOP /\ KERNBASE + PHYSTOP < AddrSpace /\ DEVSPACE < AddrSpace
<1>1. /\ PAGE_SIZE \in Nat \ {0} /\ NPDENTRIES \in Nat \ {0} /\ NPTENTRIES \in Nat \ {0}
      /\ KERNBASE \in Nat /\ EXTMEM \in Nat \ {0} /\ PHYSTOP \in Nat /\ DEVSPACE \in Nat
  BY KernelVmAssumption
<1>2. AddrSpace \in Nat /\ KERNLINK \in Nat /\ KERNLINK = KERNBASE + EXTMEM
  BY <1>1 DEF AddrSpace, KERNLINK
<1>3. EXTMEM < PHYSTOP /\ KERNBASE + PHYSTOP < AddrSpace /\ DEVSPACE < AddrSpace
  BY KernelVmAssumption, Zenon
<1>4. AddrSpace # 0
  BY <1>1, <1>2, <1>3
<1>5. AddrSpace \in Nat \ {0}
  BY <1>2, <1>4
<1>. QED BY <1>1, <1>2, <1>3, <1>5, Zenon

\* The symbol data.
LEMMA DataSymbol ==
    ASSUME NEW x \in DataSymbols
    PROVE  x \in Nat /\ x % PAGE_SIZE = 0 /\ KERNLINK < x /\ x < KERNBASE + PHYSTOP
<1>1. x \in Nat
  BY KernelVmAssumption
<1>2. x % PAGE_SIZE = 0
  BY KernelVmAssumption
<1>3. KERNLINK < x /\ x < KERNBASE + PHYSTOP
  BY KernelVmAssumption, Zenon
<1>. QED BY <1>1, <1>2, <1>3, Zenon

\* The boundaries of the ranges are page boundaries.
LEMMA Boundaries ==
    /\ KERNBASE % PAGE_SIZE = 0 /\ EXTMEM % PAGE_SIZE = 0 /\ PHYSTOP % PAGE_SIZE = 0
    /\ DEVSPACE % PAGE_SIZE = 0 /\ KERNLINK % PAGE_SIZE = 0 /\ AddrSpace % PAGE_SIZE = 0
    /\ (KERNBASE + PHYSTOP) % PAGE_SIZE = 0
<1>1. /\ KERNBASE % PAGE_SIZE = 0 /\ EXTMEM % PAGE_SIZE = 0 /\ PHYSTOP % PAGE_SIZE = 0
      /\ DEVSPACE % PAGE_SIZE = 0
  <2>. DEFINE Edges == {KERNBASE, EXTMEM, PHYSTOP, DEVSPACE} \cup DataSymbols
  <2>1. \A x \in Edges : x % PAGE_SIZE = 0
    BY KernelVmAssumption, Zenon
  <2>2. KERNBASE \in Edges /\ EXTMEM \in Edges /\ PHYSTOP \in Edges /\ DEVSPACE \in Edges
    BY Zenon
  <2>. HIDE DEF Edges
  <2>. QED BY <2>1, <2>2, Zenon
<1>2. (KERNBASE + EXTMEM) % PAGE_SIZE = 0 /\ (KERNBASE + PHYSTOP) % PAGE_SIZE = 0
  <2>1. PAGE_SIZE \in Nat \ {0} /\ KERNBASE \in Nat /\ EXTMEM \in Nat /\ PHYSTOP \in Nat
    BY Sizes
  <2>2. (KERNBASE + EXTMEM) % PAGE_SIZE = 0
    BY <1>1, <2>1, Multiples, Zenon
  <2>3. (KERNBASE + PHYSTOP) % PAGE_SIZE = 0
    BY <1>1, <2>1, Multiples, Zenon
  <2>. QED BY <2>2, <2>3
<1>3. AddrSpace % PAGE_SIZE = 0
  <2>1. AddrSpace = PAGE_SIZE * (NPDENTRIES * NPTENTRIES) /\ NPDENTRIES * NPTENTRIES \in Nat
    BY Sizes DEF AddrSpace
  <2>. QED BY <2>1, Sizes, Multiple, Zenon
<1>. QED BY <1>1, <1>2, <1>3, Sizes, Zenon

\* Rounding down: a page boundary stays, and so does the last byte's page.
LEMMA Rounding ==
    ASSUME NEW x \in Nat, x % PAGE_SIZE = 0
    PROVE  RoundDown(x) = x /\ RoundDown(x + PAGE_SIZE - 1) = x
<1>. DEFINE q == x \div PAGE_SIZE
<1>1. PAGE_SIZE \in Nat \ {0}
  BY Sizes
<1>2. q \in Nat /\ x = PAGE_SIZE * q + 0
  BY <1>1, Euclid, Z3
<1>. HIDE DEF q
<1>3. RoundDown(x) = x
  BY DEF RoundDown
<1>4. x + PAGE_SIZE - 1 = PAGE_SIZE * q + (PAGE_SIZE - 1) /\ PAGE_SIZE - 1 \in 0 .. PAGE_SIZE - 1
  BY <1>1, <1>2
<1>5. (x + PAGE_SIZE - 1) % PAGE_SIZE = PAGE_SIZE - 1
  <2>1. q \in Nat
    BY <1>2
  <2>2. (PAGE_SIZE * q + (PAGE_SIZE - 1)) % PAGE_SIZE = PAGE_SIZE - 1
    BY <1>1, <1>4, <2>1, Quotient, Zenon
  <2>. QED BY <1>4, <2>2
<1>6. RoundDown(x + PAGE_SIZE - 1) = x
  BY <1>1, <1>5 DEF RoundDown
<1>. QED BY <1>3, <1>6

\* The two indices of a page are within their tables and say which page it is.
LEMMA Indices ==
    ASSUME NEW va \in Pages
    PROVE  /\ pdx(va) \in PdIndex /\ ptx(va) \in PtIndex
           /\ va = PAGE_SIZE * (NPTENTRIES * pdx(va) + ptx(va))
<1>. DEFINE q == va \div PAGE_SIZE  u == q \div NPTENTRIES  v == q % NPTENTRIES
<1>. DEFINE n == PAGE_SIZE * NPTENTRIES  r == PAGE_SIZE * v
<1>1. PAGE_SIZE \in Nat \ {0} /\ NPTENTRIES \in Nat \ {0} /\ NPDENTRIES \in Nat \ {0}
  BY Sizes
<1>2. va \in Nat /\ va % PAGE_SIZE = 0 /\ va < AddrSpace
  BY Sizes DEF Pages
<1>3. q \in Nat /\ va = PAGE_SIZE * q + 0
  BY <1>1, <1>2, Euclid, Z3
<1>. HIDE DEF q
<1>4. u \in Nat /\ v \in 0 .. NPTENTRIES - 1 /\ q = NPTENTRIES * u + v
  BY <1>1, <1>3, Euclid, Zenon
<1>5. ptx(va) = v
  BY DEF ptx, q, v
<1>. HIDE DEF u, v
<1>6. n \in Nat \ {0}
  BY <1>1
<1>7. r \in 0 .. n - 1
  <2>1. v + 1 <= NPTENTRIES /\ v \in Nat
    BY <1>1, <1>4
  <2>2. PAGE_SIZE * (v + 1) <= PAGE_SIZE * NPTENTRIES
    BY <1>1, <2>1
  <2>3. r \in Nat
    BY <1>1, <2>1
  <2>. QED BY <1>1, <2>1, <2>2, <2>3
<1>8. va = n * u + r
  BY <1>1, <1>3, <1>4
<1>. HIDE DEF n, r
<1>9. va \div n = u
  BY <1>4, <1>6, <1>7, <1>8, Quotient, Zenon
<1>10. pdx(va) = u
  BY <1>9 DEF pdx, n
<1>11. u <= NPDENTRIES - 1
  <2>1. SUFFICES ASSUME NPDENTRIES <= u PROVE FALSE
    BY <1>1, <1>4
  <2>2. n * NPDENTRIES <= n * u
    BY <1>1, <1>4, <1>6, <2>1
  <2>3. n * NPDENTRIES = AddrSpace
    BY <1>1 DEF n, AddrSpace
  <2>. QED BY <1>2, <1>4, <1>6, <1>7, <1>8, <2>2, <2>3, Sizes
<1>12. va = PAGE_SIZE * (NPTENTRIES * u + v)
  BY <1>1, <1>3, <1>4
<1>13. u \in PdIndex /\ v \in PtIndex
  BY <1>1, <1>4, <1>11 DEF PdIndex, PtIndex
<1>. QED BY <1>5, <1>10, <1>12, <1>13, Zenon

\* Two pages with the same indices are the same page.
LEMMA SamePage ==
    ASSUME NEW x \in Pages, NEW y \in Pages, pdx(x) = pdx(y), ptx(x) = ptx(y)
    PROVE  x = y
BY Indices, Zenon

-----------------------------------------------------------------------------
(* The heap and the page-table pages *)

\* The heap's pages are pages, and none is 0.
LEMMA HeapPage ==
    ASSUME NEW p \in HeapSet
    PROVE  p \in Pages /\ p \in Nat /\ p # 0 /\ p < PHYSTOP
<1>1. PICK i \in DOMAIN HeapPages : p = HeapPages[i]
  BY Zenon DEF HeapSet
<1>2. p % PAGE_SIZE = 0
  BY <1>1, KernelVmAssumption, Zenon
<1>3. p \in EXTMEM .. (PHYSTOP - PAGE_SIZE)
  <2>. DEFINE S == EXTMEM .. (PHYSTOP - PAGE_SIZE)
  <2>1. HeapPages \in Seq(S)
    BY KernelVmAssumption, Zenon
  <2>. HIDE DEF S
  <2>2. HeapPages[i] \in S
    BY <1>1, <2>1
  <2>. QED BY <1>1, <2>2, Zenon DEF S
<1>4. p \in Nat /\ p # 0 /\ p < PHYSTOP /\ p < AddrSpace
  BY <1>3, Sizes
<1>5. p \in 0 .. (AddrSpace - 1)
  BY <1>4, Sizes
<1>. QED BY <1>2, <1>4, <1>5, Zenon DEF Pages

\* Taking the first page off the heap.
LEMMA Popped ==
    ASSUME NEW S, NEW h \in Seq(S), h # <<>>, Injective(h)
    PROVE  /\ Head(h) \in S /\ Head(h) \in Ran(h)
           /\ Tail(h) \in Seq(S) /\ Injective(Tail(h))
           /\ Ran(Tail(h)) \subseteq Ran(h) /\ Head(h) \notin Ran(Tail(h))
<1>1. /\ Len(h) \in Nat /\ Len(h) # 0 /\ Head(h) = h[1] /\ Tail(h) \in Seq(S)
      /\ Len(Tail(h)) = Len(h) - 1
      /\ \A i \in 1 .. Len(Tail(h)) : Tail(h)[i] = h[i + 1]
  BY HeadTailProperties, LenProperties, EmptySeq
<1>2. 1 \in 1 .. Len(h) /\ \A i \in 1 .. Len(Tail(h)) : i + 1 \in 1 .. Len(h) /\ i + 1 # 1
  BY <1>1
<1>3. Head(h) \in S
  BY <1>1, <1>2
<1>4. Head(h) \in Ran(h)
  BY <1>1, <1>2, Zenon DEF Ran
<1>5. ASSUME NEW x \in Ran(Tail(h)) PROVE x \in Ran(h) /\ x # Head(h)
  <2>1. PICK i \in 1 .. Len(Tail(h)) : x = Tail(h)[i]
    BY Zenon DEF Ran
  <2>2. x = h[i + 1] /\ i + 1 \in 1 .. Len(h) /\ i + 1 # 1
    BY <1>1, <1>2, <2>1, Zenon
  <2>3. x \in Ran(h)
    BY <2>2, Zenon DEF Ran
  <2>4. x # h[1]
    BY <1>2, <2>2, Zenon DEF Injective
  <2>. QED BY <1>1, <2>3, <2>4, Zenon
<1>6. Injective(Tail(h))
  <2>. SUFFICES ASSUME NEW i \in 1 .. Len(Tail(h)), NEW j \in 1 .. Len(Tail(h)),
                       Tail(h)[i] = Tail(h)[j]
                PROVE  i = j
    BY Zenon DEF Injective
  <2>1. h[i + 1] = h[j + 1]
    BY <1>1, Zenon
  <2>2. i + 1 = j + 1
    BY <1>2, <2>1, Zenon DEF Injective
  <2>. QED BY <1>1, <2>2
<1>. QED BY <1>1, <1>3, <1>4, <1>5, <1>6, Zenon

\* The same, for the heap of a sound memory.
LEMMA Allocated ==
    ASSUME NEW B, NEW D, NEW m, NEW h, Sound(B, D, m, h), h # <<>>
    PROVE  /\ Head(h) \in HeapSet /\ Head(h) \notin DOMAIN m /\ Head(h) \in Ran(h)
           /\ Tail(h) \in Seq(HeapSet) /\ Injective(Tail(h))
           /\ DOMAIN m \cup {Head(h)} \subseteq HeapSet \ Ran(Tail(h))
           /\ Ran(Tail(h)) \subseteq Ran(h) /\ Head(h) \notin Ran(Tail(h))
<1>1. h \in Seq(HeapSet) /\ Injective(h) /\ DOMAIN m \subseteq HeapSet \ Ran(h)
  BY Zenon DEF Sound
<1>2. /\ Head(h) \in HeapSet /\ Head(h) \in Ran(h)
      /\ Tail(h) \in Seq(HeapSet) /\ Injective(Tail(h))
      /\ Ran(Tail(h)) \subseteq Ran(h) /\ Head(h) \notin Ran(Tail(h))
  BY <1>1, Popped, Zenon
<1>. QED BY <1>1, <1>2, Zenon

\* The entries of a directory, and of the tables it has.
LEMMA EntriesOf ==
    ASSUME NEW B, NEW D, NEW m, NEW h, Sound(B, D, m, h), NEW d \in B,
           NEW i \in PdIndex
    PROVE  /\ D[d] \in DOMAIN m /\ m[D[d]] \in Directories /\ m[D[d]][i] \in Entries
           /\ Has(D, m, d, i) =>
                /\ m[D[d]][i].flags = {"P", "W", "U"} /\ m[D[d]][i].addr \in DOMAIN m
                /\ m[m[D[d]][i].addr] \in Tables
           /\ ~Has(D, m, d, i) => m[D[d]][i].addr = 0
<1>1. D[d] \in DOMAIN m /\ m[D[d]] \in Directories
  BY Zenon DEF Sound
<1>2. m[D[d]][i] \in Entries
  BY <1>1, Zenon DEF Directories
<1>3. Has(D, m, d, i) =>
                /\ m[D[d]][i].flags = {"P", "W", "U"} /\ m[D[d]][i].addr \in DOMAIN m
                /\ m[m[D[d]][i].addr] \in Tables
  BY Zenon DEF Sound
<1>4. ~Has(D, m, d, i) => m[D[d]][i].addr = 0
  BY Zenon DEF Sound
<1>. QED BY <1>1, <1>2, <1>3, <1>4, Zenon

\* Memory m with a fresh page p of n zeroed entries (Zeroed, for any memory).
Grown(m, p, n) == [q \in DOMAIN m \cup {p} |-> IF q = p THEN ZeroPage(n) ELSE m[q]]

\* What that makes of memory m, with indices I.
Fresh(m, n, p, I) ==
    /\ n = [q \in DOMAIN n |-> n[q]]
    /\ DOMAIN n = DOMAIN m \cup {p} /\ n[p] \in [I -> Entries]
    /\ \A i \in I : n[p][i].flags = {} /\ n[p][i].addr = 0
    /\ \A q \in DOMAIN m : n[q] = m[q]

\* A fresh page holds absent entries, and the others are as they were.
LEMMA FreshPage ==
    ASSUME NEW m, NEW p, NEW n \in Nat \ {0}, p \notin DOMAIN m
    PROVE  Fresh(m, Grown(m, p, n), p, 0 .. n - 1)
<1>. DEFINE g == Grown(m, p, n)
<1>1. DOMAIN g = DOMAIN m \cup {p} /\ g = [q \in DOMAIN g |-> g[q]]
  BY Zenon DEF Grown
<1>2. g[p] = ZeroPage(n)
  BY Zenon DEF Grown
<1>3. \A q \in DOMAIN m : g[q] = m[q]
  BY Zenon DEF Grown
<1>. HIDE DEF g
<1>4. Entry(0, {}) \in Entries /\ Entry(0, {}).flags = {} /\ Entry(0, {}).addr = 0
  BY DEF Entry, Entries
<1>5. ZeroPage(n) \in [0 .. n - 1 -> Entries] /\ \A i \in 0 .. n - 1 : ZeroPage(n)[i] = Entry(0, {})
  BY <1>4, Zenon DEF ZeroPage
<1>6. /\ g[p] \in [0 .. n - 1 -> Entries]
      /\ \A i \in 0 .. n - 1 : g[p][i].flags = {} /\ g[p][i].addr = 0
  BY <1>2, <1>4, <1>5, Zenon
<1>7. Fresh(m, g, p, 0 .. n - 1)
  BY <1>1, <1>3, <1>6, Zenon DEF Fresh
<1>. QED BY <1>7, Zenon DEF g

\* The heap's first page becomes the directory d.
Begins(B, D, m, h, d, E, n) ==
    /\ Sound(B, D, m, h) /\ Private(B, D, m) /\ h # <<>> /\ d \notin B
    /\ Fresh(m, n, Head(h), PdIndex) /\ E[d] = Head(h) /\ \A e \in B : E[e] = D[e]

\* The new directory maps nothing, and the others translate as before.
Started(B, D, m, h, d, E, n) ==
    /\ Sound(B \cup {d}, E, n, Tail(h)) /\ Private(B \cup {d}, E, n)
    /\ \A va \in Pages : Walk(n, E[d], va) = {}
    /\ \A e \in B, va \in Pages : Walk(n, E[e], va) = Walk(m, D[e], va)

\* Allocating a directory: it maps nothing, and the others translate as before.
LEMMA NewDirectory ==
    ASSUME NEW B, NEW D, NEW m, NEW h, NEW d, NEW E, NEW n, Begins(B, D, m, h, d, E, n)
    PROVE  Started(B, D, m, h, d, E, n)
<1>. SUFFICES ASSUME Sound(B, D, m, h), Private(B, D, m), h # <<>>, d \notin B,
                     Fresh(m, n, Head(h), PdIndex), E[d] = Head(h), \A e \in B : E[e] = D[e]
              PROVE  /\ Sound(B \cup {d}, E, n, Tail(h)) /\ Private(B \cup {d}, E, n)
                     /\ \A va \in Pages : Walk(n, E[d], va) = {}
                     /\ \A e \in B, va \in Pages : Walk(n, E[e], va) = Walk(m, D[e], va)
  BY Zenon DEF Begins, Started
<1>. DEFINE p == Head(h)  C == B \cup {d}
<1>1. /\ p \in HeapSet /\ p \notin DOMAIN m
      /\ Tail(h) \in Seq(HeapSet) /\ Injective(Tail(h))
      /\ DOMAIN m \cup {p} \subseteq HeapSet \ Ran(Tail(h))
  BY Allocated, Zenon
<1>2. /\ DOMAIN n = DOMAIN m \cup {p} /\ n[p] \in Directories
      /\ \A i \in PdIndex : n[p][i].flags = {} /\ n[p][i].addr = 0
      /\ \A q \in DOMAIN m : n[q] = m[q]
  BY Zenon DEF Fresh, Directories
<1>3. E[d] = p /\ \A e \in B : E[e] = D[e] /\ e # d
  BY Zenon
<1>. HIDE DEF p
<1>a. /\ \A e \in B : D[e] \in DOMAIN m /\ m[D[e]] \in Directories
      /\ \A e \in B, i \in PdIndex : Has(D, m, e, i) =>
            /\ m[D[e]][i].flags = {"P", "W", "U"} /\ m[D[e]][i].addr \in DOMAIN m
            /\ m[m[D[e]][i].addr] \in Tables
      /\ \A e \in B, i \in PdIndex : ~Has(D, m, e, i) => m[D[e]][i].addr = 0
  BY Zenon DEF Sound
<1>b. OwnPages(B, D) /\ NoLoops(B, D, m) /\ OwnTables(B, D, m)
  BY Zenon DEF Private
<1>4. ASSUME NEW i \in PdIndex PROVE ~Has(E, n, d, i) /\ n[E[d]][i].addr = 0
  BY <1>2, <1>3, <1>4, Zenon DEF Has
<1>5. ASSUME NEW e \in B
      PROVE  D[e] \in DOMAIN m /\ E[e] \in DOMAIN n /\ E[e] # p /\ n[E[e]] = m[D[e]]
  <2>1. D[e] \in DOMAIN m
    BY <1>a, Zenon
  <2>. QED BY <1>1, <1>2, <1>3, <2>1, Zenon
<1>6. ASSUME NEW e \in B, NEW i \in PdIndex
      PROVE  /\ n[E[e]][i] = m[D[e]][i] /\ (Has(E, n, e, i) <=> Has(D, m, e, i))
             /\ Has(D, m, e, i) => /\ m[D[e]][i].addr \in DOMAIN m /\ m[D[e]][i].addr # p
                                   /\ n[m[D[e]][i].addr] = m[m[D[e]][i].addr]
  <2>1. n[E[e]][i] = m[D[e]][i] /\ (Has(E, n, e, i) <=> Has(D, m, e, i))
    BY <1>5, Zenon DEF Has
  <2>2. Has(D, m, e, i) => m[D[e]][i].addr \in DOMAIN m
    BY <1>a, Zenon
  <2>. QED BY <1>1, <1>2, <2>1, <2>2, Zenon
<1>7. Sound(C, E, n, Tail(h))
  <2>1. n \in [DOMAIN n -> Directories \cup Tables]
    <3>1. n = [q \in DOMAIN m \cup {p} |-> n[q]]
      BY <1>2, Zenon DEF Fresh
    <3>2. m \in [DOMAIN m -> Directories \cup Tables]
      BY Zenon DEF Sound
    <3>3. \A q \in DOMAIN m \cup {p} : n[q] \in Directories \cup Tables
      BY <1>2, <3>2, Zenon
    <3>. QED BY <1>2, <3>1, <3>3, Zenon
  <2>2. DOMAIN n \subseteq HeapSet \ Ran(Tail(h))
    BY <1>1, <1>2, Zenon
  <2>3. ASSUME NEW e \in C PROVE E[e] \in DOMAIN n /\ n[E[e]] \in Directories
    <3>1. CASE e = d
      BY <1>2, <1>3, <3>1, Zenon
    <3>2. CASE e \in B
      BY <1>5, <1>a, <3>2, Zenon
    <3>. QED BY <3>1, <3>2, Zenon
  <2>4. ASSUME NEW e \in C, NEW i \in PdIndex
        PROVE  IF Has(E, n, e, i)
               THEN /\ n[E[e]][i].flags = {"P", "W", "U"} /\ n[E[e]][i].addr \in DOMAIN n
                    /\ n[n[E[e]][i].addr] \in Tables
               ELSE n[E[e]][i].addr = 0
    <3>1. CASE e = d
      BY <1>4, <3>1, Zenon
    <3>2. CASE e \in B
      <4>1. CASE Has(D, m, e, i)
        <5>1. /\ m[D[e]][i].flags = {"P", "W", "U"} /\ m[D[e]][i].addr \in DOMAIN m
              /\ m[m[D[e]][i].addr] \in Tables
          BY <1>a, <3>2, <4>1, Zenon
        <5>2. /\ Has(E, n, e, i) /\ n[E[e]][i] = m[D[e]][i]
              /\ n[m[D[e]][i].addr] = m[m[D[e]][i].addr]
          BY <1>6, <3>2, <4>1, Zenon
        <5>3. n[E[e]][i].flags = {"P", "W", "U"} /\ n[E[e]][i].addr \in DOMAIN n
          BY <1>2, <5>1, <5>2, Zenon
        <5>4. n[n[E[e]][i].addr] \in Tables
          BY <5>1, <5>2, Zenon
        <5>. QED BY <5>2, <5>3, <5>4, Zenon
      <4>2. CASE ~Has(D, m, e, i)
        <5>1. m[D[e]][i].addr = 0
          BY <1>a, <3>2, <4>2, Zenon
        <5>. QED BY <1>6, <3>2, <4>2, <5>1, Zenon
      <4>. QED BY <4>1, <4>2
    <3>. QED BY <3>1, <3>2, Zenon
  <2>. QED BY <1>1, <2>1, <2>2, <2>3, <2>4, Zenon DEF Sound
<1>8. Private(C, E, n)
  <2>1. ASSUME NEW e \in C, NEW f \in C, E[e] = E[f] PROVE e = f
    <3>1. CASE e = d /\ f = d
      BY <3>1
    <3>2. CASE e = d /\ f \in B
      BY <1>3, <1>5, <2>1, <3>2, Zenon
    <3>3. CASE e \in B /\ f = d
      BY <1>3, <1>5, <2>1, <3>3, Zenon
    <3>4. CASE e \in B /\ f \in B
      BY <1>3, <1>b, <2>1, <3>4, Zenon DEF OwnPages
    <3>. QED BY <3>1, <3>2, <3>3, <3>4, Zenon
  <2>2. ASSUME NEW e \in C, NEW f \in C, NEW i \in PdIndex, Has(E, n, e, i)
        PROVE  n[E[e]][i].addr # E[f]
    <3>1. e \in B
      BY <1>4, <2>2, Zenon
    <3>2. n[E[e]][i] = m[D[e]][i] /\ Has(D, m, e, i) /\ m[D[e]][i].addr # p
      BY <1>6, <2>2, <3>1, Zenon
    <3>3. CASE f = d
      BY <1>3, <3>2, <3>3, Zenon
    <3>4. CASE f \in B
      <4>1. m[D[e]][i].addr # D[f]
        BY <1>b, <3>1, <3>2, <3>4, Zenon DEF NoLoops
      <4>. QED BY <1>3, <3>2, <3>4, <4>1, Zenon
    <3>. QED BY <3>3, <3>4, Zenon
  <2>3. ASSUME NEW e \in C, NEW f \in C, NEW i \in PdIndex, NEW j \in PdIndex,
               Has(E, n, e, i), Has(E, n, f, j), n[E[e]][i].addr = n[E[f]][j].addr
        PROVE  e = f /\ i = j
    <3>1. e \in B /\ f \in B
      BY <1>4, <2>3, Zenon
    <3>2. Has(D, m, e, i) /\ Has(D, m, f, j) /\ m[D[e]][i].addr = m[D[f]][j].addr
      BY <1>6, <2>3, <3>1, Zenon
    <3>. QED BY <1>b, <3>1, <3>2, Zenon DEF OwnTables
  <2>4. OwnPages(C, E)
    BY <2>1, Zenon DEF OwnPages
  <2>5. NoLoops(C, E, n)
    BY <2>2, Zenon DEF NoLoops
  <2>6. OwnTables(C, E, n)
    BY <2>3, Zenon DEF OwnTables
  <2>. QED BY <2>4, <2>5, <2>6, Zenon DEF Private
<1>9. ASSUME NEW va \in Pages PROVE Walk(n, E[d], va) = {}
  <2>1. "P" \notin n[E[d]][pdx(va)].flags
    BY <1>4, Indices, Zenon DEF Has
  <2>. QED BY <2>1, Zenon DEF Walk
<1>10. ASSUME NEW e \in B, NEW va \in Pages PROVE Walk(n, E[e], va) = Walk(m, D[e], va)
  <2>1. pdx(va) \in PdIndex
    BY Indices, Zenon
  <2>2. /\ n[E[e]][pdx(va)] = m[D[e]][pdx(va)]
        /\ "P" \in m[D[e]][pdx(va)].flags =>
              n[m[D[e]][pdx(va)].addr][ptx(va)] = m[m[D[e]][pdx(va)].addr][ptx(va)]
    BY <1>6, <2>1, Zenon DEF Has
  <2>3. CASE "P" \in m[D[e]][pdx(va)].flags
    BY <2>2, <2>3, Zenon DEF Walk
  <2>4. CASE "P" \notin m[D[e]][pdx(va)].flags
    BY <2>2, <2>4, Zenon DEF Walk
  <2>. QED BY <2>3, <2>4
<1>. QED BY <1>7, <1>8, <1>9, <1>10, Zenon

\* Memory n is m with a fresh table at page p, entered at index i of the directory at pd.
Linked(m, n, pd, i, p) ==
    /\ n = [q \in DOMAIN n |-> n[q]]
    /\ DOMAIN n = DOMAIN m \cup {p} /\ n[p] \in Tables
    /\ \A j \in PtIndex : n[p][j].flags = {}
    /\ n[pd] \in Directories /\ n[pd][i].flags = {"P", "W", "U"} /\ n[pd][i].addr = p
    /\ \A j \in PdIndex \ {i} : n[pd][j] = m[pd][j]
    /\ \A q \in DOMAIN m \ {pd} : n[q] = m[q]

\* The directory d, that lacked a table at index i, gets the heap's first page.
Opens(B, D, m, h, d, i, n) ==
    /\ Sound(B, D, m, h) /\ Private(B, D, m) /\ h # <<>>
    /\ d \in B /\ i \in PdIndex /\ ~Has(D, m, d, i)
    /\ Linked(m, n, D[d], i, Head(h))

\* It is a table of that directory alone, and every directory translates as before.
Opened(B, D, m, h, d, i, n) ==
    /\ Sound(B, D, n, Tail(h)) /\ Private(B, D, n)
    /\ Has(D, n, d, i) /\ n[D[d]][i].addr = Head(h)
    /\ \A e \in B, va \in Pages : Walk(n, D[e], va) = Walk(m, D[e], va)

\* Allocating a table: every directory translates as before.
LEMMA NewTable ==
    ASSUME NEW B, NEW D, NEW m, NEW h, NEW d, NEW i, NEW n, Opens(B, D, m, h, d, i, n)
    PROVE  Opened(B, D, m, h, d, i, n)
<1>. SUFFICES ASSUME Sound(B, D, m, h), Private(B, D, m), h # <<>>,
                     d \in B, i \in PdIndex, ~Has(D, m, d, i), Linked(m, n, D[d], i, Head(h))
              PROVE  /\ Sound(B, D, n, Tail(h)) /\ Private(B, D, n)
                     /\ Has(D, n, d, i) /\ n[D[d]][i].addr = Head(h)
                     /\ \A e \in B, va \in Pages : Walk(n, D[e], va) = Walk(m, D[e], va)
  BY Zenon DEF Opens, Opened
<1>. DEFINE p == Head(h)
<1>1. /\ p \in HeapSet /\ p \notin DOMAIN m
      /\ Tail(h) \in Seq(HeapSet) /\ Injective(Tail(h))
      /\ DOMAIN m \cup {p} \subseteq HeapSet \ Ran(Tail(h))
  BY Allocated, Zenon
<1>2. /\ DOMAIN n = DOMAIN m \cup {p} /\ n[p] \in Tables
      /\ \A j \in PtIndex : n[p][j].flags = {}
  BY Zenon DEF Linked
<1>3. /\ n[D[d]] \in Directories /\ n[D[d]][i].flags = {"P", "W", "U"} /\ n[D[d]][i].addr = p
      /\ \A j \in PdIndex \ {i} : n[D[d]][j] = m[D[d]][j]
      /\ \A q \in DOMAIN m \ {D[d]} : n[q] = m[q]
  BY Zenon DEF Linked
<1>. HIDE DEF p
<1>4. /\ \A e \in B : D[e] \in DOMAIN m /\ m[D[e]] \in Directories
      /\ \A e \in B, j \in PdIndex : Has(D, m, e, j) =>
            /\ m[D[e]][j].flags = {"P", "W", "U"} /\ m[D[e]][j].addr \in DOMAIN m
            /\ m[m[D[e]][j].addr] \in Tables
      /\ \A e \in B, j \in PdIndex : ~Has(D, m, e, j) => m[D[e]][j].addr = 0
  BY Zenon DEF Sound
<1>5. OwnPages(B, D) /\ NoLoops(B, D, m) /\ OwnTables(B, D, m)
  BY Zenon DEF Private
<1>6. Has(D, n, d, i)
  BY <1>3, Zenon DEF Has
<1>7. ASSUME NEW e \in B, NEW j \in PdIndex, ~(e = d /\ j = i)
      PROVE  n[D[e]][j] = m[D[e]][j] /\ (Has(D, n, e, j) <=> Has(D, m, e, j))
  <2>1. CASE e = d
    <3>1. n[D[e]][j] = m[D[e]][j]
      BY <1>3, <1>7, <2>1, Zenon
    <3>. QED BY <3>1, Zenon DEF Has
  <2>2. CASE e # d
    <3>1. D[e] # D[d]
      BY <1>5, <2>2, Zenon DEF OwnPages
    <3>2. n[D[e]] = m[D[e]]
      BY <1>3, <1>4, <3>1, Zenon
    <3>. QED BY <3>2, Zenon DEF Has
  <2>. QED BY <2>1, <2>2
<1>8. ASSUME NEW e \in B, NEW j \in PdIndex, Has(D, m, e, j)
      PROVE  /\ m[D[e]][j].addr \in DOMAIN m /\ m[D[e]][j].addr # p
             /\ n[m[D[e]][j].addr] = m[m[D[e]][j].addr]
  <2>1. m[D[e]][j].addr \in DOMAIN m
    BY <1>4, <1>8, Zenon
  <2>2. m[D[e]][j].addr # D[d]
    BY <1>5, <1>8, Zenon DEF NoLoops
  <2>. QED BY <1>1, <1>3, <2>1, <2>2, Zenon
<1>9. Sound(B, D, n, Tail(h))
  <2>1. n \in [DOMAIN n -> Directories \cup Tables]
    <3>1. n = [q \in DOMAIN n |-> n[q]]
      BY Zenon DEF Linked
    <3>2. m \in [DOMAIN m -> Directories \cup Tables]
      BY Zenon DEF Sound
    <3>3. ASSUME NEW q \in DOMAIN n PROVE n[q] \in Directories \cup Tables
      <4>1. CASE q = p
        BY <1>2, <4>1, Zenon
      <4>2. CASE q = D[d]
        BY <1>3, <4>2, Zenon
      <4>3. CASE q \in DOMAIN m \ {D[d]}
        <5>1. n[q] = m[q]
          BY <1>3, <4>3, Zenon
        <5>. QED BY <3>2, <4>3, <5>1, Zenon
      <4>. QED BY <1>2, <4>1, <4>2, <4>3, Zenon
    <3>. QED BY <3>1, <3>3, Zenon
  <2>2. DOMAIN n \subseteq HeapSet \ Ran(Tail(h))
    BY <1>1, <1>2, Zenon
  <2>3. ASSUME NEW e \in B PROVE D[e] \in DOMAIN n /\ n[D[e]] \in Directories
    <3>1. D[e] \in DOMAIN n
      BY <1>2, <1>4, Zenon
    <3>2. CASE D[e] = D[d]
      BY <1>3, <3>1, <3>2, Zenon
    <3>3. CASE D[e] # D[d]
      <4>1. n[D[e]] = m[D[e]]
        BY <1>3, <1>4, <3>3, Zenon
      <4>. QED BY <1>4, <3>1, <4>1, Zenon
    <3>. QED BY <3>2, <3>3
  <2>4. ASSUME NEW e \in B, NEW j \in PdIndex
        PROVE  IF Has(D, n, e, j)
               THEN /\ n[D[e]][j].flags = {"P", "W", "U"} /\ n[D[e]][j].addr \in DOMAIN n
                    /\ n[n[D[e]][j].addr] \in Tables
               ELSE n[D[e]][j].addr = 0
    <3>1. CASE e = d /\ j = i
      BY <1>2, <1>3, <1>6, <3>1, Zenon
    <3>2. CASE ~(e = d /\ j = i) /\ Has(D, m, e, j)
      <4>1. n[D[e]][j] = m[D[e]][j] /\ Has(D, n, e, j)
        BY <1>7, <3>2, Zenon
      <4>2. /\ m[D[e]][j].flags = {"P", "W", "U"} /\ m[D[e]][j].addr \in DOMAIN m
            /\ m[m[D[e]][j].addr] \in Tables
        BY <1>4, <3>2, Zenon
      <4>3. n[m[D[e]][j].addr] = m[m[D[e]][j].addr]
        BY <1>8, <3>2, Zenon
      <4>4. n[D[e]][j].flags = {"P", "W", "U"} /\ n[D[e]][j].addr \in DOMAIN n
        BY <1>2, <4>1, <4>2, Zenon
      <4>5. n[n[D[e]][j].addr] \in Tables
        BY <4>1, <4>2, <4>3, Zenon
      <4>. QED BY <4>1, <4>4, <4>5, Zenon
    <3>3. CASE ~(e = d /\ j = i) /\ ~Has(D, m, e, j)
      <4>1. n[D[e]][j] = m[D[e]][j] /\ ~Has(D, n, e, j)
        BY <1>7, <3>3, Zenon
      <4>2. m[D[e]][j].addr = 0
        BY <1>4, <3>3, Zenon
      <4>. QED BY <4>1, <4>2, Zenon
    <3>. QED BY <3>1, <3>2, <3>3, Zenon
  <2>. QED BY <1>1, <2>1, <2>2, <2>3, <2>4, Zenon DEF Sound
<1>10. Private(B, D, n)
  <2>1. ASSUME NEW e \in B, NEW f \in B, NEW j \in PdIndex, Has(D, n, e, j)
        PROVE  n[D[e]][j].addr # D[f]
    <3>1. CASE e = d /\ j = i
      BY <1>1, <1>3, <1>4, <3>1, Zenon
    <3>2. CASE ~(e = d /\ j = i)
      <4>1. n[D[e]][j] = m[D[e]][j] /\ Has(D, m, e, j)
        BY <1>7, <2>1, <3>2, Zenon
      <4>2. m[D[e]][j].addr # D[f]
        BY <1>5, <4>1, Zenon DEF NoLoops
      <4>. QED BY <4>1, <4>2, Zenon
    <3>. QED BY <3>1, <3>2
  <2>2. ASSUME NEW e \in B, NEW j \in PdIndex, Has(D, n, e, j), n[D[e]][j].addr = p
        PROVE  e = d /\ j = i
    <3>. SUFFICES ASSUME ~(e = d /\ j = i) PROVE FALSE
      BY Zenon
    <3>1. n[D[e]][j] = m[D[e]][j] /\ Has(D, m, e, j)
      BY <1>7, <2>2, Zenon
    <3>2. m[D[e]][j].addr # p
      BY <1>8, <3>1, Zenon
    <3>. QED BY <2>2, <3>1, <3>2, Zenon
  <2>3. ASSUME NEW e \in B, NEW f \in B, NEW j \in PdIndex, NEW l \in PdIndex,
               Has(D, n, e, j), Has(D, n, f, l), n[D[e]][j].addr = n[D[f]][l].addr
        PROVE  e = f /\ j = l
    <3>1. CASE e = d /\ j = i
      <4>1. n[D[f]][l].addr = p
        BY <1>3, <2>3, <3>1, Zenon
      <4>2. f = d /\ l = i
        BY <2>2, <2>3, <4>1, Zenon
      <4>. QED BY <3>1, <4>2, Zenon
    <3>2. CASE f = d /\ l = i
      <4>1. n[D[e]][j].addr = p
        BY <1>3, <2>3, <3>2, Zenon
      <4>2. e = d /\ j = i
        BY <2>2, <2>3, <4>1, Zenon
      <4>. QED BY <3>2, <4>2, Zenon
    <3>3. CASE ~(e = d /\ j = i) /\ ~(f = d /\ l = i)
      <4>1. n[D[e]][j] = m[D[e]][j] /\ Has(D, m, e, j)
        BY <1>7, <2>3, <3>3, Zenon
      <4>2. n[D[f]][l] = m[D[f]][l] /\ Has(D, m, f, l)
        BY <1>7, <2>3, <3>3, Zenon
      <4>3. m[D[e]][j].addr = m[D[f]][l].addr
        BY <2>3, <4>1, <4>2, Zenon
      <4>. QED BY <1>5, <4>1, <4>2, <4>3, Zenon DEF OwnTables
    <3>. QED BY <3>1, <3>2, <3>3
  <2>4. NoLoops(B, D, n)
    BY <2>1, Zenon DEF NoLoops
  <2>5. OwnTables(B, D, n)
    BY <2>3, Zenon DEF OwnTables
  <2>. QED BY <1>5, <2>4, <2>5, Zenon DEF Private
<1>11. ASSUME NEW e \in B, NEW va \in Pages PROVE Walk(n, D[e], va) = Walk(m, D[e], va)
  <2>1. pdx(va) \in PdIndex /\ ptx(va) \in PtIndex
    BY Indices, Zenon
  <2>2. CASE e = d /\ pdx(va) = i
    <3>1. "P" \notin m[D[e]][pdx(va)].flags
      BY <2>2, Zenon DEF Has
    <3>2. "P" \notin n[n[D[e]][pdx(va)].addr][ptx(va)].flags
      BY <1>2, <1>3, <2>1, <2>2, Zenon
    <3>. QED BY <3>1, <3>2, Zenon DEF Walk
  <2>3. CASE ~(e = d /\ pdx(va) = i)
    <3>1. n[D[e]][pdx(va)] = m[D[e]][pdx(va)]
      BY <1>7, <2>1, <2>3, Zenon
    <3>2. CASE "P" \in m[D[e]][pdx(va)].flags
      <4>1. n[m[D[e]][pdx(va)].addr] = m[m[D[e]][pdx(va)].addr]
        BY <1>8, <2>1, <3>2, Zenon DEF Has
      <4>. QED BY <3>1, <3>2, <4>1, Zenon DEF Walk
    <3>3. CASE "P" \notin m[D[e]][pdx(va)].flags
      BY <3>1, <3>3, Zenon DEF Walk
    <3>. QED BY <3>2, <3>3
  <2>. QED BY <2>2, <2>3
<1>12. n[D[d]][i].addr = Head(h)
  BY <1>3, Zenon DEF p
<1>. QED BY <1>6, <1>9, <1>10, <1>11, <1>12, Zenon

\* Memory n is m with entry x at index j of the table at page t.
Overwritten(m, n, t, j, x) ==
    /\ n = [q \in DOMAIN n |-> n[q]]
    /\ DOMAIN n = DOMAIN m /\ n[t] \in Tables /\ n[t][j] = x
    /\ \A l \in PtIndex \ {j} : n[t][l] = m[t][l]
    /\ \A q \in DOMAIN m \ {t} : n[q] = m[q]

\* What the MMU makes of entry x of a table.
Leaf(x) ==
    IF "P" \in x.flags THEN {[frame |-> x.addr, rights |-> ({"P", "W", "U"} \cap x.flags) \ {"P"}]}
    ELSE {}

\* Entry x is stored at index j of the table t that the directory d has at index i.
Stores(B, D, m, h, d, i, j, t, x, n) ==
    /\ Sound(B, D, m, h) /\ Private(B, D, m) /\ d \in B /\ i \in PdIndex /\ j \in PtIndex
    /\ Has(D, m, d, i) /\ t = m[D[d]][i].addr /\ Overwritten(m, n, t, j, x)

\* The page at those indices of d is translated by x, and everything else as before.
Updated(B, D, m, h, d, i, j, t, x, n) ==
    /\ Sound(B, D, n, h) /\ Private(B, D, n) /\ DOMAIN n = DOMAIN m
    /\ \A va \in Pages : pdx(va) = i /\ ptx(va) = j => Walk(n, D[d], va) = Leaf(x)
    /\ \A e \in B, va \in Pages :
          ~(e = d /\ pdx(va) = i /\ ptx(va) = j) => Walk(n, D[e], va) = Walk(m, D[e], va)

\* Storing an entry in a table: the one page it stands for is translated by it, and every
\* other page of every directory as before.
LEMMA Stored ==
    ASSUME NEW B, NEW D, NEW m, NEW h, NEW d, NEW i, NEW j, NEW t, NEW x, NEW n,
           Stores(B, D, m, h, d, i, j, t, x, n)
    PROVE  Updated(B, D, m, h, d, i, j, t, x, n)
<1>. SUFFICES ASSUME Sound(B, D, m, h), Private(B, D, m), d \in B, i \in PdIndex, j \in PtIndex,
                     Has(D, m, d, i), t = m[D[d]][i].addr, Overwritten(m, n, t, j, x)
              PROVE  /\ Sound(B, D, n, h) /\ Private(B, D, n) /\ DOMAIN n = DOMAIN m
                     /\ \A va \in Pages :
                           pdx(va) = i /\ ptx(va) = j => Walk(n, D[d], va) = Leaf(x)
                     /\ \A e \in B, va \in Pages : ~(e = d /\ pdx(va) = i /\ ptx(va) = j)
                                                  => Walk(n, D[e], va) = Walk(m, D[e], va)
  BY Zenon DEF Stores, Updated
<1>1. DOMAIN n = DOMAIN m /\ n[t] \in Tables /\ n[t][j] = x
  BY Zenon DEF Overwritten
<1>2. /\ \A l \in PtIndex \ {j} : n[t][l] = m[t][l]
      /\ \A q \in DOMAIN m \ {t} : n[q] = m[q]
  BY Zenon DEF Overwritten
<1>3. /\ \A e \in B : D[e] \in DOMAIN m /\ m[D[e]] \in Directories
      /\ \A e \in B, l \in PdIndex : Has(D, m, e, l) =>
            /\ m[D[e]][l].flags = {"P", "W", "U"} /\ m[D[e]][l].addr \in DOMAIN m
            /\ m[m[D[e]][l].addr] \in Tables
      /\ \A e \in B, l \in PdIndex : ~Has(D, m, e, l) => m[D[e]][l].addr = 0
  BY Zenon DEF Sound
<1>4. OwnPages(B, D) /\ NoLoops(B, D, m) /\ OwnTables(B, D, m)
  BY Zenon DEF Private
<1>5. ASSUME NEW e \in B PROVE n[D[e]] = m[D[e]]
  <2>1. t # D[e]
    BY <1>4, Zenon DEF NoLoops
  <2>. QED BY <1>2, <1>3, <2>1, Zenon
<1>6. ASSUME NEW e \in B, NEW l \in PdIndex PROVE Has(D, n, e, l) <=> Has(D, m, e, l)
  BY <1>5, Zenon DEF Has
<1>7. ASSUME NEW e \in B, NEW l \in PdIndex, Has(D, m, e, l)
      PROVE  n[m[D[e]][l].addr] \in Tables
  <2>1. CASE m[D[e]][l].addr = t
    BY <1>1, <2>1, Zenon
  <2>2. CASE m[D[e]][l].addr # t
    <3>1. m[D[e]][l].addr \in DOMAIN m /\ m[m[D[e]][l].addr] \in Tables
      BY <1>3, <1>7, Zenon
    <3>. QED BY <1>2, <2>2, <3>1, Zenon
  <2>. QED BY <2>1, <2>2
<1>8. Sound(B, D, n, h)
  <2>1. n \in [DOMAIN n -> Directories \cup Tables]
    <3>1. n = [q \in DOMAIN n |-> n[q]]
      BY Zenon DEF Overwritten
    <3>2. m \in [DOMAIN m -> Directories \cup Tables]
      BY Zenon DEF Sound
    <3>3. ASSUME NEW q \in DOMAIN n PROVE n[q] \in Directories \cup Tables
      <4>1. CASE q = t
        BY <1>1, <4>1, Zenon
      <4>2. CASE q # t
        <5>1. q \in DOMAIN m /\ n[q] = m[q]
          BY <1>1, <1>2, <4>2, Zenon
        <5>. QED BY <3>2, <5>1, Zenon
      <4>. QED BY <4>1, <4>2
    <3>. QED BY <3>1, <3>3, Zenon
  <2>2. h \in Seq(HeapSet) /\ Injective(h) /\ DOMAIN n \subseteq HeapSet \ Ran(h)
    BY <1>1, Zenon DEF Sound
  <2>3. ASSUME NEW e \in B PROVE D[e] \in DOMAIN n /\ n[D[e]] \in Directories
    BY <1>1, <1>3, <1>5, Zenon
  <2>4. ASSUME NEW e \in B, NEW l \in PdIndex
        PROVE  IF Has(D, n, e, l)
               THEN /\ n[D[e]][l].flags = {"P", "W", "U"} /\ n[D[e]][l].addr \in DOMAIN n
                    /\ n[n[D[e]][l].addr] \in Tables
               ELSE n[D[e]][l].addr = 0
    <3>1. n[D[e]] = m[D[e]]
      BY <1>5, Zenon
    <3>2. CASE Has(D, m, e, l)
      <4>1. m[D[e]][l].flags = {"P", "W", "U"} /\ m[D[e]][l].addr \in DOMAIN m
        BY <1>3, <3>2, Zenon
      <4>2. Has(D, n, e, l) /\ n[m[D[e]][l].addr] \in Tables
        BY <1>6, <1>7, <3>2, Zenon
      <4>. QED BY <1>1, <3>1, <4>1, <4>2, Zenon
    <3>3. CASE ~Has(D, m, e, l)
      <4>1. ~Has(D, n, e, l) /\ m[D[e]][l].addr = 0
        BY <1>3, <1>6, <3>3, Zenon
      <4>. QED BY <3>1, <4>1, Zenon
    <3>. QED BY <3>2, <3>3
  <2>. QED BY <2>1, <2>2, <2>3, <2>4, Zenon DEF Sound
<1>9. Private(B, D, n)
  <2>1. ASSUME NEW e \in B, NEW f \in B, NEW l \in PdIndex, Has(D, n, e, l)
        PROVE  n[D[e]][l].addr # D[f]
    <3>1. Has(D, m, e, l) /\ n[D[e]] = m[D[e]]
      BY <1>5, <1>6, <2>1, Zenon
    <3>2. m[D[e]][l].addr # D[f]
      BY <1>4, <3>1, Zenon DEF NoLoops
    <3>. QED BY <3>1, <3>2, Zenon
  <2>2. ASSUME NEW e \in B, NEW f \in B, NEW l \in PdIndex, NEW o \in PdIndex,
               Has(D, n, e, l), Has(D, n, f, o), n[D[e]][l].addr = n[D[f]][o].addr
        PROVE  e = f /\ l = o
    <3>1. Has(D, m, e, l) /\ n[D[e]] = m[D[e]]
      BY <1>5, <1>6, <2>2, Zenon
    <3>2. Has(D, m, f, o) /\ n[D[f]] = m[D[f]]
      BY <1>5, <1>6, <2>2, Zenon
    <3>3. m[D[e]][l].addr = m[D[f]][o].addr
      BY <2>2, <3>1, <3>2, Zenon
    <3>. QED BY <1>4, <3>1, <3>2, <3>3, Zenon DEF OwnTables
  <2>3. NoLoops(B, D, n)
    BY <2>1, Zenon DEF NoLoops
  <2>4. OwnTables(B, D, n)
    BY <2>2, Zenon DEF OwnTables
  <2>. QED BY <1>4, <2>3, <2>4, Zenon DEF Private
<1>10. ASSUME NEW va \in Pages, pdx(va) = i, ptx(va) = j PROVE Walk(n, D[d], va) = Leaf(x)
  <2>1. /\ n[D[d]][pdx(va)].flags = {"P", "W", "U"} /\ n[D[d]][pdx(va)].addr = t
    <3>1. m[D[d]][i].flags = {"P", "W", "U"} /\ n[D[d]] = m[D[d]]
      BY <1>3, <1>5, Zenon
    <3>. QED BY <1>10, <3>1
  <2>2. n[n[D[d]][pdx(va)].addr][ptx(va)] = x
    BY <1>1, <1>10, <2>1, Zenon
  <2>3. "P" \in n[D[d]][pdx(va)].flags
    BY <2>1, Zenon
  <2>4. CASE "P" \in x.flags
    BY <2>1, <2>2, <2>3, <2>4, Zenon DEF Walk, Leaf
  <2>5. CASE "P" \notin x.flags
    BY <2>2, <2>5, Zenon DEF Walk, Leaf
  <2>. QED BY <2>4, <2>5
<1>11. ASSUME NEW e \in B, NEW va \in Pages, ~(e = d /\ pdx(va) = i /\ ptx(va) = j)
       PROVE  Walk(n, D[e], va) = Walk(m, D[e], va)
  <2>1. pdx(va) \in PdIndex /\ ptx(va) \in PtIndex
    BY Indices, Zenon
  <2>2. n[D[e]][pdx(va)] = m[D[e]][pdx(va)]
    BY <1>5, Zenon
  <2>3. CASE "P" \in m[D[e]][pdx(va)].flags
    <3>1. n[m[D[e]][pdx(va)].addr][ptx(va)] = m[m[D[e]][pdx(va)].addr][ptx(va)]
      <4>1. CASE m[D[e]][pdx(va)].addr = t
        <5>1. e = d /\ pdx(va) = i
          <6>1. Has(D, m, e, pdx(va)) /\ m[D[e]][pdx(va)].addr = m[D[d]][i].addr
            BY <2>3, <4>1, Zenon DEF Has
          <6>. QED BY <1>4, <2>1, <6>1, Zenon DEF OwnTables
        <5>. QED BY <1>2, <1>11, <2>1, <4>1, <5>1, Zenon
      <4>2. CASE m[D[e]][pdx(va)].addr # t
        <5>1. m[D[e]][pdx(va)].addr \in DOMAIN m
          BY <1>3, <2>1, <2>3, Zenon DEF Has
        <5>. QED BY <1>2, <4>2, <5>1, Zenon
      <4>. QED BY <4>1, <4>2
    <3>. QED BY <2>2, <2>3, <3>1, Zenon DEF Walk
  <2>4. CASE "P" \notin m[D[e]][pdx(va)].flags
    BY <2>2, <2>4, Zenon DEF Walk
  <2>. QED BY <2>3, <2>4
<1>. QED BY <1>1, <1>8, <1>9, <1>10, <1>11, Zenon

\* A fresh table entered in a directory, as walk_page_dir writes it.
LEMMA Linking ==
    ASSUME NEW m, NEW pd \in DOMAIN m, m[pd] \in Directories, NEW p \in Nat, p \notin DOMAIN m,
           NEW i \in PdIndex
    PROVE  Linked(m, [Grown(m, p, NPTENTRIES) EXCEPT ![pd][i] = Entry(p, {"P", "W", "U"})],
                  pd, i, p)
<1>. DEFINE g == Grown(m, p, NPTENTRIES)  x == Entry(p, {"P", "W", "U"})
            n == [g EXCEPT ![pd][i] = x]
<1>1. Fresh(m, g, p, PtIndex)
  BY Sizes, FreshPage, Zenon DEF PtIndex
<1>. HIDE DEF g
<1>2. /\ DOMAIN g = DOMAIN m \cup {p} /\ g[p] \in Tables
      /\ \A j \in PtIndex : g[p][j].flags = {}
      /\ \A q \in DOMAIN m : g[q] = m[q]
  BY <1>1, Zenon DEF Fresh, Tables
<1>3. x \in Entries /\ x.flags = {"P", "W", "U"} /\ x.addr = p
  BY DEF Entry, Entries
<1>. HIDE DEF x
<1>4. DOMAIN n = DOMAIN g /\ n = [q \in DOMAIN n |-> n[q]]
  BY Zenon
<1>5. n[pd] = [g[pd] EXCEPT ![i] = x]
  BY <1>2, Zenon
<1>6. \A q \in DOMAIN g \ {pd} : n[q] = g[q]
  BY Zenon
<1>. HIDE DEF n
<1>7. g[pd] = m[pd] /\ pd # p
  BY <1>2, Zenon
<1>8. n[pd] \in Directories /\ n[pd][i] = x /\ \A j \in PdIndex \ {i} : n[pd][j] = m[pd][j]
  BY <1>3, <1>5, <1>7, Zenon DEF Directories
<1>9. n[p] = g[p] /\ \A q \in DOMAIN m \ {pd} : n[q] = m[q]
  BY <1>2, <1>6, <1>7, Zenon
<1>10. Linked(m, n, pd, i, p)
  BY <1>2, <1>3, <1>4, <1>8, <1>9, Zenon DEF Linked
<1>. QED BY <1>10, Zenon DEF n, g, x

\* An entry stored in a table, as map_pages writes it.
LEMMA Overwriting ==
    ASSUME NEW m, NEW t \in DOMAIN m, m[t] \in Tables, NEW j \in PtIndex, NEW x \in Entries
    PROVE  Overwritten(m, [m EXCEPT ![t][j] = x], t, j, x)
<1>. DEFINE n == [m EXCEPT ![t][j] = x]
<1>1. DOMAIN n = DOMAIN m /\ n = [q \in DOMAIN n |-> n[q]]
  BY Zenon
<1>2. n[t] = [m[t] EXCEPT ![j] = x] /\ \A q \in DOMAIN m \ {t} : n[q] = m[q]
  BY Zenon
<1>. HIDE DEF n
<1>3. n[t] \in Tables /\ n[t][j] = x /\ \A l \in PtIndex \ {j} : n[t][l] = m[t][l]
  BY <1>2, Zenon DEF Tables
<1>4. Overwritten(m, n, t, j, x)
  BY <1>1, <1>2, <1>3, Zenon DEF Overwritten
<1>. QED BY <1>4, Zenon DEF n

\* walk_page_dir: the directory has the table it returns, and translates as before.
LEMMA Walked ==
    ASSUME Sound(Begun, dirs, mem, heap), Private(Begun, dirs, mem), dir \in Begun, a \in Pages,
           NEW w, w = WalkPageDir, w.tab # 0
    PROVE  /\ Sound(Begun, dirs, w.mem, w.heap) /\ Private(Begun, dirs, w.mem)
           /\ Has(dirs, w.mem, dir, pdx(a)) /\ w.mem[dirs[dir]][pdx(a)].addr = w.tab
           /\ DOMAIN w.mem \cup Ran(w.heap) \subseteq DOMAIN mem \cup Ran(heap)
           /\ \A e \in Begun, va \in Pages : Walk(w.mem, dirs[e], va) = Walk(mem, dirs[e], va)
<1>. DEFINE pd == dirs[dir]  p == Head(heap)
            n == [Zeroed(p, NPTENTRIES) EXCEPT ![pd][pdx(a)] = Entry(p, {"P", "W", "U"})]
<1>1. pdx(a) \in PdIndex
  BY Indices, Zenon
<1>2. CASE "P" \in mem[pd][pdx(a)].flags
  <2>1. w = [tab |-> mem[pd][pdx(a)].addr, heap |-> heap, mem |-> mem]
    BY <1>2, Zenon DEF WalkPageDir
  <2>2. w.tab = mem[pd][pdx(a)].addr /\ w.heap = heap /\ w.mem = mem
    BY <2>1
  <2>. QED BY <1>2, <2>2, Zenon DEF Has
<1>3. CASE "P" \notin mem[pd][pdx(a)].flags
  <2>1. heap # <<>>
    <3>. SUFFICES ASSUME heap = <<>> PROVE w.tab = 0
      BY Zenon
    <3>1. w = [tab |-> 0, heap |-> heap, mem |-> mem]
      BY <1>3, Zenon DEF WalkPageDir, NoMemory
    <3>. QED BY <3>1
  <2>2. w = [tab |-> p, heap |-> Tail(heap), mem |-> n]
    BY <1>3, <2>1, Zenon DEF WalkPageDir, NoMemory
  <2>3. w.tab = p /\ w.heap = Tail(heap) /\ w.mem = n
    <3>. HIDE DEF n, p
    <3>. QED BY <2>2
  <2>4. /\ p \in HeapSet /\ p \notin DOMAIN mem /\ p \in Ran(heap)
        /\ Ran(Tail(heap)) \subseteq Ran(heap)
    BY <2>1, Allocated, Zenon
  <2>5. p \in Nat
    BY <2>4, HeapPage, Zenon
  <2>6. pd \in DOMAIN mem /\ mem[pd] \in Directories
    BY Zenon DEF Sound
  <2>7. Zeroed(p, NPTENTRIES) = Grown(mem, p, NPTENTRIES)
    BY Zenon DEF Zeroed, Grown
  <2>8. Linked(mem, n, pd, pdx(a), p)
    BY <1>1, <2>4, <2>5, <2>6, <2>7, Linking, Zenon
  <2>9. ~Has(dirs, mem, dir, pdx(a))
    BY <1>3, Zenon DEF Has
  <2>. HIDE DEF n
  <2>10. /\ Sound(Begun, dirs, n, Tail(heap)) /\ Private(Begun, dirs, n)
         /\ Has(dirs, n, dir, pdx(a)) /\ n[dirs[dir]][pdx(a)].addr = p
         /\ \A e \in Begun, va \in Pages : Walk(n, dirs[e], va) = Walk(mem, dirs[e], va)
    <3>1. Opens(Begun, dirs, mem, heap, dir, pdx(a), n)
      BY <1>1, <2>1, <2>8, <2>9, Zenon DEF Opens
    <3>2. Opened(Begun, dirs, mem, heap, dir, pdx(a), n)
      BY <3>1, NewTable, Zenon
    <3>. QED BY <3>2, Zenon DEF Opened
  <2>11. DOMAIN n = DOMAIN mem \cup {p}
    BY <2>8, Zenon DEF Linked
  <2>. QED BY <2>3, <2>4, <2>10, <2>11, Zenon
<1>. QED BY <1>2, <1>3

-----------------------------------------------------------------------------
(* The ranges *)

\* map_pages' locals for the range from s to e: whole pages, and the last one ends at e.
LEMMA RangeOf ==
    ASSUME NEW s \in Nat, NEW e \in Nat, s % PAGE_SIZE = 0, e % PAGE_SIZE = 0,
           s < e, e <= AddrSpace
    PROVE  /\ RoundDown(s) = s /\ s \in Pages
           /\ RoundDown(WrapAdd(s, (e - s) - 1)) = e - PAGE_SIZE /\ e - PAGE_SIZE \in Pages
           /\ s <= e - PAGE_SIZE
<1>1. PAGE_SIZE \in Nat \ {0} /\ AddrSpace \in Nat \ {0}
  BY Sizes
<1>2. s + PAGE_SIZE <= e
  BY <1>1, Multiples, Zenon
<1>3. e - 1 \in 0 .. AddrSpace - 1 /\ s + ((e - s) - 1) = e - 1 /\ e - PAGE_SIZE \in Nat
  BY <1>1, <1>2
<1>4. WrapAdd(s, (e - s) - 1) = e - 1
  BY <1>1, <1>3, Small, Zenon DEF WrapAdd
<1>5. (e - PAGE_SIZE) % PAGE_SIZE = 0
  <2>1. PAGE_SIZE % PAGE_SIZE = 0 /\ PAGE_SIZE \in Nat
    <3>1. PAGE_SIZE = PAGE_SIZE * 1 /\ 1 \in Nat
      BY <1>1
    <3>. QED BY <1>1, <3>1, Multiple, Zenon
  <2>2. PAGE_SIZE <= e
    BY <1>1, <1>2
  <2>. QED BY <1>1, <2>1, <2>2, Multiples, Zenon
<1>6. RoundDown(e - 1) = e - PAGE_SIZE
  <2>. DEFINE y == e - PAGE_SIZE
  <2>1. y \in Nat /\ y % PAGE_SIZE = 0 /\ y + PAGE_SIZE - 1 = e - 1
    BY <1>1, <1>3, <1>5
  <2>. HIDE DEF y
  <2>2. RoundDown(y + PAGE_SIZE - 1) = y
    BY <2>1, Rounding, Zenon
  <2>. QED BY <2>1, <2>2, Zenon DEF y
<1>7. RoundDown(s) = s
  BY Rounding, Zenon
<1>8. s \in 0 .. AddrSpace - 1 /\ e - PAGE_SIZE \in 0 .. AddrSpace - 1 /\ s <= e - PAGE_SIZE
  BY <1>1, <1>2, <1>3
<1>. QED BY <1>4, <1>5, <1>6, <1>7, <1>8, Zenon DEF Pages

\* The ranges are not empty, and lie in the address space.
LEMMA Ranges ==
    ASSUME data_vaddr \in DataSymbols, KERNBASE + PHYSTOP <= DEVSPACE, NEW j \in 1 .. 4
    PROVE  /\ Start(j) \in Nat /\ End(j) \in Nat /\ Start(j) < End(j) /\ End(j) <= AddrSpace
           /\ Start(j) % PAGE_SIZE = 0 /\ End(j) % PAGE_SIZE = 0
           /\ j <= 3 => KERNBASE <= Start(j) /\ End(j) <= KERNBASE + PHYSTOP
           /\ j = 4 => Start(j) = DEVSPACE
<1>1. /\ data_vaddr \in Nat /\ data_vaddr % PAGE_SIZE = 0 /\ KERNLINK < data_vaddr
      /\ data_vaddr < KERNBASE + PHYSTOP
  BY DataSymbol, Zenon
<1>2. CASE j = 1
  <2>1. Start(j) = KERNBASE /\ End(j) = KERNLINK
    BY <1>2 DEF Start, End
  <2>2. KERNBASE < KERNLINK /\ KERNLINK <= AddrSpace /\ KERNLINK <= KERNBASE + PHYSTOP /\ j # 4
    BY <1>2, Sizes
  <2>. QED BY <2>1, <2>2, Sizes, Boundaries
<1>3. CASE j = 2
  <2>1. Start(j) = KERNLINK /\ End(j) = data_vaddr
    BY <1>3 DEF Start, End
  <2>2. /\ KERNBASE <= KERNLINK /\ data_vaddr <= AddrSpace /\ data_vaddr <= KERNBASE + PHYSTOP
        /\ j # 4
    BY <1>1, <1>3, Sizes
  <2>. QED BY <1>1, <2>1, <2>2, Sizes, Boundaries
<1>4. CASE j = 3
  <2>1. Start(j) = data_vaddr /\ End(j) = KERNBASE + PHYSTOP
    BY <1>4 DEF Start, End
  <2>2. /\ KERNBASE <= data_vaddr /\ KERNBASE + PHYSTOP <= AddrSpace
        /\ KERNBASE + PHYSTOP \in Nat /\ j # 4
    BY <1>1, <1>4, Sizes
  <2>. QED BY <1>1, <2>1, <2>2, Boundaries
<1>5. CASE j = 4
  <2>1. Start(j) = DEVSPACE /\ End(j) = AddrSpace
    BY <1>5 DEF Start, End
  <2>. QED BY <1>5, <2>1, Sizes, Boundaries
<1>. QED BY <1>2, <1>3, <1>4, <1>5

\* The entries of kmap are these ranges: the start, and the size modulo 2^32.
LEMMA KmapRanges ==
    ASSUME data_vaddr \in DataSymbols, KERNBASE + PHYSTOP <= DEVSPACE, NEW j \in 1 .. 4
    PROVE  /\ kmap[j].virt = Start(j) /\ WrapSub(kmap[j].end, kmap[j].start) = End(j) - Start(j)
           /\ kmap[j].start = IF j <= 3 THEN Start(j) - KERNBASE ELSE Start(j)
<1>1. /\ data_vaddr \in Nat /\ KERNLINK < data_vaddr /\ data_vaddr < KERNBASE + PHYSTOP
  BY DataSymbol, Zenon
<1>2. CASE j = 1
  <2>1. kmap[j] = [virt |-> KERNBASE, start |-> 0, end |-> EXTMEM, perm |-> {"W"}]
    BY <1>2 DEF kmap
  <2>2. Start(j) = KERNBASE /\ End(j) = KERNLINK
    BY <1>2 DEF Start, End
  <2>3. EXTMEM - 0 \in 0 .. AddrSpace - 1 /\ EXTMEM - 0 = KERNLINK - KERNBASE
    BY Sizes
  <2>4. WrapSub(EXTMEM, 0) = KERNLINK - KERNBASE
    BY <2>3, Sizes, Small, Zenon DEF WrapSub
  <2>. QED BY <1>2, <2>1, <2>2, <2>4, Sizes
<1>3. CASE j = 2
  <2>1. kmap[j] = [virt |-> KERNLINK, start |-> v2p(KERNLINK), end |-> v2p(data_vaddr), perm |-> {}]
    BY <1>3 DEF kmap
  <2>2. Start(j) = KERNLINK /\ End(j) = data_vaddr
    BY <1>3 DEF Start, End
  <2>3. /\ v2p(data_vaddr) - v2p(KERNLINK) \in 0 .. AddrSpace - 1
        /\ v2p(data_vaddr) - v2p(KERNLINK) = data_vaddr - KERNLINK
    BY <1>1, Sizes DEF v2p
  <2>4. WrapSub(v2p(data_vaddr), v2p(KERNLINK)) = data_vaddr - KERNLINK
    BY <2>3, Sizes, Small, Zenon DEF WrapSub
  <2>5. v2p(KERNLINK) = KERNLINK - KERNBASE
    BY DEF v2p
  <2>. QED BY <1>3, <2>1, <2>2, <2>4, <2>5
<1>4. CASE j = 3
  <2>1. kmap[j] = [virt |-> data_vaddr, start |-> v2p(data_vaddr), end |-> PHYSTOP, perm |-> {"W"}]
    BY <1>4 DEF kmap
  <2>2. Start(j) = data_vaddr /\ End(j) = KERNBASE + PHYSTOP
    BY <1>4 DEF Start, End
  <2>3. /\ PHYSTOP - v2p(data_vaddr) \in 0 .. AddrSpace - 1
        /\ PHYSTOP - v2p(data_vaddr) = (KERNBASE + PHYSTOP) - data_vaddr
    BY <1>1, Sizes DEF v2p
  <2>4. WrapSub(PHYSTOP, v2p(data_vaddr)) = (KERNBASE + PHYSTOP) - data_vaddr
    BY <2>3, Sizes, Small, Zenon DEF WrapSub
  <2>5. v2p(data_vaddr) = data_vaddr - KERNBASE
    BY DEF v2p
  <2>6. kmap[j].virt = data_vaddr /\ kmap[j].start = v2p(data_vaddr) /\ kmap[j].end = PHYSTOP
    BY <2>1
  <2>7. j <= 3
    BY <1>4
  <2>8. WrapSub(kmap[j].end, kmap[j].start) = (KERNBASE + PHYSTOP) - data_vaddr
    BY <2>4, <2>6, Zenon
  <2>9. kmap[j].start = data_vaddr - KERNBASE
    BY <2>5, <2>6, Zenon
  <2>. QED BY <2>2, <2>6, <2>7, <2>8, <2>9
<1>5. CASE j = 4
  <2>1. kmap[j] = [virt |-> DEVSPACE, start |-> DEVSPACE, end |-> 0, perm |-> {"W"}]
    BY <1>5 DEF kmap
  <2>2. Start(j) = DEVSPACE /\ End(j) = AddrSpace
    BY <1>5 DEF Start, End
  <2>3. WrapSub(0, DEVSPACE) = AddrSpace - DEVSPACE
    <3>1. AddrSpace \in Nat /\ DEVSPACE \in 1 .. AddrSpace - 1
      BY Sizes
    <3>2. (0 - DEVSPACE) % AddrSpace = AddrSpace - DEVSPACE
      BY <3>1
    <3>. QED BY <3>2, Zenon DEF WrapSub
  <2>. QED BY <1>5, <2>1, <2>2, <2>3
<1>. QED BY <1>2, <1>3, <1>4, <1>5

-----------------------------------------------------------------------------
(* The invariant is inductive *)

\* Which directories there are.
LEMMA BegunIs ==
    ASSUME Control
    PROVE  /\ Begun \subseteq Dirs
           /\ pc \in {"kmap", "map", "done"} => dir \in Begun /\ "kernel" \in Begun
           /\ pc \in {"setup", "panic"} => dir \notin Begun
           /\ \A d \in Begun : d # dir => d = "kernel" /\ dir = "init"
<1>1. Begun \subseteq Dirs
  BY Zenon DEF Begun
<1>2. dir = "kernel" \/ dir = "init"
  BY Zenon DEF Control, Dirs
<1>3. ASSUME pc \in {"kmap", "map", "done"} PROVE dir \in Begun /\ "kernel" \in Begun
  BY <1>2, <1>3 DEF Begun, Dirs
<1>4. ASSUME pc \in {"setup", "panic"} PROVE dir \notin Begun
  BY <1>4 DEF Begun, Dirs
<1>5. ASSUME NEW d \in Begun, d # dir PROVE d = "kernel" /\ dir = "init"
  BY <1>5, Zenon DEF Begun
<1>. QED BY <1>1, <1>3, <1>4, <1>5

\* Forgetting a directory.
LEMMA Fewer ==
    ASSUME NEW B, NEW D, NEW m, NEW h, NEW C \in SUBSET B, Sound(B, D, m, h), Private(B, D, m)
    PROVE  Sound(C, D, m, h) /\ Private(C, D, m)
<1>1. Sound(C, D, m, h)
  BY Zenon DEF Sound
<1>2. OwnPages(C, D)
  BY Zenon DEF Private, OwnPages
<1>3. NoLoops(C, D, m)
  BY Zenon DEF Private, NoLoops
<1>4. OwnTables(C, D, m)
  BY Zenon DEF Private, OwnTables
<1>. QED BY <1>1, <1>2, <1>3, <1>4, Zenon DEF Private

\* Initially there is no directory, and the heap is whole.
LEMMA InitInv == Init => Inv
<1>. SUFFICES ASSUME Init PROVE Inv
  OBVIOUS
<1>. USE DEF Init
<1>1. Begun = {}
  BY DEF Begun
<1>2. Control
  BY DEF Control, Dirs
<1>3. 0 \in Pages
  <2>1. 0 % PAGE_SIZE = 0 /\ 0 \in 0 .. AddrSpace - 1
    BY Sizes
  <2>. QED BY <2>1, Zenon DEF Pages
<1>4. Located /\ InRange /\ UserPage
  BY <1>3 DEF Located, InRange, UserPage
<1>5. HeapPages \in Seq(HeapSet)
  <2>. DEFINE S == EXTMEM .. (PHYSTOP - PAGE_SIZE)
  <2>1. HeapPages \in Seq(S)
    BY KernelVmAssumption, Zenon
  <2>. HIDE DEF S
  <2>2. DOMAIN HeapPages = 1 .. Len(HeapPages) /\ Len(HeapPages) \in Nat
    BY <2>1, LenProperties
  <2>3. HeapPages = [i \in 1 .. Len(HeapPages) |-> HeapPages[i]]
    BY <2>1, <2>2
  <2>4. HeapPages \in [1 .. Len(HeapPages) -> HeapSet]
    BY <2>2, <2>3, Zenon DEF HeapSet
  <2>. QED BY <2>2, <2>4
<1>6. Injective(HeapPages)
  <2>1. DOMAIN HeapPages = 1 .. Len(HeapPages)
    BY <1>5, LenProperties
  <2>2. \A i, j \in DOMAIN HeapPages : HeapPages[i] = HeapPages[j] => i = j
    BY KernelVmAssumption, Zenon
  <2>. QED BY <2>1, <2>2, Zenon DEF Injective
<1>7. DOMAIN mem = {} /\ mem \in [DOMAIN mem -> Directories \cup Tables]
  BY Zenon
<1>8. Sound(Begun, dirs, mem, heap)
  BY <1>1, <1>5, <1>6, <1>7, Zenon DEF Sound
<1>9. Private(Begun, dirs, mem) /\ Contents /\ DevicesAbove
  BY <1>1, Zenon DEF Private, OwnPages, NoLoops, OwnTables, Contents, DevicesAbove
<1>. QED BY <1>2, <1>4, <1>8, <1>9, Zenon DEF Inv

\* A panic leaves the finished directories as they are.
LEMMA PanicStep ==
    ASSUME Inv, pc' = "panic", UNCHANGED <<data_vaddr, heap, dir, dirs, mem, k, a, last, pa>>
    PROVE  Inv'
<1>1. Control' /\ Located' /\ InRange' /\ UserPage'
  BY DEF Inv, Control, Located, InRange, UserPage
<1>2. Begun' \in SUBSET Begun /\ \A d \in Begun' : d = "kernel" /\ dir = "init"
  BY DEF Begun
<1>3. Sound(Begun', dirs, mem, heap) /\ Private(Begun', dirs, mem)
  BY <1>2, Fewer, Zenon DEF Inv
<1>4. Sound(Begun', dirs', mem', heap') /\ Private(Begun', dirs', mem')
  BY <1>3, Zenon
<1>5. DevicesAbove'
  BY <1>2, Zenon DEF Inv, DevicesAbove
<1>6. Contents'
  <2>. SUFFICES ASSUME NEW d \in Begun', NEW va \in Pages
                PROVE  Walk(mem', dirs'[d], va) = Expected(d, va)'
    BY Zenon DEF Contents, Walk
  <2>1. d \in Begun /\ d # dir
    BY <1>2
  <2>2. Walk(mem, dirs[d], va) = Intended(va)
    BY <2>1, Zenon DEF Inv, Contents, Expected
  <2>3. Expected(d, va)' = Intended(va)
    BY <2>1, Zenon DEF Expected, Intended
  <2>. QED BY <2>2, <2>3, Zenon
<1>. QED BY <1>1, <1>4, <1>5, <1>6, Zenon DEF Inv

\* setup_kvm: an empty directory beside the ones there are.
LEMMA SetupStep ==
    ASSUME Inv, SetupKvm
    PROVE  Inv'
<1>. DEFINE p == Head(heap)
<1>1. CASE heap = <<>> \/ p2v(PHYSTOP) > DEVSPACE
  <2>1. pc' = "panic" /\ UNCHANGED <<data_vaddr, heap, dir, dirs, mem, k, a, last, pa>>
    BY <1>1, Zenon DEF SetupKvm, NoMemory
  <2>. QED BY <2>1, PanicStep, Zenon
<1>2. CASE ~(heap = <<>> \/ p2v(PHYSTOP) > DEVSPACE)
  <2>1. /\ pc = "setup" /\ dirs' = [dirs EXCEPT ![dir] = p] /\ mem' = Zeroed(p, NPDENTRIES)
        /\ heap' = Tail(heap) /\ k' = 1 /\ pc' = "kmap"
        /\ data_vaddr' = data_vaddr /\ dir' = dir /\ a' = a /\ last' = last /\ pa' = pa
    BY <1>2, Zenon DEF SetupKvm, NoMemory
  <2>2. heap # <<>> /\ KERNBASE + PHYSTOP <= DEVSPACE
    BY <1>2, Sizes DEF p2v
  <2>3. Control /\ Sound(Begun, dirs, mem, heap) /\ Private(Begun, dirs, mem)
    BY Zenon DEF Inv
  <2>4. /\ dir \in Dirs /\ dirs \in [Dirs -> Nat] /\ dir \notin Begun /\ Begun \subseteq Dirs
        /\ \A d \in Begun : d # dir => d = "kernel" /\ dir = "init"
    BY <2>1, <2>3, BegunIs DEF Control
  <2>5. Begun' = Begun \cup {dir}
    BY <2>1, <2>4 DEF Begun
  <2>6. p \in HeapSet /\ p \notin DOMAIN mem /\ p \in Nat
    BY <2>2, <2>3, Allocated, HeapPage, Zenon
  <2>7. Fresh(mem, mem', p, PdIndex)
    <3>1. mem' = Grown(mem, p, NPDENTRIES)
      BY <2>1, Zenon DEF Zeroed, Grown
    <3>. QED BY <2>6, <3>1, Sizes, FreshPage, Zenon DEF PdIndex
  <2>. HIDE DEF p
  <2>8. dirs'[dir] = p /\ dirs' \in [Dirs -> Nat] /\ \A e \in Begun : dirs'[e] = dirs[e]
    BY <2>1, <2>4, <2>6, Zenon
  <2>9. Begins(Begun, dirs, mem, heap, dir, dirs', mem')
    BY <2>2, <2>3, <2>4, <2>7, <2>8, Zenon DEF Begins, p
  <2>10. Started(Begun, dirs, mem, heap, dir, dirs', mem')
    BY <2>9, NewDirectory, Zenon
  <2>11. Sound(Begun', dirs', mem', heap') /\ Private(Begun', dirs', mem')
    BY <2>1, <2>5, <2>10, Zenon DEF Started
  <2>12. Control'
    <3>1. 1 \in 0 .. 6 /\ 1 \in 1 .. 5
      OBVIOUS
    <3>2. data_vaddr \in DataSymbols
      BY <2>3, Zenon DEF Control
    <3>. QED BY <2>1, <2>4, <2>8, <3>1, <3>2, Zenon DEF Control
  <2>13. Located' /\ InRange' /\ UserPage' /\ DevicesAbove'
    <3>1. Located'
      BY <2>1, Zenon DEF Inv, Located
    <3>2. InRange' /\ UserPage'
      BY <2>1 DEF InRange, UserPage
    <3>. QED BY <2>2, <3>1, <3>2, Zenon DEF DevicesAbove
  <2>14. Contents'
    <3>. SUFFICES ASSUME NEW d \in Begun', NEW va \in Pages
                  PROVE  Walk(mem', dirs'[d], va) = Expected(d, va)'
      BY Zenon DEF Contents
    <3>1. CASE d = dir
      <4>1. Walk(mem', dirs'[d], va) = {}
        BY <2>10, <3>1, Zenon DEF Started
      <4>2. ~(Reached(va)')
        <5>1. va \in Nat
          BY Sizes DEF Pages
        <5>2. Low' = KERNBASE /\ High' = DEVSPACE
          BY <2>1 DEF Low, High, Front, Start
        <5>3. ~((KERNBASE <= va /\ va < KERNBASE) \/ (DEVSPACE <= va /\ va < DEVSPACE))
          BY <5>1, Sizes
        <5>. QED BY <5>2, <5>3, Zenon DEF Reached
      <4>3. Expected(d, va)' = {}
        BY <2>1, <3>1, <4>2 DEF Expected
      <4>. QED BY <4>1, <4>3, Zenon
    <3>2. CASE d # dir
      <4>1. d \in Begun
        BY <2>5, <3>2, Zenon
      <4>2. Walk(mem', dirs'[d], va) = Walk(mem, dirs[d], va)
        BY <2>10, <4>1, Zenon DEF Started
      <4>3. Walk(mem, dirs[d], va) = Intended(va)
        BY <3>2, <4>1, Zenon DEF Inv, Contents, Expected
      <4>4. Expected(d, va)' = Intended(va)
        BY <2>1, <3>2, Zenon DEF Expected, Intended
      <4>. QED BY <4>2, <4>3, <4>4, Zenon
    <3>. QED BY <3>1, <3>2
  <2>. QED BY <2>11, <2>12, <2>13, <2>14, Zenon DEF Inv
<1>. QED BY <1>1, <1>2

\* What the construction has reached depends on these alone.
LEMMA SameExpected ==
    ASSUME Low' = Low, High' = High, dir' = dir, data_vaddr' = data_vaddr,
           pc # "done", pc' # "done", NEW d, NEW va
    PROVE  Expected(d, va)' = Expected(d, va)
<1>1. Intended(va)' = Intended(va)
  BY Zenon DEF Intended
<1>2. Reached(va)' <=> Reached(va)
  BY Zenon DEF Reached
<1>. QED BY <1>1, <1>2, Zenon DEF Expected

\* kmap has four entries.
LEMMA KmapLen == Len(kmap) = 4
BY DEF kmap

\* for k in &kmap: the locals of map_pages are set up for range k.
LEMMA KmapStep ==
    ASSUME Inv, MapKmap
    PROVE  Inv'
<1>1. /\ pc = "kmap" /\ pc' = "map" /\ k <= 4
      /\ a' = RoundDown(kmap[k].virt) /\ pa' = kmap[k].start
      /\ last' = RoundDown(WrapAdd(kmap[k].virt, WrapSub(kmap[k].end, kmap[k].start) - 1))
      /\ data_vaddr' = data_vaddr /\ heap' = heap /\ dir' = dir /\ dirs' = dirs
      /\ mem' = mem /\ k' = k
  BY KmapLen, Zenon DEF MapKmap, CallMapPages
<1>2. Control /\ Sound(Begun, dirs, mem, heap) /\ Private(Begun, dirs, mem)
  BY Zenon DEF Inv
<1>3. k \in 1 .. 4 /\ data_vaddr \in DataSymbols /\ dirs \in [Dirs -> Nat] /\ dir \in Dirs
  BY <1>1, <1>2 DEF Control
<1>4. Begun' = Begun /\ "kernel" \in Begun
  BY <1>1, <1>2, BegunIs DEF Begun
<1>5. KERNBASE + PHYSTOP <= DEVSPACE
  BY <1>4, Zenon DEF Inv, DevicesAbove
<1>6. /\ kmap[k].virt = Start(k) /\ WrapSub(kmap[k].end, kmap[k].start) = End(k) - Start(k)
      /\ kmap[k].start = IF k <= 3 THEN Start(k) - KERNBASE ELSE Start(k)
  BY <1>3, <1>5, KmapRanges, Zenon
<1>7. /\ Start(k) \in Nat /\ End(k) \in Nat /\ Start(k) < End(k) /\ End(k) <= AddrSpace
      /\ Start(k) % PAGE_SIZE = 0 /\ End(k) % PAGE_SIZE = 0
      /\ k <= 3 => KERNBASE <= Start(k)
  BY <1>3, <1>5, Ranges, Zenon
<1>8. /\ RoundDown(Start(k)) = Start(k) /\ Start(k) \in Pages
      /\ RoundDown(WrapAdd(Start(k), (End(k) - Start(k)) - 1)) = End(k) - PAGE_SIZE
      /\ End(k) - PAGE_SIZE \in Pages /\ Start(k) <= End(k) - PAGE_SIZE
  BY <1>7, RangeOf, Zenon
<1>9. a' = Start(k) /\ last' = End(k) - PAGE_SIZE
  BY <1>1, <1>6, <1>8, Zenon
<1>10. pa' \in Pages
  <2>1. CASE k <= 3
    <3>1. pa' = Start(k) - KERNBASE
      BY <1>1, <1>6, <2>1, Zenon
    <3>2. (Start(k) - KERNBASE) % PAGE_SIZE = 0
      <4>1. /\ PAGE_SIZE \in Nat \ {0} /\ KERNBASE \in Nat /\ KERNBASE % PAGE_SIZE = 0
            /\ Start(k) \in Nat /\ Start(k) % PAGE_SIZE = 0 /\ KERNBASE <= Start(k)
        BY <1>7, <2>1, Sizes, Boundaries
      <4>. QED BY <4>1, Multiples, Zenon
    <3>3. Start(k) - KERNBASE \in 0 .. AddrSpace - 1
      BY <1>7, <2>1, Sizes
    <3>. QED BY <3>1, <3>2, <3>3, Zenon DEF Pages
  <2>2. CASE ~(k <= 3)
    BY <1>1, <1>6, <1>8, <2>2, Zenon
  <2>. QED BY <2>1, <2>2
<1>11. Start(k)' = Start(k) /\ End(k)' = End(k)
  BY <1>1, Zenon DEF Start, End
<1>12. Control' /\ Located' /\ UserPage' /\ DevicesAbove'
  <2>1. Control'
    BY <1>1, <1>2, <1>3 DEF Control
  <2>2. Located'
    BY <1>8, <1>9, <1>10, Zenon DEF Located
  <2>3. UserPage'
    BY <1>1, <1>3 DEF UserPage
  <2>. QED BY <1>5, <2>1, <2>2, <2>3, Zenon DEF DevicesAbove
<1>13. InRange'
  <2>1. (End(k) - PAGE_SIZE) + PAGE_SIZE = End(k) /\ Start(k) <= Start(k)
    BY <1>7, Sizes
  <2>2. a' = Start(k) /\ last' + PAGE_SIZE = End(k) /\ a' <= last'
    BY <1>8, <1>9, <2>1, Zenon
  <2>3. pa' = IF k <= 3 THEN a' - KERNBASE ELSE a'
    BY <1>1, <1>6, <1>9, Zenon
  <2>. QED BY <1>1, <1>11, <2>1, <2>2, <2>3, Zenon DEF InRange
<1>14. Contents'
  <2>1. Front' = Front
    BY <1>1, <1>9 DEF Front
  <2>2. Low' = Low /\ High' = High
    BY <1>1, <2>1, Zenon DEF Low, High
  <2>3. pc # "done" /\ pc' # "done"
    BY <1>1
  <2>4. ASSUME NEW d \in Begun', NEW va \in Pages
        PROVE  Walk(mem', dirs'[d], va) = Expected(d, va)'
    <3>1. Walk(mem, dirs[d], va) = Expected(d, va)
      BY <1>4, Zenon DEF Inv, Contents
    <3>2. Expected(d, va)' = Expected(d, va)
      BY <1>1, <2>2, <2>3, SameExpected, Zenon
    <3>. QED BY <1>1, <3>1, <3>2, Zenon
  <2>. QED BY <2>4, Zenon DEF Contents
<1>15. Sound(Begun', dirs', mem', heap') /\ Private(Begun', dirs', mem')
  BY <1>1, <1>2, <1>4, Zenon
<1>. QED BY <1>12, <1>13, <1>14, <1>15, Zenon DEF Inv

\* After the last range everything intended is mapped.
LEMMA AllReached ==
    ASSUME k \in 5 .. 6, NEW va \in Pages, ~Reached(va)
    PROVE  Intended(va) = {}
<1>1. va \in Nat /\ va < AddrSpace
  BY Sizes DEF Pages
<1>2. Low = KERNBASE + PHYSTOP /\ High = AddrSpace
  BY DEF Low, High
<1>3. ~(KERNBASE <= va /\ va < KERNBASE + PHYSTOP) /\ ~(DEVSPACE <= va /\ va < AddrSpace)
  BY <1>2, Zenon DEF Reached
<1>4. ~(va >= DEVSPACE)
  BY <1>1, <1>3, Sizes
<1>. QED BY <1>3, <1>4, Zenon DEF Intended

\* setup_kvm returns: the kernel's directory is whole; init's gets its user page.
LEMMA DoneStep ==
    ASSUME Inv, SetupDone
    PROVE  Inv'
<1>1. Control /\ Sound(Begun, dirs, mem, heap) /\ Private(Begun, dirs, mem) /\ Located
  BY Zenon DEF Inv
<1>2. /\ pc = "kmap" /\ data_vaddr' = data_vaddr /\ dirs' = dirs /\ mem' = mem /\ k' = k
  BY Zenon DEF SetupDone
<1>3. k = 5 /\ data_vaddr \in DataSymbols /\ dirs \in [Dirs -> Nat] /\ dir \in Dirs
  BY <1>1, <1>2, KmapLen DEF SetupDone, Control
<1>4. dir \in Begun /\ "kernel" \in Begun
  BY <1>1, <1>2, BegunIs, Zenon
<1>5. CASE dir = "kernel" /\ dir' = "init" /\ pc' = "setup" /\ UNCHANGED <<heap, a, last, pa>>
  <2>1. Begun' = Begun
    BY <1>2, <1>5 DEF Begun, Dirs
  <2>2. Control' /\ Located'
    BY <1>1, <1>2, <1>3, <1>5 DEF Control, Located, Dirs
  <2>3. InRange' /\ UserPage' /\ DevicesAbove'
    <3>1. InRange' /\ UserPage'
      BY <1>5 DEF InRange, UserPage
    <3>2. DevicesAbove'
      BY <2>1, Zenon DEF Inv, DevicesAbove
    <3>. QED BY <3>1, <3>2
  <2>4. ASSUME NEW d \in Begun', NEW va \in Pages
        PROVE  Walk(mem', dirs'[d], va) = Expected(d, va)'
    <3>1. Walk(mem, dirs[d], va) = Expected(d, va)
      BY <2>1, Zenon DEF Inv, Contents
    <3>2. d = dir /\ d # dir'
      BY <1>5, <2>1 DEF Begun
    <3>3. Expected(d, va)' = Intended(va)
      BY <1>2, <3>2, Zenon DEF Expected, Intended
    <3>4. Expected(d, va) = Intended(va)
      <4>1. k \in 5 .. 6 /\ pc # "done"
        BY <1>2, <1>3
      <4>2. ~Reached(va) => Intended(va) = {}
        BY <4>1, AllReached, Zenon
      <4>. QED BY <3>2, <4>1, <4>2, Zenon DEF Expected
    <3>. QED BY <1>2, <3>1, <3>3, <3>4, Zenon
  <2>5. Contents'
    BY <2>4, Zenon DEF Contents
  <2>6. Sound(Begun', dirs', mem', heap') /\ Private(Begun', dirs', mem')
    BY <1>1, <1>2, <1>5, <2>1, Zenon
  <2>. QED BY <2>2, <2>3, <2>5, <2>6, Zenon DEF Inv
<1>6. CASE /\ dir = "init" /\ dir' = dir /\ heap = <<>> /\ pc' = "panic"
           /\ UNCHANGED <<heap, a, last, pa>>
  BY <1>2, <1>6, PanicStep, Zenon
<1>7. CASE /\ dir = "init" /\ dir' = dir /\ heap # <<>> /\ heap' = Tail(heap)
           /\ CallMapPages(0, PAGE_SIZE, Head(heap))
  <2>1. pc' = "map" /\ pa' = Head(heap) /\ a' = 0 /\ last' = 0
    <3>1. 0 \in Nat /\ 0 % PAGE_SIZE = 0
      BY Sizes
    <3>2. RoundDown(0) = 0 /\ RoundDown(0 + PAGE_SIZE - 1) = 0
      BY <3>1, Rounding, Zenon
    <3>3. PAGE_SIZE <= AddrSpace
      <4>1. PAGE_SIZE \in Nat \ {0} /\ 0 \in Nat /\ AddrSpace \in Nat /\ 0 < AddrSpace
        BY Sizes
      <4>. QED BY <3>1, <4>1, Boundaries, Multiples, Zenon
    <3>4. 0 + (PAGE_SIZE - 1) \in 0 .. AddrSpace - 1 /\ 0 + (PAGE_SIZE - 1) = 0 + PAGE_SIZE - 1
      BY <3>3, Sizes
    <3>5. WrapAdd(0, PAGE_SIZE - 1) = 0 + PAGE_SIZE - 1
      BY <3>4, Sizes, Small DEF WrapAdd
    <3>6. last' = 0
      BY <1>7, <3>2, <3>5, Zenon DEF CallMapPages
    <3>. QED BY <1>7, <3>2, <3>6, Zenon DEF CallMapPages
  <2>2. /\ Head(heap) \in HeapSet /\ Head(heap) \notin DOMAIN mem
        /\ Head(heap) \notin Ran(Tail(heap))
        /\ Tail(heap) \in Seq(HeapSet) /\ Injective(Tail(heap))
        /\ DOMAIN mem \cup {Head(heap)} \subseteq HeapSet \ Ran(Tail(heap))
    BY <1>1, <1>7, Allocated, Zenon
  <2>3. Sound(Begun, dirs, mem, Tail(heap))
    BY <1>1, <2>2, Zenon DEF Sound
  <2>4. Begun' = Begun
    BY <1>2, <1>7, <2>1 DEF Begun
  <2>5. Sound(Begun', dirs', mem', heap') /\ Private(Begun', dirs', mem')
    BY <1>1, <1>2, <1>7, <2>3, <2>4, Zenon
  <2>6. Control'
    BY <1>1, <1>2, <1>3, <1>7, <2>1 DEF Control
  <2>7. Located'
    <3>1. 0 \in Pages
      <4>1. 0 % PAGE_SIZE = 0 /\ 0 \in 0 .. AddrSpace - 1
        BY Sizes
      <4>. QED BY <4>1, Zenon DEF Pages
    <3>2. Head(heap) \in Pages
      BY <2>2, HeapPage, Zenon
    <3>. QED BY <2>1, <3>1, <3>2, Zenon DEF Located
  <2>8. InRange' /\ DevicesAbove'
    <3>1. InRange'
      BY <1>2, <1>3 DEF InRange
    <3>2. DevicesAbove'
      BY <2>4, Zenon DEF Inv, DevicesAbove
    <3>. QED BY <3>1, <3>2
  <2>9. UserPage'
    <3>1. pa' \in HeapSet /\ pa' \notin DOMAIN mem' \cup Ran(heap')
      BY <1>2, <1>7, <2>1, <2>2, Zenon
    <3>. QED BY <1>7, <2>1, <3>1, Zenon DEF UserPage
  <2>10. Contents'
    <3>1. Low' = Low /\ High' = High
      BY <1>2, <1>3 DEF Low, High
    <3>2. pc # "done" /\ pc' # "done"
      BY <1>2, <2>1
    <3>3. ASSUME NEW d \in Begun', NEW va \in Pages
          PROVE  Walk(mem', dirs'[d], va) = Expected(d, va)'
      <4>1. Walk(mem, dirs[d], va) = Expected(d, va)
        BY <2>4, Zenon DEF Inv, Contents
      <4>2. Expected(d, va)' = Expected(d, va)
        BY <1>2, <1>7, <3>1, <3>2, SameExpected, Zenon
      <4>. QED BY <1>2, <4>1, <4>2, Zenon
    <3>. QED BY <3>3, Zenon DEF Contents
  <2>. QED BY <2>5, <2>6, <2>7, <2>8, <2>9, <2>10, Zenon DEF Inv
<1>. QED BY <1>5, <1>6, <1>7, Zenon DEF SetupDone, NoMemory

\* The numbers of a page.
LEMMA PageNumbers ==
    ASSUME NEW x \in Pages
    PROVE  x \in Nat /\ x < AddrSpace /\ x % PAGE_SIZE = 0 /\ PAGE_SIZE \in Nat \ {0}
BY Sizes DEF Pages

\* The page in hand, in the range in hand.
LEMMA InHand ==
    ASSUME Inv, pc = "map", k <= 4
    PROVE  /\ k \in 1 .. 4 /\ Start(k) <= a /\ a <= last /\ last + PAGE_SIZE = End(k)
           /\ pa = IF k <= 3 THEN a - KERNBASE ELSE a
           /\ Start(k) \in Nat /\ End(k) \in Nat /\ End(k) <= AddrSpace
           /\ k <= 3 => KERNBASE <= a /\ End(k) <= KERNBASE + PHYSTOP
           /\ k = 4 => DEVSPACE <= a
           /\ KERNBASE + PHYSTOP <= DEVSPACE
<1>1. Control /\ Located /\ InRange /\ DevicesAbove
  BY Zenon DEF Inv
<1>2. k \in 1 .. 4 /\ data_vaddr \in DataSymbols
  BY <1>1 DEF Control
<1>3. /\ Start(k) <= a /\ a <= last /\ last + PAGE_SIZE = End(k)
      /\ pa = IF k <= 3 THEN a - KERNBASE ELSE a
  BY <1>1, Zenon DEF InRange
<1>4. KERNBASE + PHYSTOP <= DEVSPACE
  <2>1. "kernel" \in Begun
    BY <1>1, BegunIs
  <2>. QED BY <1>1, <2>1, Zenon DEF DevicesAbove
<1>5. /\ Start(k) \in Nat /\ End(k) \in Nat /\ End(k) <= AddrSpace
      /\ k <= 3 => KERNBASE <= Start(k) /\ End(k) <= KERNBASE + PHYSTOP
      /\ k = 4 => Start(k) = DEVSPACE
  BY <1>2, <1>4, Ranges, Zenon
<1>6. a \in Nat
  BY <1>1, PageNumbers, Zenon DEF Located
<1>7. k <= 3 => KERNBASE <= a
  BY <1>3, <1>5, <1>6, Sizes
<1>. QED BY <1>2, <1>3, <1>4, <1>5, <1>7, Zenon

\* One turn of the loop within a range moves the frontier by one page.
LEMMA Frontier ==
    ASSUME Inv, pc = "map", k <= 4, data_vaddr' = data_vaddr,
           \/ a = last /\ pc' = "kmap" /\ k' = k + 1
           \/ a # last /\ pc' = "map" /\ k' = k /\ a' = a + PAGE_SIZE
    PROVE  /\ k <= 3 => Low = a /\ Low' = a + PAGE_SIZE /\ High = DEVSPACE /\ High' = DEVSPACE
           /\ k = 4 => Low = KERNBASE + PHYSTOP /\ Low' = Low /\ High = a /\ High' = a + PAGE_SIZE
<1>1. k \in 1 .. 4 /\ last + PAGE_SIZE = End(k)
  BY InHand, Zenon
<1>2. Front = a
  BY DEF Front
<1>3. CASE a # last /\ pc' = "map" /\ k' = k /\ a' = a + PAGE_SIZE
  <2>1. Front' = a + PAGE_SIZE
    BY <1>3 DEF Front
  <2>. QED BY <1>1, <1>2, <1>3, <2>1 DEF Low, High
<1>4. CASE a = last /\ pc' = "kmap" /\ k' = k + 1
  <2>2. CASE k = 1
    <3>1. k' = 2 /\ Front' = KERNLINK /\ End(k) = KERNLINK
      BY <1>4, <2>2 DEF Front, Start, End
    <3>. QED BY <1>1, <1>2, <1>4, <2>2, <3>1 DEF Low, High
  <2>3. CASE k = 2
    <3>1. k' = 3 /\ Front' = data_vaddr /\ End(k) = data_vaddr
      BY <1>4, <2>3 DEF Front, Start, End
    <3>. QED BY <1>1, <1>2, <1>4, <2>3, <3>1 DEF Low, High
  <2>4. CASE k = 3
    <3>1. k' = 4 /\ Front' = DEVSPACE /\ End(k) = KERNBASE + PHYSTOP
      BY <1>4, <2>4 DEF Front, Start, End
    <3>. QED BY <1>1, <1>2, <1>4, <2>4, <3>1 DEF Low, High
  <2>5. CASE k = 4
    <3>1. End(k) = AddrSpace
      BY <2>5 DEF End
    <3>. QED BY <1>1, <1>2, <1>4, <2>5, <3>1 DEF Low, High
  <2>. QED BY <1>1, <2>2, <2>3, <2>4, <2>5
<1>. QED BY <1>3, <1>4

\* So what is reached grows by the page in hand.
LEMMA OneMore ==
    ASSUME Inv, pc = "map", k <= 4, data_vaddr' = data_vaddr,
           \/ a = last /\ pc' = "kmap" /\ k' = k + 1
           \/ a # last /\ pc' = "map" /\ k' = k /\ a' = a + PAGE_SIZE,
           NEW va \in Pages
    PROVE  Reached(va)' <=> Reached(va) \/ va = a
<1>1. /\ k \in 1 .. 4
      /\ k <= 3 => KERNBASE <= a
      /\ k = 4 => DEVSPACE <= a
  BY InHand, Zenon
<1>2. /\ k <= 3 => Low = a /\ Low' = a + PAGE_SIZE /\ High = DEVSPACE /\ High' = DEVSPACE
      /\ k = 4 => Low = KERNBASE + PHYSTOP /\ Low' = Low /\ High = a /\ High' = a + PAGE_SIZE
  BY Frontier, Zenon
<1>3. a \in Nat /\ a % PAGE_SIZE = 0 /\ va \in Nat /\ va % PAGE_SIZE = 0 /\ PAGE_SIZE \in Nat \ {0}
  <2>1. a \in Pages
    BY Zenon DEF Inv, Located
  <2>. QED BY <2>1, PageNumbers, Zenon
<1>4. a < va => a + PAGE_SIZE <= va
  BY <1>3, Multiples, Zenon
<1>5. va < a + PAGE_SIZE <=> (va < a \/ va = a)
  BY <1>3, <1>4
<1>6. CASE k <= 3
  <2>1. Low = a /\ Low' = a + PAGE_SIZE /\ High = DEVSPACE /\ High' = DEVSPACE /\ KERNBASE <= a
    BY <1>1, <1>2, <1>6, Zenon
  <2>2. Reached(va)' <=> (KERNBASE <= va /\ va < a + PAGE_SIZE) \/ (DEVSPACE <= va /\ va < DEVSPACE)
    BY <2>1, Zenon DEF Reached
  <2>3. Reached(va) <=> (KERNBASE <= va /\ va < a) \/ (DEVSPACE <= va /\ va < DEVSPACE)
    BY <2>1, Zenon DEF Reached
  <2>. QED BY <1>5, <2>1, <2>2, <2>3, Zenon
<1>7. CASE k = 4
  <2>1. /\ Low = KERNBASE + PHYSTOP /\ Low' = KERNBASE + PHYSTOP /\ High = a
        /\ High' = a + PAGE_SIZE /\ DEVSPACE <= a
    BY <1>1, <1>2, <1>7, Zenon
  <2>2. Reached(va)' <=> \/ KERNBASE <= va /\ va < KERNBASE + PHYSTOP
                         \/ DEVSPACE <= va /\ va < a + PAGE_SIZE
    BY <2>1, Zenon DEF Reached
  <2>3. Reached(va) <=> (KERNBASE <= va /\ va < KERNBASE + PHYSTOP) \/ (DEVSPACE <= va /\ va < a)
    BY <2>1, Zenon DEF Reached
  <2>. QED BY <1>5, <2>1, <2>2, <2>3, Zenon
<1>. QED BY <1>1, <1>6, <1>7

\* map_pages' permissions are a table's flags, and the frame and permissions in hand are the
\* intended ones.
LEMMA RightFrame ==
    ASSUME Inv, pc = "map"
    PROVE  /\ perm \subseteq {"W", "U"}
           /\ k = 5 => perm = {"W", "U"}
           /\ k <= 4 => Intended(a) = {[frame |-> pa, rights |-> perm]}
<1>1. k \in 1 .. 5 /\ data_vaddr \in DataSymbols /\ a \in Pages
  BY DEF Inv, Control, Located
<1>2. data_vaddr \in Nat /\ KERNLINK < data_vaddr /\ data_vaddr < KERNBASE + PHYSTOP
  BY <1>1, DataSymbol, Zenon
<1>3. a \in Nat
  BY <1>1, PageNumbers, Zenon
<1>4. CASE k = 5
  BY <1>4, KmapLen DEF perm
<1>5. CASE k \in 1 .. 4
  <2>1. /\ Start(k) <= a /\ a <= last /\ last + PAGE_SIZE = End(k)
        /\ pa = IF k <= 3 THEN a - KERNBASE ELSE a
        /\ KERNBASE + PHYSTOP <= DEVSPACE /\ End(k) \in Nat
    <3>1. k <= 4
      BY <1>5
    <3>. QED BY <3>1, InHand, Zenon
  <2>2. a < End(k)
    <3>1. last \in Nat /\ PAGE_SIZE \in Nat \ {0}
      BY PageNumbers, Zenon DEF Inv, Located
    <3>. QED BY <1>3, <2>1, <3>1
  <2>3. perm = kmap[k].perm
    BY <1>5, KmapLen DEF perm
  <2>4. CASE k = 1
    <3>1. perm = {"W"}
      BY <2>3, <2>4 DEF kmap
    <3>2. KERNBASE <= a /\ a < KERNLINK
      BY <2>1, <2>2, <2>4 DEF Start, End
    <3>3. KERNBASE <= a /\ a < KERNBASE + PHYSTOP /\ ~(a >= DEVSPACE) /\ ~(KERNLINK <= a)
      BY <1>3, <2>1, <3>2, Sizes
    <3>4. pa = v2p(a)
      BY <2>1, <2>4 DEF v2p
    <3>5. Intended(a) = {[frame |-> pa, rights |-> {"W"}]}
      BY <3>3, <3>4, Zenon DEF Intended
    <3>. QED BY <2>4, <3>1, <3>5
  <2>5. CASE k = 2
    <3>1. perm = {}
      BY <2>3, <2>5 DEF kmap
    <3>2. KERNLINK <= a /\ a < data_vaddr
      BY <2>1, <2>2, <2>5 DEF Start, End
    <3>3. KERNBASE <= a /\ a < KERNBASE + PHYSTOP /\ ~(a >= DEVSPACE)
      BY <1>2, <1>3, <2>1, <3>2, Sizes
    <3>4. pa = v2p(a)
      BY <2>1, <2>5 DEF v2p
    <3>5. Intended(a) = {[frame |-> pa, rights |-> {}]}
      BY <3>2, <3>3, <3>4, Zenon DEF Intended
    <3>. QED BY <2>5, <3>1, <3>5
  <2>6. CASE k = 3
    <3>1. perm = {"W"}
      BY <2>3, <2>6 DEF kmap
    <3>2. data_vaddr <= a /\ a < KERNBASE + PHYSTOP
      BY <2>1, <2>2, <2>6 DEF Start, End
    <3>3. KERNBASE <= a /\ ~(a >= DEVSPACE) /\ ~(a < data_vaddr)
      BY <1>2, <1>3, <2>1, <3>2, Sizes
    <3>4. pa = v2p(a)
      BY <2>1, <2>6 DEF v2p
    <3>5. Intended(a) = {[frame |-> pa, rights |-> {"W"}]}
      BY <3>2, <3>3, <3>4, Zenon DEF Intended
    <3>. QED BY <2>6, <3>1, <3>5
  <2>7. CASE k = 4
    <3>1. perm = {"W"}
      BY <2>3, <2>7 DEF kmap
    <3>2. DEVSPACE <= a /\ pa = a
      BY <2>1, <2>7 DEF Start
    <3>3. a >= DEVSPACE
      BY <1>3, <3>2, Sizes
    <3>4. Intended(a) = {[frame |-> pa, rights |-> {"W"}]}
      BY <3>2, <3>3, Zenon DEF Intended
    <3>. QED BY <2>7, <3>1, <3>4
  <2>. QED BY <1>5, <2>4, <2>5, <2>6, <2>7
<1>. QED BY <1>1, <1>4, <1>5

\* The store of map_pages: the page in hand gets its frame and permissions, and no other
\* translation changes.
LEMMA MapEffect ==
    ASSUME Inv, pc = "map", NEW w, w = WalkPageDir, w.tab # 0,
           dirs' = dirs, heap' = w.heap,
           mem' = [w.mem EXCEPT ![w.tab][ptx(a)] = Entry(pa, perm \cup {"P"})]
    PROVE  /\ Sound(Begun, dirs', mem', heap') /\ Private(Begun, dirs', mem')
           /\ DOMAIN mem' \cup Ran(heap') \subseteq DOMAIN mem \cup Ran(heap)
           /\ Walk(mem', dirs'[dir], a) = {[frame |-> pa, rights |-> perm]}
           /\ \A d \in Begun, va \in Pages :
                 ~(d = dir /\ va = a) => Walk(mem', dirs'[d], va) = Walk(mem, dirs[d], va)
<1>. DEFINE x == Entry(pa, perm \cup {"P"})
<1>1. /\ Control /\ Sound(Begun, dirs, mem, heap) /\ Private(Begun, dirs, mem)
      /\ a \in Pages /\ pa \in Pages
  BY Zenon DEF Inv, Located
<1>2. dir \in Begun
  BY <1>1, BegunIs
<1>3. /\ Sound(Begun, dirs, w.mem, w.heap) /\ Private(Begun, dirs, w.mem)
      /\ Has(dirs, w.mem, dir, pdx(a)) /\ w.mem[dirs[dir]][pdx(a)].addr = w.tab
      /\ DOMAIN w.mem \cup Ran(w.heap) \subseteq DOMAIN mem \cup Ran(heap)
      /\ \A e \in Begun, va \in Pages : Walk(w.mem, dirs[e], va) = Walk(mem, dirs[e], va)
  BY <1>1, <1>2, Walked, Zenon
<1>4. pdx(a) \in PdIndex /\ ptx(a) \in PtIndex
  BY <1>1, Indices, Zenon
<1>5. w.tab \in DOMAIN w.mem /\ w.mem[w.tab] \in Tables
  <2>1. /\ w.mem[dirs[dir]][pdx(a)].addr \in DOMAIN w.mem
        /\ w.mem[w.mem[dirs[dir]][pdx(a)].addr] \in Tables
    BY <1>2, <1>3, <1>4, EntriesOf, Zenon
  <2>. QED BY <1>3, <2>1, Zenon
<1>6. perm \subseteq {"W", "U"} /\ pa \in Nat
  BY <1>1, RightFrame, PageNumbers, Zenon
<1>7. x \in Entries /\ x.flags = perm \cup {"P"} /\ x.addr = pa
  BY <1>6 DEF Entry, Entries
<1>8. Leaf(x) = {[frame |-> pa, rights |-> perm]}
  <2>1. "P" \in x.flags /\ ({"P", "W", "U"} \cap x.flags) \ {"P"} = perm
    BY <1>6, <1>7
  <2>. HIDE DEF x
  <2>. QED BY <1>7, <2>1, Zenon DEF Leaf
<1>. HIDE DEF x
<1>9. Overwritten(w.mem, mem', w.tab, ptx(a), x)
  <2>1. mem' = [w.mem EXCEPT ![w.tab][ptx(a)] = x]
    BY Zenon DEF x
  <2>2. Overwritten(w.mem, [w.mem EXCEPT ![w.tab][ptx(a)] = x], w.tab, ptx(a), x)
    BY <1>4, <1>5, <1>7, Overwriting, Zenon
  <2>. QED BY <2>1, <2>2, Zenon
<1>10. Stores(Begun, dirs, w.mem, w.heap, dir, pdx(a), ptx(a), w.tab, x, mem')
  BY <1>2, <1>3, <1>4, <1>9, Zenon DEF Stores
<1>11. Updated(Begun, dirs, w.mem, w.heap, dir, pdx(a), ptx(a), w.tab, x, mem')
  BY <1>10, Stored, Zenon
<1>12. /\ Sound(Begun, dirs, mem', w.heap) /\ Private(Begun, dirs, mem')
       /\ DOMAIN mem' = DOMAIN w.mem
       /\ \A va \in Pages :
             pdx(va) = pdx(a) /\ ptx(va) = ptx(a) => Walk(mem', dirs[dir], va) = Leaf(x)
       /\ \A e \in Begun, va \in Pages :
             ~(e = dir /\ pdx(va) = pdx(a) /\ ptx(va) = ptx(a)) =>
             Walk(mem', dirs[e], va) = Walk(w.mem, dirs[e], va)
  BY <1>11, Zenon DEF Updated
<1>13. Sound(Begun, dirs', mem', heap') /\ Private(Begun, dirs', mem')
  BY <1>12, Zenon
<1>14. DOMAIN mem' \cup Ran(heap') \subseteq DOMAIN mem \cup Ran(heap)
  BY <1>3, <1>12, Zenon
<1>15. Walk(mem', dirs'[dir], a) = {[frame |-> pa, rights |-> perm]}
  BY <1>1, <1>8, <1>12, Zenon
<1>16. ASSUME NEW d \in Begun, NEW va \in Pages, ~(d = dir /\ va = a)
       PROVE  Walk(mem', dirs'[d], va) = Walk(mem, dirs[d], va)
  <2>1. ~(d = dir /\ pdx(va) = pdx(a) /\ ptx(va) = ptx(a))
    BY <1>1, <1>16, SamePage, Zenon
  <2>2. Walk(mem', dirs[d], va) = Walk(w.mem, dirs[d], va)
    BY <1>12, <2>1, Zenon
  <2>. QED BY <1>3, <2>2, Zenon
<1>. QED BY <1>13, <1>14, <1>15, <1>16

\* One turn of map_pages' loop.
LEMMA MapStep ==
    ASSUME Inv, MapPage
    PROVE  Inv'
<1>. DEFINE w == WalkPageDir
<1>1. /\ pc = "map" /\ data_vaddr' = data_vaddr /\ dir' = dir /\ dirs' = dirs /\ last' = last
  BY Zenon DEF MapPage
<1>2. CASE w.tab = 0 \/ "P" \in w.mem[w.tab][ptx(a)].flags
  <2>1. pc' = "panic" /\ UNCHANGED <<heap, mem, a, pa, k>>
    BY <1>2, Zenon DEF MapPage
  <2>. QED BY <1>1, <2>1, PanicStep, Zenon
<1>3. CASE ~(w.tab = 0 \/ "P" \in w.mem[w.tab][ptx(a)].flags)
  <2>1. /\ heap' = w.heap
        /\ mem' = [w.mem EXCEPT ![w.tab][ptx(a)] = Entry(pa, perm \cup {"P"})]
        /\ \/ /\ a = last /\ pc' = (IF k <= 4 THEN "kmap" ELSE "done")
              /\ k' = k + 1 /\ a' = a /\ pa' = pa
           \/ /\ a # last /\ a' = WrapAdd(a, PAGE_SIZE) /\ pa' = WrapAdd(pa, PAGE_SIZE)
              /\ pc' = pc /\ k' = k
    BY <1>3, KmapLen, Zenon DEF MapPage
  <2>2. /\ Sound(Begun, dirs', mem', heap') /\ Private(Begun, dirs', mem')
        /\ DOMAIN mem' \cup Ran(heap') \subseteq DOMAIN mem \cup Ran(heap)
        /\ Walk(mem', dirs'[dir], a) = {[frame |-> pa, rights |-> perm]}
        /\ \A d \in Begun, va \in Pages :
              ~(d = dir /\ va = a) => Walk(mem', dirs'[d], va) = Walk(mem, dirs[d], va)
    <3>1. w.tab # 0
      BY <1>3, Zenon
    <3>. HIDE DEF w
    <3>2. w = WalkPageDir
      BY Zenon DEF w
    <3>. QED BY <1>1, <2>1, <3>1, <3>2, MapEffect, Zenon
  <2>. HIDE DEF w
  <2>3. /\ Control /\ k \in 1 .. 5 /\ data_vaddr \in DataSymbols /\ dirs \in [Dirs -> Nat]
        /\ dir \in Dirs /\ a \in Pages /\ last \in Pages /\ pa \in Pages
    BY <1>1, Zenon DEF Inv, Control, Located
  <2>4. dir \in Begun /\ "kernel" \in Begun
    BY <1>1, <2>3, BegunIs
  <2>5. pc' \in {"kmap", "map", "done"}
    BY <1>1, <2>1
  <2>6. Begun' = Begun
    BY <1>1, <2>5 DEF Begun
  <2>7. DevicesAbove'
    BY <2>6, Zenon DEF Inv, DevicesAbove
  <2>8. Sound(Begun', dirs', mem', heap') /\ Private(Begun', dirs', mem')
    BY <2>2, <2>6, Zenon
  <2>9. ASSUME NEW d \in Begun, NEW va \in Pages, ~(d = dir /\ va = a)
        PROVE  Walk(mem', dirs'[d], va) = Expected(d, va)
    BY <2>2, <2>9, Zenon DEF Inv, Contents
  <2>10. ASSUME NEW va \in Pages PROVE Intended(va)' = Intended(va)
    BY <1>1, Zenon DEF Intended
  <2>11. CASE k = 5
    <3>1. a = 0 /\ last = 0 /\ dir = "init" /\ pa \in HeapSet /\ pa \notin DOMAIN mem \cup Ran(heap)
      BY <1>1, <2>11, Zenon DEF Inv, UserPage
    <3>2. pc' = "done" /\ k' = 6 /\ a' = a /\ pa' = pa
      BY <2>1, <2>11, <3>1
    <3>3. Control' /\ Located' /\ InRange'
      <4>1. Control'
        BY <1>1, <2>3, <3>2 DEF Control
      <4>2. Located' /\ InRange'
        BY <1>1, <2>3, <3>2 DEF Located, InRange
      <4>. QED BY <4>1, <4>2
    <3>4. UserPage'
      <4>1. pa' \in HeapSet /\ pa' \notin DOMAIN mem' \cup Ran(heap')
        BY <2>2, <3>1, <3>2, Zenon
      <4>. QED BY <1>1, <3>1, <3>2, <4>1 DEF UserPage
    <3>5. Low' = Low /\ High' = High
      BY <2>11, <3>2 DEF Low, High
    <3>6. ASSUME NEW d \in Begun', NEW va \in Pages
          PROVE  Walk(mem', dirs'[d], va) = Expected(d, va)'
      <4>1. CASE d = dir /\ va = a
        <5>1. perm = {"W", "U"}
          BY <1>1, <2>11, RightFrame, Zenon
        <5>2. Expected(d, va)' = {[frame |-> pa, rights |-> {"W", "U"}]}
          BY <1>1, <3>1, <3>2, <4>1, Zenon DEF Expected
        <5>. QED BY <2>2, <4>1, <5>1, <5>2, Zenon
      <4>2. CASE ~(d = dir /\ va = a)
        <5>1. Walk(mem', dirs'[d], va) = Expected(d, va)
          BY <2>6, <2>9, <4>2, Zenon
        <5>2. Reached(va)' <=> Reached(va)
          BY <3>5, Zenon DEF Reached
        <5>3. CASE d # dir
          <6>1. Expected(d, va)' = Intended(va)' /\ Expected(d, va) = Intended(va)
            BY <1>1, <5>3, Zenon DEF Expected
          <6>. QED BY <2>10, <5>1, <6>1, Zenon
        <5>4. CASE d = dir
          <6>1. va # 0 /\ pc # "done" /\ d = dir'
            BY <1>1, <3>1, <4>2, <5>4
          <6>2. Expected(d, va)' = IF Reached(va)' THEN Intended(va)' ELSE {}
            BY <6>1, Zenon DEF Expected
          <6>3. Expected(d, va) = IF Reached(va) THEN Intended(va) ELSE {}
            BY <5>4, <6>1, Zenon DEF Expected
          <6>. QED BY <2>10, <5>1, <5>2, <6>2, <6>3, Zenon
        <5>. QED BY <5>3, <5>4
      <4>. QED BY <4>1, <4>2
    <3>7. Contents'
      BY <3>6, Zenon DEF Contents
    <3>. QED BY <2>7, <2>8, <3>3, <3>4, <3>7, Zenon DEF Inv
  <2>12. CASE k \in 1 .. 4
    <3>1. k <= 4 /\ k # 5
      BY <2>12
    <3>2. /\ Start(k) <= a /\ a <= last /\ last + PAGE_SIZE = End(k)
          /\ pa = IF k <= 3 THEN a - KERNBASE ELSE a
          /\ Start(k) \in Nat
          /\ k <= 3 => KERNBASE <= a
      BY <1>1, <3>1, InHand, Zenon
    <3>3. /\ a \in Nat /\ a % PAGE_SIZE = 0 /\ last \in Nat /\ last % PAGE_SIZE = 0
          /\ pa \in Nat /\ pa % PAGE_SIZE = 0 /\ last < AddrSpace /\ PAGE_SIZE \in Nat \ {0}
      BY <2>3, PageNumbers, Zenon
    <3>4. ASSUME a # last
          PROVE  /\ a + PAGE_SIZE <= last /\ a + PAGE_SIZE \in Pages /\ pa + PAGE_SIZE \in Pages
                 /\ WrapAdd(a, PAGE_SIZE) = a + PAGE_SIZE /\ WrapAdd(pa, PAGE_SIZE) = pa + PAGE_SIZE
      <4>1. a < last
        BY <3>2, <3>3, <3>4
      <4>2. a + PAGE_SIZE <= last
        BY <3>3, <4>1, Multiples, Zenon
      <4>3. pa <= a
        BY <3>2, <3>3, Sizes
      <4>4. a + PAGE_SIZE \in 0 .. AddrSpace - 1 /\ pa + PAGE_SIZE \in 0 .. AddrSpace - 1
        BY <3>3, <4>2, <4>3, Sizes
      <4>5. (a + PAGE_SIZE) % PAGE_SIZE = 0 /\ (pa + PAGE_SIZE) % PAGE_SIZE = 0
        <5>1. PAGE_SIZE \in Nat /\ PAGE_SIZE % PAGE_SIZE = 0
          <6>1. PAGE_SIZE = PAGE_SIZE * 1 /\ 1 \in Nat
            BY <3>3
          <6>. QED BY <3>3, <6>1, Multiple, Zenon
        <5>. QED BY <3>3, <5>1, Multiples, Zenon
      <4>6. WrapAdd(a, PAGE_SIZE) = a + PAGE_SIZE
        BY <4>4, Sizes, Small, Zenon DEF WrapAdd
      <4>7. WrapAdd(pa, PAGE_SIZE) = pa + PAGE_SIZE
        BY <4>4, Sizes, Small, Zenon DEF WrapAdd
      <4>. QED BY <4>2, <4>4, <4>5, <4>6, <4>7, Zenon DEF Pages
    <3>5. \/ a = last /\ pc' = "kmap" /\ k' = k + 1 /\ a' = a /\ pa' = pa
          \/ /\ a # last /\ pc' = "map" /\ k' = k /\ a' = a + PAGE_SIZE
             /\ pa' = pa + PAGE_SIZE
      BY <1>1, <2>1, <3>1, <3>4, Zenon
    <3>6. Control'
      <4>1. dirs' \in [Dirs -> Nat] /\ dir' \in Dirs /\ data_vaddr' \in DataSymbols
        BY <1>1, <2>3, Zenon
      <4>2. k' \in 1 .. 5 /\ k' \in 0 .. 6 /\ pc' \in {"kmap", "map"}
        BY <2>12, <3>5
      <4>. QED BY <4>1, <4>2 DEF Control
    <3>7. Located'
      BY <1>1, <2>3, <3>4, <3>5, Zenon DEF Located
    <3>8. UserPage'
      BY <2>12, <3>5 DEF UserPage
    <3>9. InRange'
      <4>1. CASE a = last /\ pc' = "kmap"
        BY <4>1 DEF InRange
      <4>2. CASE a # last /\ pc' = "map" /\ k' = k /\ a' = a + PAGE_SIZE /\ pa' = pa + PAGE_SIZE
        <5>1. Start(k)' = Start(k) /\ End(k)' = End(k)
          BY <1>1, <4>2, Zenon DEF Start, End
        <5>2. Start(k) <= a + PAGE_SIZE /\ a + PAGE_SIZE <= last
          BY <3>2, <3>3, <3>4, <4>2
        <5>3. pa + PAGE_SIZE = IF k <= 3 THEN (a + PAGE_SIZE) - KERNBASE ELSE a + PAGE_SIZE
          BY <3>2, <3>3, Sizes
        <5>. QED BY <1>1, <3>2, <4>2, <5>1, <5>2, <5>3, Zenon DEF InRange
      <4>. QED BY <3>5, <4>1, <4>2, Zenon
    <3>10. ASSUME NEW va \in Pages PROVE Reached(va)' <=> Reached(va) \/ va = a
      BY <1>1, <3>1, <3>5, OneMore, Zenon
    <3>11. pc # "done" /\ pc' # "done"
      BY <1>1, <3>5
    <3>12. ASSUME NEW d \in Begun', NEW va \in Pages
           PROVE  Walk(mem', dirs'[d], va) = Expected(d, va)'
      <4>1. CASE d = dir /\ va = a
        <5>1. Intended(a) = {[frame |-> pa, rights |-> perm]}
          BY <1>1, <3>1, RightFrame, Zenon
        <5>2. Expected(d, va)' = Intended(va)'
          BY <1>1, <3>10, <3>11, <4>1, Zenon DEF Expected
        <5>. QED BY <2>2, <2>10, <4>1, <5>1, <5>2, Zenon
      <4>2. CASE ~(d = dir /\ va = a)
        <5>1. Walk(mem', dirs'[d], va) = Expected(d, va)
          BY <2>6, <2>9, <4>2, Zenon
        <5>2. CASE d # dir
          <6>1. Expected(d, va)' = Intended(va)' /\ Expected(d, va) = Intended(va)
            BY <1>1, <5>2, Zenon DEF Expected
          <6>. QED BY <2>10, <5>1, <6>1, Zenon
        <5>3. CASE d = dir
          <6>1. Reached(va)' <=> Reached(va)
            BY <3>10, <4>2, <5>3, Zenon
          <6>2. Expected(d, va)' = IF Reached(va)' THEN Intended(va)' ELSE {}
            BY <1>1, <3>11, <5>3, Zenon DEF Expected
          <6>3. Expected(d, va) = IF Reached(va) THEN Intended(va) ELSE {}
            BY <3>11, <5>3, Zenon DEF Expected
          <6>. QED BY <2>10, <5>1, <6>1, <6>2, <6>3, Zenon
        <5>. QED BY <5>2, <5>3
      <4>. QED BY <4>1, <4>2
    <3>13. Contents'
      BY <3>12, Zenon DEF Contents
    <3>. QED BY <2>7, <2>8, <3>6, <3>7, <3>8, <3>9, <3>13, Zenon DEF Inv
  <2>. QED BY <2>3, <2>11, <2>12
<1>. QED BY <1>2, <1>3

-----------------------------------------------------------------------------
(* The theorems *)

\* Every step of setup_kvm and map_pages keeps the invariant.
THEOREM KernelVmInvariant == Spec => []Inv
<1>1. Init => Inv
  BY InitInv
<1>2. Inv /\ [Next]_vars => Inv'
  <2>. SUFFICES ASSUME Inv, [Next]_vars PROVE Inv'
    OBVIOUS
  <2>1. CASE UNCHANGED vars
    <3>1. /\ data_vaddr' = data_vaddr /\ pc' = pc /\ heap' = heap /\ dir' = dir /\ dirs' = dirs
          /\ mem' = mem /\ k' = k /\ a' = a /\ last' = last /\ pa' = pa
      BY <2>1, Zenon DEF vars
    <3>2. Begun' = Begun
      BY <3>1, Zenon DEF Begun
    <3>3. Control' /\ Located' /\ InRange' /\ UserPage' /\ DevicesAbove'
      <4>1. Control' /\ Located' /\ UserPage'
        BY <3>1, Zenon DEF Inv, Control, Located, UserPage
      <4>2. InRange'
        BY <3>1, Zenon DEF Inv, InRange, Start, End
      <4>. QED BY <3>2, <4>1, <4>2, Zenon DEF Inv, DevicesAbove
    <3>4. Sound(Begun', dirs', mem', heap') /\ Private(Begun', dirs', mem')
      BY <3>1, <3>2, Zenon DEF Inv
    <3>5. ASSUME NEW d \in Begun', NEW va \in Pages
          PROVE  Walk(mem', dirs'[d], va) = Expected(d, va)'
      <4>1. Walk(mem, dirs[d], va) = Expected(d, va)
        BY <3>2, Zenon DEF Inv, Contents
      <4>2. Reached(va)' <=> Reached(va)
        BY <3>1, Zenon DEF Reached, Low, High, Front, Start
      <4>3. Expected(d, va)' = Expected(d, va)
        BY <3>1, <4>2, Zenon DEF Expected, Intended
      <4>. QED BY <3>1, <4>1, <4>3, Zenon
    <3>6. Contents'
      BY <3>5, Zenon DEF Contents
    <3>. QED BY <3>3, <3>4, <3>6, Zenon DEF Inv
  <2>2. CASE SetupKvm
    BY <2>2, SetupStep
  <2>3. CASE MapKmap
    BY <2>3, KmapStep
  <2>4. CASE SetupDone
    BY <2>4, DoneStep
  <2>5. CASE MapPage
    BY <2>5, MapStep
  <2>. QED BY <2>1, <2>2, <2>3, <2>4, <2>5, Zenon DEF Next
<1>. QED BY <1>1, <1>2, PTL DEF Spec

\* map_pages' locals are page addresses, and the tables hold P, W and U bits only: TypeOK.
THEOREM KernelVmTypes == Spec => []TypeOK
<1>1. Inv => TypeOK
  <2>. SUFFICES ASSUME Inv PROVE TypeOK
    OBVIOUS
  <2>1. /\ pc \in {"setup", "kmap", "map", "done", "panic"} /\ dir \in {"kernel", "init"}
        /\ k \in 0 .. 6
    BY Zenon DEF Inv, Control, Dirs
  <2>2. k \in 0 .. (Len(kmap) + 2)
    BY <2>1, KmapLen
  <2>3. {a, last, pa} \subseteq {x \in 0 .. (AddrSpace - 1) : x % PAGE_SIZE = 0}
    <3>1. {a, last, pa} \subseteq Pages
      BY Zenon DEF Inv, Located
    <3>. QED BY <3>1, Zenon DEF Pages
  <2>4. ASSUME NEW p \in DOMAIN mem, NEW i \in DOMAIN mem[p]
        PROVE  mem[p][i].flags \subseteq {"P", "W", "U"}
    <3>1. mem[p] \in Directories \cup Tables
      BY Zenon DEF Inv, Sound
    <3>2. mem[p][i] \in Entries
      BY <3>1, Zenon DEF Directories, Tables
    <3>. QED BY <3>2 DEF Entries
  <2>. QED BY <2>1, <2>2, <2>3, <2>4, Zenon DEF TypeOK
<1>. QED BY <1>1, KernelVmInvariant, PTL

\* A directory that setup_kvm has returned, and init's once uvm::init has mapped the user page,
\* translates every virtual page as intended.
THEOREM KernelVmTranslates == Spec => []TranslatesAsIntended
<1>1. Inv => TranslatesAsIntended
  <2>. SUFFICES ASSUME Inv PROVE TranslatesAsIntended
    OBVIOUS
  <2>1. ASSUME NEW d, NEW va PROVE Mmu(d, va) = Walk(mem, dirs[d], va)
    BY Zenon DEF Mmu, Walk
  <2>2. ASSUME NEW d \in Begun, NEW va \in Pages PROVE Mmu(d, va) = Expected(d, va)
    BY <2>1, Zenon DEF Inv, Contents
  <2>3. pc = "done" => dir = "init" /\ k = 6
    BY Zenon DEF Inv, Control, UserPage
  <2>4. ASSUME Built("kernel"), NEW va \in Pages PROVE Mmu("kernel", va) = Intended(va)
    <3>1. dir = "init"
      BY <2>3, <2>4, Zenon DEF Built
    <3>2. "kernel" \in Begun /\ "kernel" # dir
      BY <3>1 DEF Begun, Dirs
    <3>. QED BY <2>2, <3>2, Zenon DEF Expected
  <2>5. ASSUME Built("init") PROVE pc = "done" /\ dir = "init" /\ k \in 5 .. 6 /\ "init" \in Begun
    <3>1. pc = "done"
      BY <2>5 DEF Built
    <3>. QED BY <2>3, <3>1 DEF Begun, Dirs
  <2>6. ASSUME Built("init"), NEW va \in Pages \ {0} PROVE Mmu("init", va) = Intended(va)
    <3>1. Mmu("init", va) = IF Reached(va) THEN Intended(va) ELSE {}
      BY <2>2, <2>5, <2>6, Zenon DEF Expected
    <3>2. ~Reached(va) => Intended(va) = {}
      BY <2>5, <2>6, AllReached, Zenon
    <3>. QED BY <3>1, <3>2, Zenon
  <2>7. ASSUME Built("init") PROVE \E m \in Mmu("init", 0) : m.rights = {"W", "U"}
    <3>. DEFINE r == [frame |-> pa, rights |-> {"W", "U"}]
    <3>1. 0 \in Pages
      <4>1. 0 % PAGE_SIZE = 0 /\ 0 \in 0 .. AddrSpace - 1
        BY Sizes
      <4>. QED BY <4>1, Zenon DEF Pages
    <3>2. Mmu("init", 0) = {r}
      BY <2>2, <2>5, <2>7, <3>1, Zenon DEF Expected
    <3>3. r.rights = {"W", "U"}
      OBVIOUS
    <3>. HIDE DEF r
    <3>. QED BY <3>2, <3>3, Zenon
  <2>. QED BY <2>4, <2>6, <2>7, Zenon DEF TranslatesAsIntended
<1>. QED BY <1>1, KernelVmInvariant, PTL

\* The finished directories share no page, no table is used twice, and the user page is none of
\* theirs.
THEOREM KernelVmPrivate == Spec => []TablesPrivate
<1>1. Inv => TablesPrivate
  <2>. SUFFICES ASSUME Inv, pc = "done" PROVE TablesPrivate
    BY Zenon DEF TablesPrivate
  <2>1. /\ Sound(Begun, dirs, mem, heap) /\ dir = "init" /\ pa \notin DOMAIN mem \cup Ran(heap)
        /\ OwnPages(Begun, dirs) /\ NoLoops(Begun, dirs, mem) /\ OwnTables(Begun, dirs, mem)
    BY Zenon DEF Inv, Private, UserPage
  <2>2. Begun = Dirs /\ "kernel" \in Begun /\ "init" \in Begun
    BY <2>1 DEF Begun, Dirs
  <2>3. ASSUME NEW d \in Dirs, NEW q \in TablesOf(d)
        PROVE  \/ q = dirs[d]
               \/ \E i \in PdIndex : Has(dirs, mem, d, i) /\ q = mem[dirs[d]][i].addr
    BY Zenon DEF TablesOf, Has, PdIndex
  <2>4. ASSUME NEW d \in Dirs, NEW q \in TablesOf(d) PROVE q \in DOMAIN mem
    <3>1. dirs[d] \in DOMAIN mem
      BY <2>1, <2>2, Zenon DEF Sound
    <3>2. ASSUME NEW i \in PdIndex, Has(dirs, mem, d, i) PROVE mem[dirs[d]][i].addr \in DOMAIN mem
      BY <2>1, <2>2, <3>2, Zenon DEF Sound
    <3>. QED BY <2>3, <3>1, <3>2, Zenon
  <2>5. TablesOf("kernel") \cap TablesOf("init") = {}
    <3>. SUFFICES ASSUME NEW q, q \in TablesOf("kernel"), q \in TablesOf("init") PROVE FALSE
      BY Zenon
    <3>1. "kernel" \in Dirs /\ "init" \in Dirs /\ "kernel" # "init"
      BY DEF Dirs
    <3>2. CASE q = dirs["kernel"]
      <4>1. q # dirs["init"]
        BY <2>1, <2>2, <3>1, <3>2, Zenon DEF OwnPages
      <4>2. PICK i \in PdIndex : Has(dirs, mem, "init", i) /\ q = mem[dirs["init"]][i].addr
        BY <2>3, <3>1, <4>1, Zenon
      <4>. QED BY <2>1, <2>2, <3>2, <4>2, Zenon DEF NoLoops
    <3>3. ASSUME NEW i \in PdIndex, Has(dirs, mem, "kernel", i), q = mem[dirs["kernel"]][i].addr
          PROVE  FALSE
      <4>1. q # dirs["init"]
        BY <2>1, <2>2, <3>3, Zenon DEF NoLoops
      <4>2. PICK j \in PdIndex : Has(dirs, mem, "init", j) /\ q = mem[dirs["init"]][j].addr
        BY <2>3, <3>1, <4>1, Zenon
      <4>3. mem[dirs["kernel"]][i].addr = mem[dirs["init"]][j].addr
        BY <3>3, <4>2, Zenon
      <4>. QED BY <2>1, <2>2, <3>1, <3>3, <4>2, <4>3, Zenon DEF OwnTables
    <3>. QED BY <2>3, <3>1, <3>2, <3>3, Zenon
  <2>6. ASSUME NEW d \in {"kernel", "init"}, NEW i \in 0 .. (NPDENTRIES - 1),
               NEW j \in 0 .. (NPDENTRIES - 1), "P" \in mem[dirs[d]][i].flags,
               mem[dirs[d]][i].addr = mem[dirs[d]][j].addr
        PROVE  i = j
    <3>1. d \in Begun /\ i \in PdIndex /\ j \in PdIndex /\ Has(dirs, mem, d, i)
      BY <2>2, <2>6, Zenon DEF Dirs, PdIndex, Has
    <3>2. mem[dirs[d]][i].addr \in DOMAIN mem
      BY <2>1, <3>1, Zenon DEF Sound
    <3>3. mem[dirs[d]][i].addr \in HeapSet
      BY <2>1, <3>2, Zenon DEF Sound
    <3>4. mem[dirs[d]][i].addr # 0
      BY <3>3, HeapPage, Zenon
    <3>5. Has(dirs, mem, d, j)
      <4>1. ~Has(dirs, mem, d, j) => mem[dirs[d]][j].addr = 0
        BY <2>1, <3>1, Zenon DEF Sound
      <4>. QED BY <2>6, <3>4, <4>1, Zenon
    <3>. QED BY <2>1, <2>6, <3>1, <3>5, Zenon DEF OwnTables
  <2>7. ASSUME NEW m \in Mmu("init", 0)
        PROVE  m.frame \notin TablesOf("kernel") \cup TablesOf("init")
                              \cup {heap[i] : i \in DOMAIN heap}
    <3>1. Mmu("init", 0) = {[frame |-> pa, rights |-> {"W", "U"}]}
      <4>1. 0 \in Pages
        <5>1. 0 % PAGE_SIZE = 0 /\ 0 \in 0 .. AddrSpace - 1
          BY Sizes
        <5>. QED BY <5>1, Zenon DEF Pages
      <4>2. Walk(mem, dirs["init"], 0) = Expected("init", 0)
        BY <2>2, <4>1, Zenon DEF Inv, Contents
      <4>3. Expected("init", 0) = {[frame |-> pa, rights |-> {"W", "U"}]}
        BY <2>1, Zenon DEF Expected
      <4>4. Mmu("init", 0) = Walk(mem, dirs["init"], 0)
        BY Zenon DEF Mmu, Walk
      <4>. QED BY <4>2, <4>3, <4>4, Zenon
    <3>2. m.frame = pa
      BY <2>7, <3>1
    <3>3. "kernel" \in Dirs /\ "init" \in Dirs
      BY DEF Dirs
    <3>4. pa \notin TablesOf("kernel") /\ pa \notin TablesOf("init")
      BY <2>1, <2>4, <3>3, Zenon
    <3>5. DOMAIN heap = 1 .. Len(heap)
      <4>1. heap \in Seq(HeapSet)
        BY <2>1, Zenon DEF Sound
      <4>. QED BY <4>1, LenProperties
    <3>6. pa \notin {heap[i] : i \in DOMAIN heap}
      BY <2>1, <3>5, Zenon DEF Ran
    <3>. QED BY <3>2, <3>4, <3>6, Zenon
  <2>. QED BY <2>5, <2>6, <2>7, Zenon DEF TablesPrivate
<1>. QED BY <1>1, KernelVmInvariant, PTL
====
