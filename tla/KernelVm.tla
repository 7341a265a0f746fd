------------------------------ MODULE KernelVm ------------------------------
(***************************************************************************)
(* Page tables (kernel/src/vm.rs, memory.rs): setup_kvm() builds KPG_DIR   *)
(* and then init's page directory, to which uvm::init adds the user page.  *)
(* Addresses are numbers below AddrSpace, which stands for 2^32: arithmetic *)
(* on them wraps. A page-table page is one page of the heap.               *)
(***************************************************************************)
EXTENDS Integers, Sequences, FiniteSets

CONSTANTS
    PAGE_SIZE, NPDENTRIES, NPTENTRIES,
    KERNBASE, EXTMEM, PHYSTOP, DEVSPACE,
    DataSymbols,  \* the addresses the linker may give the symbol data
    HeapPages     \* physical addresses of the heap's pages, in first-fit order

AddrSpace == PAGE_SIZE * NPDENTRIES * NPTENTRIES
KERNLINK == KERNBASE + EXTMEM

ASSUME KernelVmAssumption ==
    /\ {PAGE_SIZE, NPDENTRIES, NPTENTRIES, EXTMEM} \subseteq Nat \ {0}
    /\ {KERNBASE, PHYSTOP, DEVSPACE} \cup DataSymbols \subseteq Nat
    /\ EXTMEM < PHYSTOP /\ KERNBASE + PHYSTOP < AddrSpace /\ DEVSPACE < AddrSpace
    /\ \A x \in {KERNBASE, EXTMEM, PHYSTOP, DEVSPACE} \cup DataSymbols : x % PAGE_SIZE = 0
    /\ \A x \in DataSymbols : KERNLINK < x /\ x < KERNBASE + PHYSTOP
    /\ HeapPages \in Seq(EXTMEM..(PHYSTOP - PAGE_SIZE))
    /\ \A i \in DOMAIN HeapPages : HeapPages[i] % PAGE_SIZE = 0
    /\ \A i, j \in DOMAIN HeapPages : HeapPages[i] = HeapPages[j] => i = j

VARIABLES
    data_vaddr, \* the linker's data symbol
    pc,         \* "setup", "kmap", "map", "user", "done", "panic"
    heap,       \* pages not yet allocated
    dir,        \* the directory being built: "kernel" or "init"
    dirs,       \* page of each directory
    mem,        \* contents of the page-table pages: entries by index
    k,          \* kmap entry in hand; one past the last for the user page
    a, last, pa \* locals of map_pages

vars == <<data_vaddr, pc, heap, dir, dirs, mem, k, a, last, pa>>

p2v(x) == x + KERNBASE
v2p(x) == x - KERNBASE
WrapAdd(x, y) == (x + y) % AddrSpace
WrapSub(x, y) == (x - y) % AddrSpace
RoundDown(x) == x - (x % PAGE_SIZE)
pdx(va) == va \div (PAGE_SIZE * NPTENTRIES)
ptx(va) == (va \div PAGE_SIZE) % NPTENTRIES

\* An entry of a directory or of a table: the address and the flag bits.
Entry(addr, flags) == [addr |-> addr, flags |-> flags]
ZeroPage(n) == [i \in 0..(n - 1) |-> Entry(0, {})]

\* setup_kvm's table, for the linker's choice of data.
kmap == <<
    [virt |-> KERNBASE,   start |-> 0,               end |-> EXTMEM,          perm |-> {"W"}],
    [virt |-> KERNLINK,   start |-> v2p(KERNLINK),   end |-> v2p(data_vaddr), perm |-> {}],
    [virt |-> data_vaddr, start |-> v2p(data_vaddr), end |-> PHYSTOP,         perm |-> {"W"}],
    [virt |-> DEVSPACE,   start |-> DEVSPACE,        end |-> 0,               perm |-> {"W"}] >>

Init ==
    /\ data_vaddr \in DataSymbols
    /\ pc = "setup" /\ dir = "kernel"
    /\ heap = HeapPages
    /\ dirs = [d \in {"kernel", "init"} |-> 0]
    /\ mem = [p \in {} |-> 0]
    /\ k = 0 /\ a = 0 /\ last = 0 /\ pa = 0

\* The global allocator: the first free page, or panic (KernelHeap::alloc).
NoMemory == heap = <<>>
Zeroed(p, n) == [q \in DOMAIN mem \cup {p} |-> IF q = p THEN ZeroPage(n) ELSE mem[q]]

\* Mutant of SetupKvm: init's directory starts as a copy of KPG_DIR.
SetupKvmCopy ==
    /\ pc = "setup"
    /\ dirs' = [dirs EXCEPT ![dir] = Head(heap)]
    /\ mem' = [Zeroed(Head(heap), NPDENTRIES) EXCEPT
                  ![Head(heap)] = IF dir = "kernel" THEN @ ELSE mem[dirs["kernel"]]]
    /\ heap' = Tail(heap)
    /\ k' = IF dir = "kernel" THEN 1 ELSE Len(kmap) + 1
    /\ pc' = "kmap"
    /\ UNCHANGED <<data_vaddr, dir, a, last, pa>>

\* setup_kvm: a zeroed directory, and the check that devices stay above memory.
SetupKvm ==
    /\ pc = "setup"
    /\ IF NoMemory \/ p2v(PHYSTOP) > DEVSPACE
       THEN pc' = "panic" /\ UNCHANGED <<heap, dirs, mem, k>>
       ELSE /\ dirs' = [dirs EXCEPT ![dir] = Head(heap)]
            /\ mem' = Zeroed(Head(heap), NPDENTRIES)
            /\ heap' = Tail(heap)
            /\ k' = 1 /\ pc' = "kmap"
    /\ UNCHANGED <<data_vaddr, dir, a, last, pa>>

\* Mutant of CallMapPages: the address of the last page is not rounded.
CallMapPagesUnrounded(va, size, start) ==
    /\ a' = RoundDown(va)
    /\ last' = WrapAdd(va, size - 1)
    /\ pa' = start
    /\ pc' = "map"

\* The head of map_pages(va, size, start).
CallMapPages(va, size, start) ==
    /\ a' = RoundDown(va)
    /\ last' = RoundDown(WrapAdd(va, size - 1))
    /\ pa' = start
    /\ pc' = "map"

\* Mutant of MapKmap: the size of the last range is not computed modulo 2^32.
MapKmapNoWrap ==
    /\ pc = "kmap" /\ k <= Len(kmap)
    /\ CallMapPages(kmap[k].virt,
                    IF kmap[k].end < kmap[k].start THEN PAGE_SIZE ELSE kmap[k].end - kmap[k].start,
                    kmap[k].start)
    /\ UNCHANGED <<data_vaddr, heap, dir, dirs, mem, k>>

\* for k in &kmap
MapKmap ==
    /\ pc = "kmap" /\ k <= Len(kmap)
    /\ CallMapPages(kmap[k].virt, WrapSub(kmap[k].end, kmap[k].start), kmap[k].start)
    /\ UNCHANGED <<data_vaddr, heap, dir, dirs, mem, k>>

\* setup_kvm returns: kvmalloc stores KPG_DIR and user_init later builds init's
\* directory, where uvm::init allocates a page and maps it at 0.
SetupDone ==
    /\ pc = "kmap" /\ k > Len(kmap)
    /\ \/ /\ dir = "kernel" /\ dir' = "init" /\ pc' = "setup"
          /\ UNCHANGED <<heap, a, last, pa>>
       \/ /\ dir = "init" /\ UNCHANGED dir
          /\ IF NoMemory THEN pc' = "panic" /\ UNCHANGED <<heap, a, last, pa>>
             ELSE heap' = Tail(heap) /\ CallMapPages(0, PAGE_SIZE, Head(heap))
    /\ UNCHANGED <<data_vaddr, dirs, mem, k>>

\* Permissions of the range in hand.
perm == IF k <= Len(kmap) THEN kmap[k].perm ELSE {"W", "U"}

\* Mutant of WalkPageDir: a table is allocated though one is present.
WalkPageDirFresh ==
    LET pd == dirs[dir] IN
    IF NoMemory THEN [tab |-> 0, heap |-> heap, mem |-> mem]
    ELSE [tab |-> Head(heap), heap |-> Tail(heap),
          mem |-> [Zeroed(Head(heap), NPTENTRIES)
                      EXCEPT ![pd][pdx(a)] = Entry(Head(heap), {"P", "W", "U"})]]

\* walk_page_dir(pg_dir, a, true): the table that holds a's entry, allocated
\* and entered in the directory when missing; tab is 0 without memory.
WalkPageDir ==
    LET pd == dirs[dir]
        pde == mem[pd][pdx(a)]
    IN IF "P" \in pde.flags THEN [tab |-> pde.addr, heap |-> heap, mem |-> mem]
       ELSE IF NoMemory THEN [tab |-> 0, heap |-> heap, mem |-> mem]
       ELSE [tab |-> Head(heap), heap |-> Tail(heap),
             mem |-> [Zeroed(Head(heap), NPTENTRIES)
                         EXCEPT ![pd][pdx(a)] = Entry(Head(heap), {"P", "W", "U"})]]

\* One turn of map_pages' loop; after the last page the next range follows.
MapPage ==
    /\ pc = "map"
    /\ LET w == WalkPageDir IN
       IF w.tab = 0 \/ "P" \in w.mem[w.tab][ptx(a)].flags  \* out of memory, "remap"
       THEN pc' = "panic" /\ UNCHANGED <<heap, mem, a, pa, k>>
       ELSE /\ heap' = w.heap
            /\ mem' = [w.mem EXCEPT ![w.tab][ptx(a)] = Entry(pa, perm \cup {"P"})]
            /\ IF a = last
               THEN /\ pc' = IF k <= Len(kmap) THEN "kmap" ELSE "done"
                    /\ k' = k + 1 /\ UNCHANGED <<a, pa>>
               ELSE /\ a' = WrapAdd(a, PAGE_SIZE) /\ pa' = WrapAdd(pa, PAGE_SIZE)
                    /\ UNCHANGED <<pc, k>>
    /\ UNCHANGED <<data_vaddr, dir, dirs, last>>

Next == SetupKvm \/ MapKmap \/ SetupDone \/ MapPage

Spec == Init /\ [][Next]_vars

\* The CPU that runs main() keeps running.
FairSpec == Spec /\ WF_vars(Next)
-----------------------------------------------------------------------------
(* Properties *)

\* The allocator, the directories and the locals of map_pages have their types.
TypeOK ==
    /\ pc \in {"setup", "kmap", "map", "done", "panic"}
    /\ dir \in {"kernel", "init"} /\ k \in 0..(Len(kmap) + 2)
    /\ {a, last, pa} \subseteq {x \in 0..(AddrSpace - 1) : x % PAGE_SIZE = 0}
    /\ \A p \in DOMAIN mem : \A i \in DOMAIN mem[p] : mem[p][i].flags \subseteq {"P", "W", "U"}

\* What the MMU makes of virtual page va under directory d: the frame and the
\* rights, which need both levels, or nothing.
Mmu(d, va) ==
    LET pde == mem[dirs[d]][pdx(va)]
        pte == mem[pde.addr][ptx(va)]
    IN IF "P" \notin pde.flags \/ "P" \notin pte.flags THEN {}
       ELSE {[frame |-> pte.addr, rights |-> (pde.flags \cap pte.flags) \ {"P"}]}

Pages == {x \in 0..(AddrSpace - 1) : x % PAGE_SIZE = 0}

\* The intended address space, written without reference to kmap: physical
\* memory up to PHYSTOP at KERNBASE, read-only where the kernel's text lies,
\* and the devices at their own addresses; for the kernel only.
Intended(va) ==
    IF va >= DEVSPACE THEN {[frame |-> va, rights |-> {"W"}]}
    ELSE IF KERNBASE <= va /\ va < KERNBASE + PHYSTOP
    THEN {[frame |-> v2p(va), rights |-> IF KERNLINK <= va /\ va < data_vaddr THEN {} ELSE {"W"}]}
    ELSE {}

Built(d) == pc = "done" \/ (d = "kernel" /\ dir = "init")

\* The finished directories translate every virtual page as intended: nothing
\* is missing, nothing else is mapped, no kernel page is open to user code, and
\* init has exactly one writable user page, at 0.
TranslatesAsIntended ==
    /\ Built("kernel") => \A va \in Pages : Mmu("kernel", va) = Intended(va)
    /\ Built("init") => \A va \in Pages \ {0} : Mmu("init", va) = Intended(va)
    /\ Built("init") => \E m \in Mmu("init", 0) : m.rights = {"W", "U"}

\* The pages a directory is made of.
TablesOf(d) == {dirs[d]} \cup
    {mem[dirs[d]][i].addr : i \in {j \in 0..(NPDENTRIES - 1) : "P" \in mem[dirs[d]][j].flags}}

\* KPG_DIR and init's directory share no page, no two entries of a directory
\* use the same table, and the user page is none of them nor on the heap: a
\* process cannot reach a page table through its user page.
TablesPrivate == pc = "done" =>
    /\ TablesOf("kernel") \cap TablesOf("init") = {}
    /\ \A d \in {"kernel", "init"} : \A i, j \in 0..(NPDENTRIES - 1) :
          LET pd == mem[dirs[d]] IN
          "P" \in pd[i].flags /\ pd[i].addr = pd[j].addr => i = j
    /\ \A m \in Mmu("init", 0) :
          m.frame \notin TablesOf("kernel") \cup TablesOf("init")
                         \cup {heap[i] : i \in DOMAIN heap}

\* With enough memory both directories are completed: no range is mapped twice
\* ("remap"), and the loop that ends on a = last does so although the device
\* range ends at the top of the address space.
Completes == <>(pc = "done")
=============================================================================
