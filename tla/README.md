# A TLA+ model of rusty-xv6

rusty-xv6 is a small multiprocessor kernel for 32-bit x86, with a boot loader
and a host tool (`mkfs`) that builds its file system image. This directory holds
TLA+ modules that model its parts as the code is, TLC configurations that check
them on small instances, and TLAPS proofs for every value of the constants: of
the spin locks, of the start of the processors, of the descriptors, of the search for
the processors and of the interrupt hardware's set-up, of the boot loader, of the entry
code of traps, of the page tables, of the console and of mkfs.

## The system's parts

| part | source | state | concurrency |
|---|---|---|---|
| boot loader | `bootloader/src/main.rs`, `elf.rs` | memory, disk, ELF page | none; overlapping copies |
| start of the kernel | `kernel/src/main.rs`, `lapic.rs` | per-CPU page directory, GDT, IDT, stack; the mailbox below 0x7000 | boot CPU, processors being started, IPIs |
| MP table, interrupt controllers | `kernel/src/mp.rs`, `lapic.rs`, `ioapic.rs`, `pic_irq.rs` | the table in memory, `_CPUS`, the APICs' entries | none; every machine |
| segment and gate descriptors | `kernel/src/memory.rs` | packed words | none |
| spin locks, `push_cli`/`pop_cli` | `kernel/src/lock.rs`, `my_cpu` of `proc.rs` | `locked`, `cpu`, `num_cli`, `int_enabled`, the RefCell of the per-CPU data | CPUs, interrupts |
| traps | `kernel/src/trap.rs`, `build.rs` | registers, kernel stacks, the local APIC's IRR and ISR | nested interrupts, faults, system calls |
| processes, scheduler | `kernel/src/proc.rs` | `PROC_TABLE`, run queue, per-process lock | CPUs |
| page tables | `kernel/src/vm.rs`, `memory.rs`, `utils/src/address.rs` | page directories and tables | none |
| page allocator | `kernel/src/kalloc.rs` | heap | under a lock |
| console, serial port | `kernel/src/console.rs`, `uart.rs` | `Writer`, VGA cells, cursor registers | CPUs, under `VGA_WRITER` |
| IDE driver, buffer cache, inodes, path names | `kernel/src/fs/` | queue, caches | processes, disk interrupt; not reached by the code yet |
| sleep locks, sleep/wakeup | `kernel/src/lock.rs`, `proc.rs` | channels | processes; not reached by the code yet |
| mkfs | `mkfs/src/` | the image, two counters | none; short reads, errors |

The parts meet as follows. The boot loader hands over to `main()`, which builds
the kernel's page tables, finds the processors, starts them one after the other,
creates the first process and enters the scheduler, as every other CPU does. On
the way it fills the tables that the vectors, `alltraps` and `trapret` rely on. The
console, the allocator and the process table are shared and protected by spin
locks; the locks rest on the per-CPU interrupt nesting.

`PROJECT.json` lists every part with its status, and the hazards of the code with
the properties that cover them.

## Modules

**`Mutex`** is what a `SpinMutex` promises: one owner per lock, taken and given
back in one step, and no interrupt handler on a CPU that owns a lock.

**`SpinLock`** is `lock.rs` access by access. `acquire` is `AcquireCall`,
`PushFlags`, `PushCli`, the six steps of `holding()` (`Hold...`),
`CompareAndSwap` and `StoreOwner`; `release` is `ReleaseCall`, `holding()`, the
two steps of `ReleaseStores`, `PopCli`, `PopReturn`; `cli()` is `CliCall`, `PushFlags`,
`PushCli`, `Body`, `PopCli`, `PopReturn`. `Trap` may happen at any point at which
the interrupt flag is set, also inside lock.rs. Until `MpInit` the functions are
no-ops, as they are while `LAPIC` is `None`. A failed assertion, a `panic!` or a
failed RefCell borrow sends the CPU to `"panic"`. The callers are arbitrary code
that takes locks in the order `Nesting` and drops guards in any order. `Mutex` is
instantiated in it with the owner computed from the CPUs' control state.
The atomics of `lock.rs` are x86 loads and stores separated by fences and are
modelled as sequentially consistent.

**`Kernel`** is `main()` to `forkret()` on all CPUs. Each call of `main()` that
matters is an action of the boot CPU; `StartAp`, `WaitStarted`, `Deliver`,
`ApStart`, `MpEnter`, `MpMain` are the start of the others; `LockPtable`,
`GetRunnable`, `SwitchUvm`, `SetRunning`, `Switch`, `Forkret` are the scheduler.
It uses locks as `Mutex` specifies them. A fault (an access through a page
directory that does not map the address) and a panic are states of the CPU. Every
page-sized allocation takes a page and panics when there is none: the directory and
tables of `setup_kvm` (`KvmPages` of them, in `Kvmalloc` and again in `UserInit`), the
stacks, the empty directory of `Process::new`, which `user_init` replaces and so
frees, and the page and table of `uvm::init`.

**`Machine`** is the part of `main()` that `Kernel` takes as `MpInit`, `TrapInit`
and so on, call by call on one CPU: the search for the MP structure paragraph by
paragraph (`Search`, `Search1...`, `Config`), the walk over its table
(`Entry...`, `MpDone`), `LapicInit`, `Seginit`, `PicInit`, `IoapicInit`,
`ConsoleInit`, `UartInit`, `TrapInit`, `IdeInit`. `hw` is the machine: what the
searched memory holds, the table, the devices. The serial port and the second disk may
be absent.

**`Descriptors`** is `SegDesc` and `GateDesc`: every setter as arithmetic on 16-bit
halves, and next to it how the processor takes a descriptor apart (`SegFields`,
`GateFields`). `Machine` builds its GDT and IDT with it.

**`Trap`** is one CPU's way into and out of the kernel, word by word on the
stacks: the processor's entry (`Enter`), the generated vector (`Stub`),
`AllTraps`, `Trap` with its EOI, `TrapRet`, `Iret`, and `Switch` and `Forkret`
onto the stack that `alloc_proc` and `user_init` laid out. The local APIC has its
request and in-service registers and priority classes. Interrupts nest where
the flag allows it. `first_time` is either value: today the first process stops
in forkret's `todo!()`, and FALSE stands for a later process, for which the code
is complete.

**`KernelVm`** is `setup_kvm`, `map_pages`, `walk_page_dir` and `uvm::init` on
page numbers that wrap, with the regions of `kmap`. `Mmu` walks the tables
that were built.

**`Vga`** is `Writer` as functions from writer to writer, and `print!` from
several CPUs: `Lock`, one `WriteStr` per piece, `Unlock`. It begins after
`clear_screen()`, which leaves the cursor registers as the BIOS had them. `UartInit` is
`uart::init` in the course of `main()`, with the announcement that follows it: until then
`IS_UART` is false, only the boot CPU runs, and what it prints is not sent.

**`Mkfs`** is the program's `main` and `FsBuilder`. A sector is seen as inodes,
addresses or data, as the code casts it. `ReadFile` returns any number of units.

**`Boot`** is `boot_main`, `read_segment` and `read_sector`. A byte of memory
holds the position of the byte of the file it came from. `Linked` states what
kernel.ld and the ELF format guarantee of the program headers; `Touched` is in it
because read_segment reads the sector of `p_paddr` even for a segment without bytes,
unless it starts on a sector. Such a header (`Empty`) may stand anywhere: the loader
ignores `p_type`, and linkers append `PT_GNU_STACK` with address and sizes 0.

`MC*` modules give the constants their values. Operators whose comment
begins with "Mutant" are deliberately wrong variants of an action, used to
confirm that the properties can fail; no specification refers to them.

## Runs

| run | instance | checks |
|---|---|---|
| `spinlock` | 2 CPUs, locks ptable < kheap | types, the inductive invariant `LockInv`, `MutualExclusion`, `NoPanic`, `NestingDepth`, `InterruptsRestored`, refinement of `Mutex`; `LockProgress` |
| `kernel` | 3 CPUs, boot CPU in the middle, 4 low and 5 high pages, 2 pages per `setup_kvm` | `DistinctStacks`, `ReadyForInterrupts`, `OnlyTodoPanics`, `DispatchedOnce`; `AllStarted`, `InitDispatched` |
| `scheduler_comment` | as `kernel` | finds `SchedulerRegainsControl` violated |
| `kernel_vm` | 64 pages of address space, 6 places of `data` | `TranslatesAsIntended`, `TablesPrivate`, `Completes` |
| `vga` | 2 CPUs, screen 3 x 2, 4 messages, 2 cursors left by the BIOS, with and without a serial port | `ScreenShowsTail`, `CursorAtEnd`, `MessagesWhole` |
| `mkfs` | blocks of 3 units, 2 direct and 2 indirect blocks, 3 files | `ReadsBack`, `BlocksExclusive`, `BitmapExact`, `Terminates` |
| `mkfs_layout` | empty files, more than inodes | finds `InodesInInodeBlocks` violated |
| `trap` | timer, keyboard, disk, APIC error and spurious interrupts; divide fault; system call | `FrameAsDeclared`, `AcksMatch`, `RunsIntact`, `TimerServed` |
| `trap_error_code` | as `trap`, with a page fault | finds `FrameAsDeclared` violated |
| `machine` | 2 paragraphs per area, `MAX_NCPU` = 2, every memory image with up to two structures, every table of up to 4 entries | `CpusFound`, `InterruptsLand` |
| `machine_search` | as `machine` | finds `FoundWhereDocumented` violated |
| `boot` | sectors of 2 bytes, pages of 4 sectors, 648 layouts, half with an empty header | `LoadedExactly`, `LoaderIntact`, `Boots` |

What they show, beyond the table:

- `holding()` is exact although it reads two fields that other CPUs are writing,
  because the owner's index is stored only inside the lock and cleared before it.
- `pop_cli` executes `sti` while its borrow of the per-CPU data is alive. This is
  harmless only because `trap()` takes no lock: with the `log!` line that is
  commented out there, `NoPanic` fails.
- The single mailbox is safe because `start_others()` waits for each CPU; the
  second STARTUP interrupt may arrive arbitrarily late.
- `scheduler_comment`: the first process ends in `todo!()` inside `forkret` with
  two locks held, so the scheduler never regains control (`proc.rs:496`).
- `mkfs_layout`: `alloc_inode` does not check `N_INODES`; one inode too many goes
  to the bitmap block and is overwritten.
- `trap_error_code`: `build.rs` pushes a 0 in every vector, also after the processor
  has pushed an error code, so `TrapFrame` is one word off from `eip` on and `iret`
  takes the error code for `%eip`. Without such a fault the layout is right: every
  interrupted context comes back register for register, nested interrupts included.
- `trap()` sends an EOI for every trap, spurious interrupts and system calls
  included. `AcksMatch` shows that this never retires another handler's interrupt:
  interrupt gates keep IF clear up to the EOI, and a system call, whose gate does
  not, comes only from user code, when nothing is in service.
- `machine`: where `search()` looks, a structure with a wrong checksum does not hide a
  later good one; processors beyond `MAX_NCPU` are ignored, and nothing is left with a
  vector that has no gate. `ioapic::enable` takes a CPU's number for its APIC id (its
  comment says so, while `proc.rs:173` says that ids need not be contiguous), so the
  destination clause of `InterruptsLand` is conditional on ids that count from 0. With
  other ids the disk's interrupts may go to no CPU; nothing waits for them yet.
- `machine_search`: the comment on `search()` (`mp.rs:142-146`) names the EBDA, the last KB
  of base memory and the ROM from 0xE0000. The code looks at the last KB only where there
  is no EBDA, and at the ROM only from 0xF0000. On a machine with its structure in the
  remaining places `main()` panics. `CpusFound` is therefore about the places the
  code looks at (`Usable`), `FoundWhereDocumented` about those of the comment.
- `vga`: messages printed before `uart::init` (the processors found, for one) appear on the
  screen only; from then on the serial line gets every message whole.
- `kernel`: that the boot CPU gets `PROC_TABLE` in `user_init` is not checked, because it is
  not so on every schedule: the other CPUs' schedulers lock and unlock it for ever,
  and `compare_and_swap` has no order. `AllStarted` ends before that lock and
  `InitDispatched` begins after it.

### Bounds

Two CPUs are enough for every pairwise race of the locks (the proofs cover the
general case); two nested locks give both orders of dropping guards, and the proofs
cover deeper nesting. Three CPUs in `kernel` are the least with two processors reading the
mailbox after each other; its pages are the fewest with which no allocation of
`main()` fails. In `kernel_vm`, 64 pages hold all four regions of `kmap`, the wrap at the
end of the address space and several page tables per region. In `vga` four messages
scroll a two-column screen more than once. In `mkfs` the lengths are chosen so
that a file ends inside and at the end of a block, in the indirect block, at the
largest size and one beyond, and so that the image fills up. `boot` has segments
that begin and end inside a sector, share a sector, are empty, and end just below
the loader, and an empty header at the end. In `trap` the
interrupts span two priority classes, so one can arrive while another is in
service. In `machine` a table can list more processors than `MAX_NCPU`, none, the
boot CPU last or not at all, several I/O APICs, and a type that stops the walk.
Counters are bounded by `MaxFiles` and `MaxPrints`.

### Fairness

- `SpinLock`: a CPU inside lock.rs or in a handler keeps executing (WF), and
  critical sections end (SF on dropping a guard, which interrupts may disable
  again and again). Winning a contended lock is not assumed.
- `Kernel`: CPUs keep executing and IPIs arrive (WF). A CPU may lose every race for a
  lock.
- `Trap`: the CPU keeps executing (WF), and a pending interrupt is taken if the
  CPU is at boundaries with the flag set again and again (SF), as the processor
  checks at each of them. A device raises one edge, as its line stays up until a
  driver serves it, which `trap()` never does; only the timer recurs.
- `KernelVm`, `Mkfs`, `Boot`: the one process keeps running.

## Proofs

| module | theorem | states |
|---|---|---|
| `SpinLockProofs` | `TypeCorrect` | `TypeOK` |
| `SpinLockProofs` | `LockInvariant` | `LockInv`, the inductive invariant |
| `SpinLockProofs` | `MutualExclusionHolds`, `NeverPanics`, `NestingDepthExact`, `InterruptsAlwaysRestored` | the safety properties |
| `SpinLockProofs` | `Refinement` | `SpinLock` implements `Mutex` |
| `KernelProofs` | `KernelInvariant` | `Inv`, the inductive invariant |
| `KernelProofs` | `StacksAlwaysDistinct`, `InitDispatchedOnce`, `AlwaysReady`, `KernelTypes` | `DistinctStacks`, `DispatchedOnce`, `ReadyForInterrupts`, `TypeOK` |
| `KernelProofs` | `NeverPanics` | `OnlyTodoPanics`, if `EnoughPages` |
| `MachineProofs` | `SegExact`, `TssExact`, `GateExact` | the processor reads back what was packed |
| `MachineProofs` | `InterruptsAlwaysLand` | `InterruptsLand` |
| `MachineProofs` | `FindingInvariant` | `FoundInv`, the inductive invariant of `mp::init` |
| `MachineProofs` | `ProcessorsFound`, `TypeCorrect` | `CpusFound`, `TypeOK` |
| `BootProofs` | `KernelLoaded`, `LoaderSurvives`, `BootTypes` | `LoadedExactly`, `LoaderIntact`, `TypeOK` |
| `TrapProofs` | `FramesDeclared`, `OneEoiEach`, `ReturnsIntact`, `TrapTypes` | `FrameAsDeclared`, `AcksMatch`, `RunsIntact`, `TypeOK`, if `NoErrorCodes` |
| `KernelVmProofs` | `KernelVmTranslates`, `KernelVmPrivate`, `KernelVmTypes` | `TranslatesAsIntended`, `TablesPrivate`, `TypeOK` |
| `VgaProofs` | `ConsoleInvariant` | `VgaInv`, the inductive invariant |
| `VgaProofs` | `ScreenRight`, `CursorRight`, `SerialRight`, `TypeCorrect` | `ScreenShowsTail`, `CursorAtEnd`, `MessagesWhole`, `TypeOK` |
| `MkfsProofs` | `ImageInvariant` | `ImageInv`, the inductive invariant, if `EnoughInodes` |
| `MkfsProofs` | `FilesReadBack`, `NoSharedBlocks`, `BitmapRight`, `TypeCorrect` | `ReadsBack`, `BlocksExclusive`, `BitmapExact`, `TypeOK`, if `EnoughInodes` |

Each module states its inductive invariant before it is used. TLC finds those of
`KernelProofs`, `BootProofs`, `TrapProofs`, `KernelVmProofs`, `MkfsProofs`, `VgaProofs` and
`FoundInv` true on the instances of the runs (with finite sets in the place of types such
as `Seq(...)` and the integers), and `LockInv` is an invariant of the run `spinlock`.

What a loop computes needs induction. The library's induction theorems take a predicate as
a parameter, so `MachineProofs` and `VgaProofs` derive induction over a *set* of natural
numbers (`Induction`, `BoundedInduction`) from the well-foundedness of `<`. A loop of the
model is a recursive function; it is shown to exist by induction, and from then on known
by its first value and its step (`Layout`, `Listing`, `LinesTrace`).

### Locks

For every finite or infinite set of locks, every set of CPUs within `0..7`
(`MAX_NCPU` is 8) and every irreflexive `Nesting`.

`MutualExclusion` is not inductive: that `CompareAndSwap` finds `locked` false
says nothing unless `locked` is true exactly while somebody owns the lock
(`LocksInv`); that in turn needs `release`'s assertion to succeed, so that `cpu` must
name the owner; and that a CPU in its critical section is not interrupted needs
`CpuInv`, which ties the interrupt flag, `num_cli`, `int_enabled` and the borrow
to the program point. Before `mp::init` the locks are untouched (`BootInv`).
`LockInv` is the conjunction.

The argument: a step of CPU c leaves the others' private state alone
(`StepFrame`, `OthersUnchanged`); it keeps c's own `CpuInv` (`CpuInvStep`, one
step per action); and it keeps `LocksInv` and exclusion (`LocksStep`; all but
four actions neither give nor take a lock, `QuietActions`). For the refinement
each action is shown to be a `Take`, a `Give`, the entry or exit of a handler, or
a stutter (`TakeStep`, `GiveStep`, `HandlerStep`, `StutterStep`, `BootStep`).

The assumptions are `CpusAssumption`, `LocksAssumption` and `NestingAssumption`.
The last one says that no caller asks for a lock it already holds.

### Start of the processors

For any number of CPUs, any boot CPU among them and any two disjoint sets of pages
(`KernelAssumption`). None of the three properties is inductive. That two CPUs do
not read the same mailbox needs `Starting`: at most one processor is between its
first IPI and `started`, it is the one `start_others()` waits for, those after it
are untouched, and a late second STARTUP finds a processor that ignores it. That
init runs once needs `Dispatch`, which ties the owners of `PROC_TABLE` and of the
process to the program points between `get_runnable` and `switch`. `Stacks` keeps
the mailbox, the stacks, init's stack and the free pages apart, low pages until
`init2`. `Prepared` orders GDT, IDT and `sti`, with a page directory that maps the
local APIC.

That init's page directory is no stack and not free is `Directory`; it needs its own
conjunct because `user_init` puts the directory of `Process::new` back on the heap.

`NeverPanics` has a hypothesis, `EnoughPages`: among the low pages those of one `setup_kvm`
and a stack for each processor that is started, and in all those of two `setup_kvm`, the
stacks, init's kernel stack, its user page with a table for it, less the directory that is
freed in between. With one page fewer in either place an allocation of
`main()` panics, which is what the code does. The instance of `kernel` has exactly
these numbers. For the real sizes: `PHYSTOP` is 0xE000000, so `setup_kvm` takes 56 tables
for physical memory, 8 for the devices and a directory, 65 pages. With 8 CPUs that makes
72 of the nearly 768 low pages (below 4 MB, above the kernel) and 140 in all. Objects
smaller than a page (the process's `Arc`, the run queue's buffer, the root inode) are not
counted. The proof adds `Heap`, the exact number of pages left at each point of `main()`, and
`Untroubled`: what every access relies on, and that a CPU never asks for a lock
that it holds.

### Descriptors and interrupt hardware

`MachineProofs` first follows the words through the setters: what each clears, what
it adds, and that no field overflows into its neighbour. `TssExact` is for limits
below 2^20, which is all that a descriptor without page granularity can hold.

`InterruptsAlwaysLand` is for every machine with an I/O APIC of at least 16 pins
(`HardwareAssumption`), every table, and `MAX_NCPU` up to 256, beyond which the
destination field would wrap (`SizesAssumption`). The invariant says what each call of
`main()` has established from its program point on (`Established`): the local
vectors, the code segment, the masked 8259As, exactly the pins enabled so far with
their vector and destination (`Routed`), the gates. `SegExact` and `GateExact`
turn the packed words into the fields the processor uses.

### The search for the processors

For every memory image, every table of entries of the six types and any sizes of the
areas that `search()` looks at. `CpusFound` compares what `mp::init` left with the table as a whole, so the invariant
has to say what is known in between. `Hunting`: `search1` is in the first KB or, when that
holds nothing, in the ROM, and no structure before `addr` verifies. `MpIsFirst` and
`TableGood`: the structure taken is the first that verifies, and its table passed the
checks. `Scanned(k)`: the offset is that of entry k + 1 and the processors and the I/O APIC
are those of the first k entries. The offsets come from a recursive function of the sizes;
they grow (`LayoutGrows`), so the entry at an offset is the one that was meant
(`EntryFound`), and the loop ends exactly after the last one.

### Boot loader

For every sector, page and memory size, every place of the loader and of the scratch
page, and every layout that satisfies `Linked` (`BootAssumption`, `LayoutAssumption`),
empty headers included.
The difficulty is the copying beyond the ends of a segment. `Position` keeps `pa` and
the disk sector in step and says that each sector read holds a byte of its segment.
A sector lies in one page, so by `Linked` it misses the loader and the scratch page;
where it meets an earlier segment, that one goes on in the file as it does in
memory and has no zero-filled part, so the bytes written are those already there.
`Copied` says what is in place so far. `LoaderIntact` is part of the invariant since
the program headers are read from the scratch page between the copies.

### Traps

For every set of IRQs and of faults (`TrapAssumption`: vectors as the 8259As and the
processor number them), under the hypothesis `NoErrorCodes`: no fault that occurs pushes an
error code. This is the case that `build.rs` handles; with such a fault the frame
is one word off, as the run `trap_error_code` shows, so the theorems need the hypothesis.
`RunsIntact` speaks of a context left many steps earlier, hence the invariant has to
know every word pushed since: `Handles` says for each of the five points of the entry
code what is on the stack above the interrupted context and which registers still
have its values, `Chain` the same for the contexts below, `Forking` for the stack of
a new process. `Chain` also bounds the nesting: below the innermost trap there is at
most a system call, whose gate alone leaves the interrupt flag set. That only the
innermost trap can have an interrupt in service (`InService`) then gives `AcksMatch`.

### Page tables

For every size of page, table and directory, and every layout of memory in which
the regions are page-aligned and the direct map of physical memory ends below the end
of the address space (`KernelVmAssumption`). Of the allocator it assumes aligned pages,
each handed out once, as `Box` promises; running out of them is a panic, in which
nothing is claimed. A translation depends on two levels of memory, so the three kinds
of write (a new directory, a new table, a leaf entry) have to be shown to leave all
other translations alone. This needs `Private`: no page is used by two entries, or as a
directory and as a table; and this needs `Sound`: no page in use is on the heap.
`Contents` then says what each directory translates so far, by the page that
`map_pages` has come to (`Low`, `High`). Arithmetic that wraps enters twice: the size of
the device region is computed as `0 - DEVSPACE`, and the loop stops on `a = last`, not on
`a < end`; `RangeOf` shows that the last page is the intended one in both cases.

### Console

For every height and width of the screen whose positions fit the 16 bits that
`update_cursor` writes (`VgaAssumption`; the buffer is 25 x 80), every cursor the BIOS may leave
(`BootAssumption`), every set of CPUs and every
set of messages over the four kinds of byte that `Writer` tells apart
(`MessagesAssumption`). The reference breaks the text of all messages into lines and
knows nothing of scrolling. `Shows(lines, w)` says that the writer `w` shows the last of
the lines and stands at their end. `new_line` keeps it on the last row, where the buffer
scrolls, as on any other (`NewLineShows`), and so does `write_byte`, which wraps
(`WriteByteShows`). By induction over the string `write_str` does. Between two strings of a
message the screen shows a prefix of the text, and the strings that the holder of
`VGA_WRITER` has not written yet are the rest; the same is said of the bytes sent to the
serial port, counted from the message at which `uart::init` found it. The cursor is known
only once something was shown. That is `VgaInv`, with the lock's holder and its colour (`Holds`).

### mkfs

For every size of block, number of direct and indirect blocks, inodes and sectors
(`MkfsAssumption`, `LayoutAssumption`: the metadata fits the image, as the subtraction
`FS_SIZE - N_META` of `usize` constants needs, and the output file is new or an image
that mkfs made before), any files, and reads of any length. The hypothesis `EnoughInodes`
says that there is an inode for each file; without it an inode goes to the bitmap
block, as the run `mkfs_layout` shows. `append_inode` fills a partly
used block, takes new ones and may need the indirect block in the middle of its loop, so
the properties of the finished image are not inductive. `ImageInv` describes the image at
each turn of the loop, with the inode in progress as it will be written (`Tab`). `Sound`:
the sectors behind the inodes' slots are those handed out so far, each behind one slot.
`Filled`: every unit up to an inode's size is where `read` looks for it. `Clear`: sectors not
handed out are zero, so that a fresh indirect block holds no addresses. `Counters` and
`InFlight` tie the program point to the sizes and to the buffer being appended.

### Only model-checked

- Liveness (`LockProgress`, `AllStarted`, `InitDispatched`, `Completes`, `Terminates`,
  `TimerServed`, `Boots`): fairness is outside what the provers handle.

Every safety invariant that a passing run checks is also proved.

## Not modelled

- Storage: `SleepLock`, `sleep`, `wakeup`, `sched`, the IDE driver beyond its
  `init`, `Bcache`. Nothing calls them today: the first process stops in
  `forkret`, and `trap()` does not call `ide_intr`. A process that did would panic
  in `sleep`, whose `PROC_TABLE.lock()` meets the lock its own scheduler holds, before
  any request completes. A faithful model ends there on every path, and
  properties of completed requests would be about code that is not written yet.
- Inodes and path names: `read`, `write`, `trunc`, `drop` and `SuperBlock::read` end
  in `todo!()`; the one call that runs is for the name `"/"`.
- `free_vm` and the error path of `setup_kvm`, which is unreachable: `map_pages`
  returns `None` only if `walk_page_dir` does, and called with `alloc` = true that
  never does (a failed allocation ends in `alloc_error_handler`, a panic). `free_vm`
  itself begins with `uvm::dealloc`, a `todo!()`.
- The free list of the heap, which is the crate `linked_list_allocator`.
- Delays, baud and timer rates, the bytes of checksums, the one-instruction
  wrappers of `utils/src/x86.rs`, and the user program `init`, which is not reached.

Several CPUs in `Trap`: the entry code uses only the CPU's own registers and
stacks, and what `trap()` shares with lock.rs is in `SpinLock`.
