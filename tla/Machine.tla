------------------------------ MODULE Machine -------------------------------
(***************************************************************************)
(* How main() finds the processors and sets the interrupt hardware up:     *)
(* mp::init reads the firmware's tables, then the local APIC, the segment  *)
(* descriptors, both interrupt controllers, the devices and the IDT are    *)
(* initialised, by the boot CPU alone and with interrupts off.             *)
(*                                                                         *)
(* Memory is counted in paragraphs of 16 bytes, the size of an MP floating *)
(* pointer. From 0: the first KB of the EBDA, the last KB of base memory,  *)
(* the ROM at 0xE0000 and the ROM at 0xF0000.                              *)
(***************************************************************************)
EXTENDS Descriptors, Sequences, FiniteSets

CONSTANTS
    Hardware,    \* the machines: what the firmware left, and what is plugged in
    KB,          \* paragraphs searched in the EBDA or in base memory (64)
    ROM,         \* paragraphs of each 64 KiB half of the BIOS ROM (4096)
    MAX_NCPU,    \* 8
    Bsp          \* the boot CPU's APIC id

ASSUME SizesAssumption ==
    KB \in Nat \ {0} /\ ROM \in Nat \ {0} /\ MAX_NCPU \in Nat \ {0} /\ MAX_NCPU <= 256

\* An entry of the configuration table, by type; other is a type mp::init does not know.
MpEntry == [ty : {"proc", "ioapic", "bus", "iointr", "lintr", "other"}, id : Nat]

\* An I/O APIC has a pin for each ISA interrupt at least.
ASSUME HardwareAssumption ==
    \A h \in Hardware :
      /\ h.uart \in BOOLEAN /\ h.pins \in Nat /\ h.pins >= 16
      /\ h.table.entries \in Seq(MpEntry)

VARIABLES
    hw,          \* this machine
    pc,          \* the next step of main()
    addr, end,   \* search1: the next paragraph, and where the area ends
    mp,          \* the floating pointer that verified
    p,           \* mp::init: offset of the next entry in the configuration table
    cpus,        \* apic_id of _CPUS[.. _NCPU]
    ioapic_id,   \* IOAPIC_ID
    lapic,       \* LAPIC.is_some()
    lvt,         \* the local vector table and the spurious vector
    gdt,         \* this CPU's GDT
    pic,         \* "imcr": the IMCR routes to the APIC; "masked": both 8259A are masked
    redir,       \* redirection table of the I/O APIC
    idt,         \* IDT
    devs         \* IS_UART, HAVE_DISK1 and the initialised entries of DEV

searching == <<addr, end, mp, p>>
found == <<cpus, ioapic_id, lapic>>
tables == <<lvt, gdt, pic, redir, idt, devs>>
vars == <<hw, pc, addr, end, mp, p, cpus, ioapic_id, lapic, lvt, gdt, pic, redir, idt, devs>>

EbdaAt == 0
LastKbAt == KB
RomAt == 2 * KB + ROM
Paragraphs == 0 .. 2 * (KB + ROM) - 1

T_IRQ0 == 32
T_SYSCALL == 64
IRQ == [TIMER |-> 0, KBD |-> 1, COM1 |-> 4, IDE |-> 14, ERROR |-> 19, SPURIOUS |-> 31]
SEG_KCODE == 1
SEG_KDATA == 2
SEG_UCODE == 3
SEG_UDATA == 4
NSEGS == 6
USER == 3

\* VECTORS[v]: the entry points lie somewhere in the kernel, 12 bytes apart.
Vectors(v) == [lo |-> 4096 + 12 * v, hi |-> 32784]

HeaderSize == 44
\* The bytes an entry occupies (MP specification, table 4-3).
EntrySize(e) == IF e.ty = "proc" THEN 20 ELSE 8
EntryAt ==
    LET es == hw.table.entries
        at[i \in 1 .. Len(es) + 1] ==
          IF i = 1 THEN HeaderSize ELSE at[i - 1] + EntrySize(es[i - 1])
    IN  at

-----------------------------------------------------------------------------

Masked == [masked |-> TRUE, vector |-> 0]
Unmasked(v) == [masked |-> FALSE, vector |-> v]

Init ==
    /\ hw \in Hardware
    /\ pc = "search"
    /\ addr = 0 /\ end = 0 /\ mp = 0 /\ p = 0
    /\ cpus = << >> /\ ioapic_id = 85 /\ lapic = FALSE
    /\ lvt = [r \in {"SVR", "TIMER", "LINT0", "LINT1", "PCINT", "ERROR"} |->
                IF r = "LINT0" THEN Unmasked(0) ELSE Masked]
    /\ gdt = [i \in 0 .. NSEGS - 1 |-> NewDesc]
    /\ pic = {}
    /\ redir = [i \in 0 .. hw.pins - 1 |-> [masked |-> TRUE, vector |-> 0, dest |-> 0]]
    /\ idt = [v \in 0 .. 255 |-> NewDesc]
    /\ devs = {}

Panic == pc' = "panic"

\* The EBDA if the BIOS data area names one, else the last KB of base memory.
Search ==
    /\ pc = "search"
    /\ addr' = IF hw.ebda THEN EbdaAt ELSE LastKbAt
    /\ end' = addr' + KB
    /\ pc' = "search1"
    /\ UNCHANGED <<hw, mp, p, found, tables>>

\* Mutant: any signature is taken, whatever its checksum.
VerifiedAny(a) == hw.mem[a] # "none"

\* Mp::verify. A "bad" structure has the signature and a wrong checksum, a "null" one
\* verifies and has no configuration table.
Verified(a) == hw.mem[a] \in {"mp", "null"}

Search1Next ==
    /\ pc = "search1"
    /\ addr < end /\ ~Verified(addr)
    /\ addr' = addr + 1
    /\ UNCHANGED <<hw, pc, end, mp, p, found, tables>>

Search1Found ==
    /\ pc = "search1"
    /\ addr < end /\ Verified(addr)
    /\ mp' = addr
    /\ pc' = "config"
    /\ UNCHANGED <<hw, addr, end, p, found, tables>>

\* or_else: the upper half of the ROM, once.
Search1End ==
    /\ pc = "search1"
    /\ addr = end
    /\ IF end # RomAt + ROM
       THEN addr' = RomAt /\ end' = RomAt + ROM /\ UNCHANGED pc
       ELSE Panic /\ UNCHANGED <<addr, end>>
    /\ UNCHANGED <<hw, mp, p, found, tables>>

\* get_conf and the version check of config().
Config ==
    /\ pc = "config"
    /\ IF hw.mem[mp] # "null" /\ hw.table.sum = 0 /\ hw.table.version \in {1, 4}
       THEN pc' = "entries" /\ p' = HeaderSize
       ELSE Panic /\ UNCHANGED p
    /\ UNCHANGED <<hw, addr, end, mp, found, tables>>

\* The entry that starts at p. Any other byte has no known type.
Entry ==
    LET es == hw.table.entries
        hit == {i \in 1 .. Len(es) : EntryAt[i] = p}
    IN  IF hit = {} THEN [ty |-> "other", id |-> 0] ELSE es[CHOOSE i \in hit : TRUE]

More == pc = "entries" /\ p < EntryAt[Len(hw.table.entries) + 1]

\* Mutant: init_new_cpu without its limit.
EntryProcNoLimit ==
    /\ More /\ Entry.ty = "proc"
    /\ cpus' = Append(cpus, Entry.id)
    /\ p' = p + 20
    /\ UNCHANGED <<hw, pc, addr, end, mp, ioapic_id, lapic, tables>>

\* init_new_cpu, or "cpu ignored" once there are MAX_NCPU. The flags are not looked at.
EntryProc ==
    /\ More /\ Entry.ty = "proc"
    /\ cpus' = IF Len(cpus) = MAX_NCPU THEN cpus ELSE Append(cpus, Entry.id)
    /\ p' = p + 20
    /\ UNCHANGED <<hw, pc, addr, end, mp, ioapic_id, lapic, tables>>

EntryIoApic ==
    /\ More /\ Entry.ty = "ioapic"
    /\ ioapic_id' = Entry.id
    /\ p' = p + 8
    /\ UNCHANGED <<hw, pc, addr, end, mp, cpus, lapic, tables>>

EntrySkip ==
    /\ More /\ Entry.ty \in {"bus", "iointr", "lintr"}
    /\ p' = p + 8
    /\ UNCHANGED <<hw, pc, addr, end, mp, found, tables>>

EntryOther ==
    /\ More /\ Entry.ty = "other"
    /\ Panic
    /\ UNCHANGED <<hw, searching, found, tables>>

MpDone ==
    /\ pc = "entries" /\ ~More
    /\ lapic' = TRUE
    /\ pic' = IF hw.imcr THEN {"imcr"} ELSE {}
    /\ pc' = "lapic"
    /\ UNCHANGED <<hw, searching, cpus, ioapic_id, lvt, gdt, redir, idt, devs>>

-----------------------------------------------------------------------------
(* The interrupt hardware *)

LapicInit ==
    /\ pc = "lapic"
    /\ lvt' = IF lapic
              THEN [lvt EXCEPT !["SVR"] = Unmasked(T_IRQ0 + IRQ.SPURIOUS),
                               !["TIMER"] = Unmasked(T_IRQ0 + IRQ.TIMER),
                               !["LINT0"] = Masked,
                               !["LINT1"] = Masked,
                               !["PCINT"] = IF hw.lvt >= 4 THEN Masked ELSE @,
                               !["ERROR"] = Unmasked(T_IRQ0 + IRQ.ERROR)]
              ELSE lvt
    /\ pc' = "seginit"
    /\ UNCHANGED <<hw, searching, found, gdt, pic, redir, idt, devs>>

AllOnes == [lo |-> 65535, hi |-> 65535]
ZeroBase == [lo |-> 0, hi |-> 0]

\* my_cpu() panics when the boot CPU is not among the processors found.
Seginit ==
    /\ pc = "seginit"
    /\ IF \E i \in 1 .. Len(cpus) : cpus[i] = Bsp
       THEN /\ gdt' = [gdt EXCEPT ![SEG_KCODE] = Seg(10, ZeroBase, AllOnes, 0),
                                  ![SEG_KDATA] = Seg(2, ZeroBase, AllOnes, 0),
                                  ![SEG_UCODE] = Seg(10, ZeroBase, AllOnes, USER),
                                  ![SEG_UDATA] = Seg(2, ZeroBase, AllOnes, USER)]
            /\ pc' = "pic"
       ELSE Panic /\ UNCHANGED gdt
    /\ UNCHANGED <<hw, searching, found, lvt, pic, redir, idt, devs>>

PicInit ==
    /\ pc = "pic"
    /\ pic' = pic \cup {"masked"}
    /\ pc' = "ioapic"
    /\ UNCHANGED <<hw, searching, found, lvt, gdt, redir, idt, devs>>

\* Every pin masked. An id that is not IOAPIC_ID is only logged.
IoapicInit ==
    /\ pc = "ioapic"
    /\ redir' = [i \in 0 .. hw.pins - 1 |->
                   [masked |-> TRUE, vector |-> T_IRQ0 + i, dest |-> 0]]
    /\ pc' = "console"
    /\ UNCHANGED <<hw, searching, found, lvt, gdt, pic, idt, devs>>

\* ioapic::enable. The destination field holds an APIC id.
Enable(irq, cpu_num) ==
    redir' = [redir EXCEPT ![irq] =
                [masked |-> FALSE, vector |-> T_IRQ0 + irq, dest |-> cpu_num % 256]]

ConsoleInit ==
    /\ pc = "console"
    /\ Enable(IRQ.KBD, 0)
    /\ devs' = devs \cup {"console"}
    /\ pc' = "uart"
    /\ UNCHANGED <<hw, searching, found, lvt, gdt, pic, idt>>

UartInit ==
    /\ pc = "uart"
    /\ IF hw.uart THEN Enable(IRQ.COM1, 0) /\ devs' = devs \cup {"uart"}
                  ELSE UNCHANGED <<redir, devs>>
    /\ pc' = "trap"
    /\ UNCHANGED <<hw, searching, found, lvt, gdt, pic, idt>>

TrapInit ==
    /\ pc = "trap"
    /\ idt' = [[v \in 0 .. 255 |-> Gate(FALSE, SEG_KCODE * 8, Vectors(v), 0)]
                 EXCEPT ![T_SYSCALL] = Gate(TRUE, SEG_KCODE * 8, Vectors(T_SYSCALL), USER)]
    /\ pc' = "ide"
    /\ UNCHANGED <<hw, searching, found, lvt, gdt, pic, redir, devs>>

\* Mutant: the CPU after the last one.
IdeInitPast ==
    /\ pc = "ide"
    /\ Enable(IRQ.IDE, Len(cpus))
    /\ devs' = IF hw.disk1 THEN devs \cup {"disk1"} ELSE devs
    /\ pc' = "done"
    /\ UNCHANGED <<hw, searching, found, lvt, gdt, pic, idt>>

\* ide::init: the last CPU takes the disk's interrupts.
IdeInit ==
    /\ pc = "ide"
    /\ Enable(IRQ.IDE, Len(cpus) - 1)
    /\ devs' = IF hw.disk1 THEN devs \cup {"disk1"} ELSE devs
    /\ pc' = "done"
    /\ UNCHANGED <<hw, searching, found, lvt, gdt, pic, idt>>

Next ==
    \/ Search \/ Search1Next \/ Search1Found \/ Search1End \/ Config
    \/ EntryProc \/ EntryIoApic \/ EntrySkip \/ EntryOther \/ MpDone
    \/ LapicInit \/ Seginit \/ PicInit \/ IoapicInit
    \/ ConsoleInit \/ UartInit \/ TrapInit \/ IdeInit

Spec == Init /\ [][Next]_vars

-----------------------------------------------------------------------------
(* Properties *)

\* Every variable has its type, and p and addr stay inside what they walk over.
TypeOK ==
    /\ pc \in {"search", "search1", "config", "entries", "lapic", "seginit", "pic", "ioapic",
               "console", "uart", "trap", "ide", "done", "panic"}
    /\ addr \in 0 .. 2 * (KB + ROM) /\ end \in 0 .. 2 * (KB + ROM)
    /\ pc = "search1" => addr <= end
    /\ mp \in Paragraphs
    /\ p \in 0 .. EntryAt[Len(hw.table.entries) + 1]
    /\ Len(cpus) <= MAX_NCPU /\ ioapic_id \in Nat
    /\ lapic \in BOOLEAN /\ pic \subseteq {"imcr", "masked"}
    /\ \A i \in DOMAIN gdt : gdt[i] \in [f1lo : Half, f1hi : Half, f2lo : Half, f2hi : Half]
    /\ DOMAIN idt = 0 .. 255

\* What search() and config() may find: the first structure that verifies, in the KB the
\* BIOS data area leads to and then in the upper half of the ROM, and its table. The places
\* are the ones the code looks at; FoundWhereDocumented is about the ones its comment names.
FirstKb == IF hw.ebda THEN EbdaAt .. EbdaAt + KB - 1 ELSE LastKbAt .. LastKbAt + KB - 1
InKb == {a \in FirstKb : hw.mem[a] \in {"mp", "null"}}
InRom == {a \in RomAt .. RomAt + ROM - 1 : hw.mem[a] \in {"mp", "null"}}
Candidates == IF InKb # {} THEN InKb ELSE InRom
GoodTable ==
    /\ hw.table.sum = 0 /\ hw.table.version \in {1, 4}
    /\ \A i \in DOMAIN hw.table.entries : hw.table.entries[i].ty # "other"
Usable ==
    /\ Candidates # {}
    /\ hw.mem[CHOOSE a \in Candidates : \A b \in Candidates : a <= b] = "mp"
    /\ GoodTable

\* The entries of type ty among the first ones of the table es.
ListedTo(es, ty) ==
    LET upto[i \in 0 .. Len(es)] ==
          IF i = 0 THEN << >> ELSE IF es[i].ty = ty THEN Append(upto[i - 1], es[i]) ELSE upto[i - 1]
    IN  upto
Listed(ty) == ListedTo(hw.table.entries, ty)[Len(hw.table.entries)]
Known == SubSeq(Listed("proc"), 1, IF Len(Listed("proc")) < MAX_NCPU THEN Len(Listed("proc"))
                                                                     ELSE MAX_NCPU)

\* mp::init finds exactly the first MAX_NCPU processors of the table, in its order, and the
\* last I/O APIC; main() gets past lapic::init only then, and panics only on a machine without
\* a usable table where search() looks, or one whose boot CPU is not among those processors.
CpusFound ==
    /\ pc = "panic" => ~Usable \/ \A i \in 1 .. Len(Known) : Known[i].id # Bsp
    /\ lapic => /\ Usable
                /\ cpus = [i \in 1 .. Len(Known) |-> Known[i].id]
                /\ ioapic_id = IF Listed("ioapic") = << >> THEN 85
                               ELSE Listed("ioapic")[Len(Listed("ioapic"))].id

\* The three places of the comment on search(): the first KB of the EBDA, the last KB of
\* base memory, and the ROM from 0xE0000 to 0xFFFFF.
DocumentedPlaces ==
    (IF hw.ebda THEN EbdaAt .. EbdaAt + KB - 1 ELSE {})
      \cup (LastKbAt .. LastKbAt + KB - 1) \cup (2 * KB .. 2 * (KB + ROM) - 1)

\* What that comment promises: on a machine with a floating pointer structure in one of the
\* three places, none with a null table there, and a good table that lists the boot CPU,
\* main() does not panic. The code looks at the last KB only where there is no EBDA, and at
\* the upper half of the ROM only.
FoundWhereDocumented ==
    /\ \E a \in DocumentedPlaces : hw.mem[a] = "mp"
    /\ \A a \in DocumentedPlaces : hw.mem[a] # "null"
    /\ GoodTable /\ \E i \in 1 .. Len(Known) : Known[i].id = Bsp
    => pc # "panic"

\* The interrupt lines that are open once main() has set the hardware up.
OpenVectors ==
    {lvt[r].vector : r \in {s \in DOMAIN lvt : ~lvt[s].masked}}
      \cup {redir[i].vector : i \in {j \in DOMAIN redir : ~redir[j].masked}}

\* A present interrupt gate (it clears IF) that leads to the entry of vector v.
LeadsTo(g, v) == g.p = 1 /\ g.type = 14 /\ g.offset = Vectors(v)

\* A present 32-bit ring-0 code segment over the whole address space: its limit counts
\* pages (G) and it is not a 64-bit one (D/B set, L clear).
FlatCode(s) ==
    /\ s.p = 1 /\ s.s = 1 /\ s.type \div 8 = 1 /\ s.dpl = 0 /\ s.flags \div 2 = 6
    /\ s.base = ZeroBase /\ s.limit = [lo |-> 65535, hi |-> 15]

\* Vector v is above the processor's exceptions, and its gate and the segment that the gate
\* selects are sound.
Lands(v) ==
    LET g == GateFields(idt[v])
    IN  v > 31 /\ LeadsTo(g, v) /\ FlatCode(SegFields(gdt[g.selector \div 8]))

\* The lines that main() opens.
Opened ==
    {"TIMER", "ERROR", "SPURIOUS", "KBD", "IDE"} \cup IF hw.uart THEN {"COM1"} ELSE {}

\* Every open pin of the I/O APIC is sent to a processor of the table.
DestinationsFound ==
    \A i \in DOMAIN redir : ~redir[i].masked => \E j \in DOMAIN cpus : cpus[j] = redir[i].dest

\* After fs::init each open interrupt line has a vector of its own outside the processor's
\* exceptions, whose gate clears IF and leads to that vector's entry through a present flat
\* ring-0 code segment; the 8259As and LINT0 cannot interrupt; and where APIC ids are
\* contiguous, as ioapic::enable takes them to be, a CPU that was found gets each device's.
InterruptsLand ==
    pc = "done" =>
      /\ "masked" \in pic /\ lvt["LINT0"].masked
      /\ OpenVectors = {T_IRQ0 + IRQ[n] : n \in Opened}
      /\ \A v \in OpenVectors : Lands(v)
      /\ (\A i \in DOMAIN cpus : cpus[i] = i - 1) => DestinationsFound
=============================================================================
