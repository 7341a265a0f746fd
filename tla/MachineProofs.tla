----------------------------- MODULE MachineProofs -----------------------------
(***************************************************************************)
(* What the processor reads from a descriptor is what the kernel packed    *)
(* into it, for all arguments. The setters mask and shift; here that is    *)
(* division by powers of two. On every machine, whatever its tables list,  *)
(* the interrupt hardware fits together once main() has set it up. The     *)
(* invariant follows main(): what each call has established holds from its *)
(* program point on. The second half is about mp::init: the search stops   *)
(* at the first structure that verifies, and the loop over the table has   *)
(* read exactly its first entries, by induction over their offsets.        *)
(***************************************************************************)
EXTENDS Machine, SequenceTheorems, WellFoundedInduction, TLAPS

\* Dividing by 256, the shift by one byte of the setters.
LEMMA Div256 ==
    ASSUME NEW q \in Int, NEW r \in Int, 0 <= r, r < 256
    PROVE  (256 * q + r) \div 256 = q
OBVIOUS

\* Dividing by 16, the shift by one hexadecimal digit.
LEMMA Div16 ==
    ASSUME NEW q \in Int, NEW r \in Int, 0 <= r, r < 16
    PROVE  (16 * q + r) \div 16 = q /\ (16 * q + r) % 16 = r
<1>1. (16 * q + r) \div 16 = q
  OBVIOUS
<1>2. (16 * q + r) % 16 = r
  OBVIOUS
<1>3. QED BY <1>1, <1>2

\* A word is its high part and its low byte.
LEMMA Split256 ==
    ASSUME NEW b \in Int
    PROVE  /\ b \div 256 \in Int
           /\ b % 256 \in Int /\ 0 <= b % 256 /\ b % 256 < 256
           /\ b = 256 * (b \div 256) + (b % 256)
<1>1. b \div 256 \in Int
  OBVIOUS
<1>2. b % 256 \in Int /\ 0 <= b % 256 /\ b % 256 < 256
  OBVIOUS
<1>3. b = 256 * (b \div 256) + (b % 256)
  OBVIOUS
<1>4. QED BY <1>1, <1>2, <1>3

-----------------------------------------------------------------------------
(* What the setters leave in the words. *)

Access(ty, dpl, s) == 128 + 16 * s + (dpl % 4) * 32 + ty
PackedLow(b, access) == (((0 - (0 % 256)) + b) % 256) + access * 256
PackedHigh(b, l, f) ==
    LET h1 == (0 % 256) + (b - (b % 256))
        h2 == (h1 - (h1 % 16)) + (l % 16)
    IN  (h2 - ((h2 \div 16) % 16) * 16) + (f % 16) * 16

LowIs(l, b, ty, dpl, s) ==
    /\ l % 256 = b
    /\ (l \div 256) % 16 = ty
    /\ (l \div 4096) % 2 = s
    /\ (l \div 8192) % 4 = dpl
    /\ l \div 32768 = 1
HighIs(h, b, l, f) ==
    /\ h % 16 = l % 16
    /\ (h \div 16) % 16 = f
    /\ (h \div 256) * 256 = b - (b % 256)
SegIs(d, base, limit, ty, s, dpl, f) ==
    SegFields(d) = [base |-> base, limit |-> [lo |-> limit.lo, hi |-> limit.hi % 16],
                    type |-> ty, s |-> s, dpl |-> dpl, p |-> 1, flags |-> f]
Digit == 0..15
Bit == {0, 1}

\* The access byte of seg(), tss() and a gate, S being 1 or 0, above a low byte b.
LEMMA AccessBits ==
    ASSUME NEW ty \in 0..15, NEW dpl \in 0..3, NEW s \in {0, 1},
           NEW b \in Int, 0 <= b, b < 256
    PROVE  LowIs(PackedLow(b, Access(ty, dpl, s)), b, ty, dpl, s)
<1>1. dpl \in {0, 1, 2, 3}
  OBVIOUS
<1>2. CASE dpl = 0 BY <1>2 DEF PackedLow, Access, LowIs
<1>3. CASE dpl = 1 BY <1>3 DEF PackedLow, Access, LowIs
<1>4. CASE dpl = 2 BY <1>4 DEF PackedLow, Access, LowIs
<1>5. CASE dpl = 3 BY <1>5 DEF PackedLow, Access, LowIs
<1>6. QED BY <1>1, <1>2, <1>3, <1>4, <1>5

\* Bits 16 to 19 of the limit, the flags and bits 24 to 31 of the base share a half.
LEMMA HighBits ==
    ASSUME NEW b \in Int, NEW l \in Int, NEW f \in Digit
    PROVE  HighIs(PackedHigh(b, l, f), b, l, f)
<1> DEFINE m == l % 16
<1>0. m \in Int /\ 0 <= m /\ m < 16
  OBVIOUS
<1>1. PICK q \in Int : b - (b % 256) = 256 * q
  BY Split256
<1>2. 0 % 256 = 0 /\ f % 16 = f /\ f \in Int /\ 0 <= f /\ f < 16
  BY DEF Digit
<1> DEFINE h1 == (0 % 256) + (b - (b % 256))
           h2 == (h1 - (h1 % 16)) + m
           h3 == (h2 - ((h2 \div 16) % 16) * 16) + (f % 16) * 16
           h  == 16 * (16 * q + f) + m
<1>3. PackedHigh(b, l, f) = h3
  BY DEF PackedHigh
<1> HIDE DEF m
<1>4. (16 * (16 * q) + 0) % 16 = 0
  <2>1. 16 * q \in Int
    BY <1>1
  <2>2. QED BY <2>1, Div16
<1>5. (16 * (16 * q) + m) \div 16 = 16 * q
  <2>1. 16 * q \in Int
    BY <1>1
  <2>2. QED BY <1>0, <2>1, Div16
<1>6. (16 * q + 0) % 16 = 0
  BY <1>1, Div16
<1>7. h1 = 16 * (16 * q)
  BY <1>1, <1>2
<1>8. h2 = 16 * (16 * q) + m
  <2> HIDE DEF h1
  <2> QED BY <1>0, <1>1, <1>4, <1>7
<1>9. h3 = h
  <2> HIDE DEF h2
  <2>1. (h2 \div 16) % 16 = 0
    BY <1>1, <1>5, <1>6, <1>8
  <2>2. QED BY <1>0, <1>1, <1>2, <1>8, <2>1
<1>10. h % 16 = m /\ h \div 16 = 16 * q + f
  <2>1. 16 * q + f \in Int
    BY <1>1, <1>2
  <2>2. QED BY <1>0, <2>1, Div16
<1>11. (16 * q + f) % 16 = f
  BY <1>1, <1>2, Div16
<1>12. h \div 256 = q
  <2> DEFINE r == f * 16 + m
  <2>1. r \in Int /\ 0 <= r /\ r < 256 /\ h = 256 * q + r
    BY <1>0, <1>1, <1>2
  <2> HIDE DEF h, r
  <2>2. QED BY <1>1, <2>1, Div256
<1>13. QED
  <2> HIDE DEF h, h3
  <2> QED BY <1>1, <1>3, <1>9, <1>10, <1>11, <1>12 DEF m, HighIs

\* The chain of setters of seg() and tss() on a zeroed descriptor.
LEMMA Packed ==
    ASSUME NEW base \in Word, NEW limit \in Word, NEW access, NEW f
    PROVE  SetFlags(SetAccessByte(SetLim(SetBase(NewDesc, base), limit), access), f) =
             [f1lo |-> limit.lo, f1hi |-> base.lo,
              f2lo |-> PackedLow(base.hi % 256, access),
              f2hi |-> PackedHigh(base.hi, limit.hi, f)]
<1> DEFINE h1 == (0 % 256) + (base.hi - (base.hi % 256))
           h2 == (h1 - (h1 % 16)) + (limit.hi % 16)
           l1 == (0 - (0 % 256)) + (base.hi % 256)
           l2 == (l1 % 256) + access * 256
           h3 == (h2 - ((h2 \div 16) % 16) * 16) + (f % 16) * 16
           d1 == [f1lo |-> 0, f1hi |-> base.lo, f2lo |-> l1, f2hi |-> h1]
           d2 == [f1lo |-> limit.lo, f1hi |-> base.lo, f2lo |-> l1, f2hi |-> h2]
           d3 == [f1lo |-> limit.lo, f1hi |-> base.lo, f2lo |-> l2, f2hi |-> h2]
           d4 == [f1lo |-> limit.lo, f1hi |-> base.lo, f2lo |-> l2, f2hi |-> h3]
<1>1. SetBase(NewDesc, base) = d1
  BY DEF SetBase, NewDesc
<1>2. SetLim(d1, limit) = d2
  <2> HIDE DEF h1, l1
  <2> QED BY DEF SetLim
<1>3. SetAccessByte(d2, access) = d3
  <2> HIDE DEF h2, l1
  <2> QED BY DEF SetAccessByte
<1>4. SetFlags(d3, f) = d4
  <2> HIDE DEF h2, l2
  <2> QED BY DEF SetFlags
<1>5. SetFlags(SetAccessByte(SetLim(SetBase(NewDesc, base), limit), access), f) = d4
  <2> HIDE DEF d1, d2, d3, d4
  <2> QED BY <1>1, <1>2, <1>3, <1>4
<1>6. PackedLow(base.hi % 256, access) = l2 /\ PackedHigh(base.hi, limit.hi, f) = h3
  BY DEF PackedLow, PackedHigh
<1>7. QED
  <2> HIDE DEF l2, h3
  <2> QED BY <1>5, <1>6

\* The fields the processor reads from the packed words.
LEMMA Unpacked ==
    ASSUME NEW base \in Word, NEW limit \in Word, NEW ty \in 0..15, NEW dpl \in 0..3,
           NEW s \in Bit, NEW f \in Digit
    PROVE  SegIs(SetFlags(SetAccessByte(SetLim(SetBase(NewDesc, base), limit),
                                        Access(ty, dpl, s)), f),
                 base, limit, ty, s, dpl, f)
<1> DEFINE h == PackedHigh(base.hi, limit.hi, f)
           l == PackedLow(base.hi % 256, Access(ty, dpl, s))
           d == [f1lo |-> limit.lo, f1hi |-> base.lo, f2lo |-> l, f2hi |-> h]
<1>1. base.hi \in Int /\ limit.hi \in Int
  BY DEF Word, Half
<1>2. base.hi % 256 \in Int /\ 0 <= base.hi % 256 /\ base.hi % 256 < 256
  BY <1>1, Split256
<1>3. SetFlags(SetAccessByte(SetLim(SetBase(NewDesc, base), limit), Access(ty, dpl, s)), f) = d
  BY Packed
<1>4. h % 16 = limit.hi % 16 /\ (h \div 16) % 16 = f
      /\ (h \div 256) * 256 = base.hi - (base.hi % 256)
  <2>1. HighIs(h, base.hi, limit.hi, f)
    BY <1>1, HighBits
  <2> HIDE DEF h
  <2>2. QED BY <2>1 DEF HighIs
<1>5. l % 256 = base.hi % 256 /\ (l \div 256) % 16 = ty /\ (l \div 4096) % 2 = s
      /\ (l \div 8192) % 4 = dpl /\ l \div 32768 = 1
  <2>1. LowIs(l, base.hi % 256, ty, dpl, s)
    BY <1>2, AccessBits, SMT DEF Bit
  <2> HIDE DEF l
  <2>2. QED BY <2>1, SMT DEF LowIs
<1> HIDE DEF h, l
<1>6. (h \div 256) * 256 + (l % 256) = base.hi
  <2>1. (base.hi - (base.hi % 256)) + (base.hi % 256) = base.hi
    BY <1>1, <1>2
  <2>2. QED BY <1>4, <1>5, <2>1
<1>7. [lo |-> base.lo, hi |-> base.hi] = base
  BY DEF Word
<1>8. SegFields(d) = [base |-> base, limit |-> [lo |-> limit.lo, hi |-> limit.hi % 16],
                      type |-> ty, s |-> s, dpl |-> dpl, p |-> 1, flags |-> f]
  BY <1>4, <1>5, <1>6, <1>7 DEF SegFields
<1>9. QED
  <2> HIDE DEF d
  <2> QED BY <1>3, <1>8 DEF SegIs

-----------------------------------------------------------------------------

\* A segment made by SegDesc::seg is present, has 4 KiB granularity, and has the base,
\* the type and the privilege it was given and the page number of its limit.
THEOREM SegExact ==
    ASSUME NEW ty \in 0..15, NEW base \in Word, NEW lim \in Word, NEW dpl \in 0..3
    PROVE  SegFields(Seg(ty, base, lim, dpl)) =
             [base |-> base, limit |-> Shr12(lim),
              type |-> ty, s |-> 1, dpl |-> dpl, p |-> 1, flags |-> 12]
<1> DEFINE x == lim.lo
           y == lim.hi
           w == Shr12(lim)
<1>1. x \in Int /\ 0 <= x /\ x < 65536 /\ y \in Int /\ 0 <= y /\ y < 65536
  BY DEF Word, Half
<1>2. w = [lo |-> (y % 4096) * 16 + (x \div 4096), hi |-> y \div 4096]
  BY DEF Shr12
<1> HIDE DEF x, y, w
<1>3. x \div 4096 \in Int /\ 0 <= x \div 4096 /\ x \div 4096 < 16
  BY <1>1
<1>4. y \div 4096 \in Int /\ 0 <= y \div 4096 /\ y \div 4096 < 16
  BY <1>1
<1>5. y % 4096 \in Int /\ 0 <= y % 4096 /\ y % 4096 < 4096
  BY <1>1
<1>6. w \in Word
  BY <1>2, <1>3, <1>4, <1>5 DEF Word, Half
<1>7. [lo |-> w.lo, hi |-> w.hi % 16] = w
  <2>1. w.hi \in Int /\ 0 <= w.hi /\ w.hi < 16
    BY <1>2, <1>4
  <2>2. w.hi % 16 = w.hi
    BY <2>1
  <2>3. QED BY <1>6, <2>2 DEF Word
<1>8. 144 + (dpl % 4) * 32 + ty = Access(ty, dpl, 1)
  BY DEF Access
<1>9. Seg(ty, base, lim, dpl) =
        SetFlags(SetAccessByte(SetLim(SetBase(NewDesc, base), w), Access(ty, dpl, 1)), 12)
  BY <1>8, Zenon DEF Seg, w
<1>10. 1 \in Bit /\ 12 \in Digit
  BY DEF Bit, Digit
<1>11. SegIs(Seg(ty, base, lim, dpl), base, w, ty, 1, dpl, 12)
  BY <1>6, <1>9, <1>10, Unpacked
<1>12. QED
  BY <1>7, <1>11, Zenon DEF w, SegIs

\* A descriptor made by SegDesc::tss is a present system segment with a byte limit.
THEOREM TssExact ==
    ASSUME NEW ty \in 0..15, NEW base \in Word, NEW lim \in Word, lim.hi < 16,
           NEW dpl \in 0..3
    PROVE  SegFields(Tss(ty, base, lim, dpl)) =
             [base |-> base, limit |-> lim,
              type |-> ty, s |-> 0, dpl |-> dpl, p |-> 1, flags |-> 4]
<1>1. [lo |-> lim.lo, hi |-> lim.hi % 16] = lim
  <2>1. lim.hi \in Int /\ 0 <= lim.hi
    BY DEF Word, Half
  <2>2. lim.hi % 16 = lim.hi
    BY <2>1
  <2>3. QED BY <2>2 DEF Word
<1>2. 128 + (dpl % 4) * 32 + ty = Access(ty, dpl, 0)
  BY DEF Access
<1>3. Tss(ty, base, lim, dpl) =
        SetFlags(SetAccessByte(SetLim(SetBase(NewDesc, base), lim), Access(ty, dpl, 0)), 4)
  BY <1>2, Zenon DEF Tss
<1>4. 0 \in Bit /\ 4 \in Digit
  BY DEF Bit, Digit
<1>5. SegIs(Tss(ty, base, lim, dpl), base, lim, ty, 0, dpl, 4)
  BY <1>3, <1>4, Unpacked
<1>6. QED
  BY <1>1, <1>5, Zenon DEF SegIs

\* A gate made by GateDesc::set is present, leads to the handler and the code segment it
\* was given, and is a trap gate exactly when it was asked to be one.
THEOREM GateExact ==
    ASSUME NEW is_trap \in BOOLEAN, NEW selector \in Half, NEW offset \in Word,
           NEW dpl \in 0..3
    PROVE  GateFields(Gate(is_trap, selector, offset, dpl)) =
             [offset |-> offset, selector |-> selector, type |-> IF is_trap THEN 15 ELSE 14,
              s |-> 0, dpl |-> dpl, p |-> 1]
<1> DEFINE t == IF is_trap THEN 15 ELSE 14
           a == 128 + (dpl % 4) * 32 + t
           h == (0 % 256) + a * 256
           d1 == [f1lo |-> offset.lo, f1hi |-> 0, f2lo |-> 0, f2hi |-> offset.hi]
           d2 == [f1lo |-> offset.lo, f1hi |-> selector, f2lo |-> 0, f2hi |-> offset.hi]
           d3 == [f1lo |-> offset.lo, f1hi |-> selector, f2lo |-> h, f2hi |-> offset.hi]
<1>1. SetOffset(NewDesc, offset) = d1
  BY DEF SetOffset, NewDesc
<1>2. SetSelector(d1, selector) = d2
  BY DEF SetSelector
<1>3. SetTypeAttribute(d2, a) = d3
  <2> HIDE DEF a
  <2> QED BY DEF SetTypeAttribute
<1>4. Gate(is_trap, selector, offset, dpl) = d3
  <2>1. Gate(is_trap, selector, offset, dpl) =
          SetTypeAttribute(SetSelector(SetOffset(NewDesc, offset), selector), a)
    BY DEF Gate
  <2> HIDE DEF a, d1, d2, d3
  <2> QED BY <2>1, <1>1, <1>2, <1>3
<1>5. t \in 0..15
  OBVIOUS
<1>6. (h \div 256) % 16 = t /\ (h \div 4096) % 2 = 0 /\ (h \div 8192) % 4 = dpl
      /\ h \div 32768 = 1
  <2> HIDE DEF t
  <2>1. h = PackedLow(0, Access(t, dpl, 0))
    BY <1>5 DEF PackedLow, Access
  <2> HIDE DEF h
  <2>2. LowIs(h, 0, t, dpl, 0)
    BY <1>5, <2>1, AccessBits
  <2>3. QED BY <2>2, SMT DEF LowIs
<1>7. [lo |-> offset.lo, hi |-> offset.hi] = offset
  BY DEF Word
<1>8. GateFields(d3) = [offset |-> offset, selector |-> selector, type |-> t,
                        s |-> 0, dpl |-> dpl, p |-> 1]
  <2> HIDE DEF h, t
  <2> QED BY <1>6, <1>7 DEF GateFields
<1>9. QED
  <2> HIDE DEF d3
  <2> QED BY <1>4, <1>8

-----------------------------------------------------------------------------

Regs == {"SVR", "TIMER", "LINT0", "LINT1", "PCINT", "ERROR"}
Line == [masked : BOOLEAN, vector : Nat]
Pin == [masked : BOOLEAN, vector : Nat, dest : Nat]
Late == {"seginit", "pic", "ioapic", "console", "uart", "trap", "ide", "done"}

\* The pins that are open before the step at pc.
On ==
    (IF pc \in {"uart", "trap", "ide", "done"} THEN {1} ELSE {})
      \cup (IF pc \in {"trap", "ide", "done"} /\ hw.uart THEN {4} ELSE {})
      \cup (IF pc = "done" THEN {14} ELSE {})

Shapes ==
    /\ hw \in Hardware
    /\ cpus \in Seq(Nat) /\ Len(cpus) <= MAX_NCPU
    /\ lvt \in [Regs -> Line] /\ lvt["PCINT"] = Masked
    /\ DOMAIN gdt = 0 .. NSEGS - 1
    /\ redir \in [0 .. hw.pins - 1 -> Pin]
    /\ pc = "lapic" => lapic

Routed ==
    \A i \in 0 .. hw.pins - 1 :
      /\ redir[i].masked <=> i \notin On
      /\ i \in On => redir[i].vector = T_IRQ0 + i
      /\ i \in On => redir[i].dest = IF i = 14 THEN Len(cpus) - 1 ELSE 0

LinesSet ==
    /\ lvt["SVR"] = Unmasked(63) /\ lvt["TIMER"] = Unmasked(32) /\ lvt["ERROR"] = Unmasked(51)
    /\ lvt["LINT0"] = Masked /\ lvt["LINT1"] = Masked

CodeSet == gdt[SEG_KCODE] = Seg(10, ZeroBase, AllOnes, 0)

GatesSet ==
    \A v \in 0 .. 255 : v # T_SYSCALL => idt[v] = Gate(FALSE, SEG_KCODE * 8, Vectors(v), 0)

Established ==
    /\ pc \in Late => LinesSet
    /\ pc \in Late \ {"seginit"} => CodeSet /\ Len(cpus) >= 1
    /\ pc \in Late \ {"seginit", "pic"} => "masked" \in pic
    /\ pc \in Late \ {"seginit", "pic", "ioapic"} => Routed
    /\ pc \in {"ide", "done"} => GatesSet

Inv == Shapes /\ Established

-----------------------------------------------------------------------------

\* A step that leaves the tables alone leaves what was set in them.
LEMMA Frame ==
    /\ lvt' = lvt => (LinesSet' <=> LinesSet)
    /\ gdt' = gdt => (CodeSet' <=> CodeSet)
    /\ idt' = idt => (GatesSet' <=> GatesSet)
<1>1. lvt' = lvt => (LinesSet' <=> LinesSet)
  BY Zenon DEF LinesSet
<1>2. gdt' = gdt => (CodeSet' <=> CodeSet)
  BY Zenon DEF CodeSet
<1>3. idt' = idt => (GatesSet' <=> GatesSet)
  BY Zenon DEF GatesSet
<1>. QED BY <1>1, <1>2, <1>3

\* An entry of the table, or the one that stands for a byte of no known type, has an id.
LEMMA EntryId == ASSUME hw \in Hardware PROVE Entry.id \in Nat
<1> DEFINE es == hw.table.entries
           hit == {i \in 1 .. Len(es) : EntryAt[i] = p}
           k == CHOOSE i \in hit : TRUE
<1>1. es \in Seq(MpEntry)
  BY HardwareAssumption
<1>2. CASE hit = {}
  BY <1>2 DEF Entry
<1>3. CASE hit # {}
  <2>1. k \in hit
    BY <1>3
  <2>2. k \in 1 .. Len(es)
    BY <2>1
  <2>3. Entry = es[k]
    BY <1>3 DEF Entry
  <2>. HIDE DEF es, k
  <2>4. es[k] \in MpEntry
    BY <1>1, <2>2
  <2>. QED BY <2>3, <2>4 DEF MpEntry
<1>. QED BY <1>2, <1>3

\* The steps of mp::init.
LEMMA FindingStep ==
    ASSUME Inv,
           \/ Search \/ Search1Next \/ Search1Found \/ Search1End \/ Config
           \/ EntryProc \/ EntryIoApic \/ EntrySkip \/ EntryOther \/ MpDone
    PROVE  Inv'
<1>1. pc \notin Late /\ pc' \notin Late
  BY DEF Search, Search1Next, Search1Found, Search1End, Config, EntryProc, EntryIoApic,
         EntrySkip, EntryOther, MpDone, More, Panic, Late
<1>2. Established'
  BY <1>1 DEF Established, Late
<1>3. UNCHANGED <<hw, lvt, gdt, redir>>
  BY DEF Search, Search1Next, Search1Found, Search1End, Config, EntryProc, EntryIoApic,
         EntrySkip, EntryOther, MpDone, tables
<1>4. cpus' \in Seq(Nat) /\ Len(cpus') <= MAX_NCPU
  <2>1. CASE EntryProc
    <3>1. cpus' = cpus \/ (Len(cpus) # MAX_NCPU /\ cpus' = Append(cpus, Entry.id))
      BY <2>1 DEF EntryProc
    <3>2. Entry.id \in Nat
      BY EntryId DEF Inv, Shapes
    <3>3. cpus \in Seq(Nat) /\ Len(cpus) \in Nat /\ Len(cpus) <= MAX_NCPU
      BY DEF Inv, Shapes
    <3>4. Append(cpus, Entry.id) \in Seq(Nat) /\ Len(Append(cpus, Entry.id)) = Len(cpus) + 1
      BY <3>2, <3>3
    <3>5. Len(cpus) # MAX_NCPU => Len(cpus) + 1 <= MAX_NCPU
      BY <3>3, SizesAssumption
    <3>. QED BY <3>1, <3>3, <3>4, <3>5
  <2>2. CASE ~EntryProc
    <3>1. cpus' = cpus
      BY <2>2 DEF Search, Search1Next, Search1Found, Search1End, Config, EntryIoApic,
                  EntrySkip, EntryOther, MpDone, found
    <3>. QED BY <3>1 DEF Inv, Shapes
  <2>. QED BY <2>1, <2>2
<1>5. pc' = "lapic" => lapic'
  BY DEF Search, Search1Next, Search1Found, Search1End, Config, EntryProc, EntryIoApic,
         EntrySkip, EntryOther, MpDone, More, Panic
<1>. QED BY <1>2, <1>3, <1>4, <1>5 DEF Inv, Shapes

\* lapic::init and seginit.
LEMMA CpuSetupStep ==
    ASSUME Inv, LapicInit \/ Seginit PROVE Inv'
<1>1. CASE LapicInit
  <2>1. pc = "lapic" /\ pc' = "seginit" /\ lapic /\ UNCHANGED <<hw, cpus, gdt, redir>>
    BY <1>1 DEF LapicInit, Inv, Shapes, found
  <2>2. lvt' = [lvt EXCEPT !["SVR"] = Unmasked(63), !["TIMER"] = Unmasked(32),
                           !["LINT0"] = Masked, !["LINT1"] = Masked,
                           !["PCINT"] = Masked, !["ERROR"] = Unmasked(51)]
    BY <1>1, <2>1 DEF LapicInit, T_IRQ0, IRQ, Inv, Shapes, Regs
  <2>3. \A v \in Nat : Unmasked(v) \in Line
    BY DEF Unmasked, Line
  <2>4. Masked \in Line
    BY DEF Masked, Line
  <2>5. lvt' \in [Regs -> Line] /\ lvt'["PCINT"] = Masked
    BY <2>2, <2>3, <2>4 DEF Inv, Shapes, Regs
  <2>6. LinesSet'
    BY <2>2 DEF Inv, Shapes, Regs, LinesSet
  <2>7. Shapes'
    BY <2>1, <2>5 DEF Inv, Shapes
  <2>8. Established'
    BY <2>1, <2>6 DEF Established, Late
  <2>. QED BY <2>7, <2>8 DEF Inv
<1>2. CASE Seginit
  <2>1. pc = "seginit" /\ UNCHANGED <<hw, cpus, lvt, redir>>
    BY <1>2 DEF Seginit, found
  <2>2. CASE pc' = "panic"
    <3>1. gdt' = gdt
      BY <1>2, <2>2 DEF Seginit, Panic
    <3>. QED BY <2>1, <2>2, <3>1 DEF Inv, Shapes, Established, Late
  <2>3. CASE pc' # "panic"
    <3>1. pc' = "pic" /\ \E i \in 1 .. Len(cpus) : cpus[i] = Bsp
      BY <1>2, <2>3 DEF Seginit, Panic
    <3>2. Len(cpus) >= 1
      BY <3>1 DEF Inv, Shapes
    <3>3. DOMAIN gdt' = 0 .. NSEGS - 1 /\ CodeSet'
      BY <1>2, <2>3 DEF Seginit, Panic, Inv, Shapes, NSEGS, SEG_KCODE, SEG_KDATA, SEG_UCODE,
                        SEG_UDATA, CodeSet
    <3>. QED BY <2>1, <3>1, <3>2, <3>3, Frame DEF Inv, Shapes, Established, Late
  <2>. QED BY <2>2, <2>3
<1>. QED BY <1>1, <1>2

\* What ioapic::enable does to a pin the I/O APIC has.
LEMMA EnablePin ==
    ASSUME Shapes, NEW irq \in {1, 4, 14}, NEW cpu_num \in Nat, cpu_num < 256,
           Enable(irq, cpu_num), UNCHANGED hw
    PROVE  /\ redir' \in [0 .. hw.pins - 1 -> Pin]
           /\ redir'[irq] = [masked |-> FALSE, vector |-> T_IRQ0 + irq, dest |-> cpu_num]
           /\ \A i \in 0 .. hw.pins - 1 : i # irq => redir'[i] = redir[i]
<1> DEFINE pin == [masked |-> FALSE, vector |-> T_IRQ0 + irq, dest |-> cpu_num]
<1>1. irq \in 0 .. hw.pins - 1
  BY HardwareAssumption DEF Shapes
<1>2. cpu_num % 256 = cpu_num
  OBVIOUS
<1>3. pin \in Pin
  BY DEF Pin, T_IRQ0
<1>4. redir' = [redir EXCEPT ![irq] = pin]
  BY <1>2, Zenon DEF Enable
<1>. HIDE DEF pin
<1>5. /\ redir' \in [0 .. hw.pins - 1 -> Pin] /\ redir'[irq] = pin
      /\ \A i \in 0 .. hw.pins - 1 : i # irq => redir'[i] = redir[i]
  BY <1>1, <1>3, <1>4 DEF Shapes
<1>. QED BY <1>5 DEF pin

\* The interrupt controllers and the IDT.
LEMMA ControllersStep ==
    ASSUME Inv, PicInit \/ IoapicInit \/ TrapInit PROVE Inv'
<1>1. CASE PicInit
  <2>1. pc = "pic" /\ pc' = "ioapic" /\ UNCHANGED <<hw, cpus, lvt, gdt, redir>> /\ "masked" \in pic'
    BY <1>1 DEF PicInit, found
  <2>. QED BY <2>1, Frame DEF Inv, Shapes, Established, Late
<1>2. CASE IoapicInit
  <2>1. pc = "ioapic" /\ pc' = "console" /\ UNCHANGED <<hw, cpus, lvt, gdt, pic, idt>>
    BY <1>2 DEF IoapicInit, found
  <2>2. \A i \in 0 .. hw.pins - 1 : redir'[i].masked = TRUE
    BY <1>2 DEF IoapicInit
  <2>3. redir' \in [0 .. hw.pins - 1 -> Pin]
    BY <1>2, HardwareAssumption DEF IoapicInit, Pin, T_IRQ0, Inv, Shapes
  <2>4. On' = {}
    BY <2>1 DEF On
  <2>5. Routed'
    <3>1. hw' = hw
      BY <2>1
    <3>. QED BY <2>2, <2>4, <3>1, Zenon DEF Routed
  <2>. QED BY <2>1, <2>3, <2>5, Frame DEF Inv, Shapes, Established, Late
<1>3. CASE TrapInit
  <2>1. pc = "trap" /\ pc' = "ide" /\ UNCHANGED <<hw, cpus, lvt, gdt, pic, redir>>
    BY <1>3 DEF TrapInit, found
  <2>2. GatesSet'
    BY <1>3, Zenon DEF TrapInit, GatesSet
  <2>3. On' = On
    BY <2>1 DEF On
  <2>4. Routed' = Routed
    BY <2>1, <2>3 DEF Routed
  <2>. QED BY <2>1, <2>2, <2>4, Frame DEF Inv, Shapes, Established, Late
<1>. QED BY <1>1, <1>2, <1>3

\* The devices.
LEMMA DevicesStep ==
    ASSUME Inv, ConsoleInit \/ UartInit \/ IdeInit PROVE Inv'
<1>1. CASE ConsoleInit
  <2>1. /\ pc = "console" /\ pc' = "uart" /\ UNCHANGED <<hw, cpus, lvt, gdt, pic, idt>>
        /\ Enable(1, 0)
    BY <1>1 DEF ConsoleInit, found, IRQ
  <2>2. On = {} /\ On' = {1}
    BY <2>1 DEF On
  <2>3. Shapes /\ Routed
    BY <2>1 DEF Inv, Established, Late
  <2>4. /\ redir' \in [0 .. hw.pins - 1 -> Pin]
        /\ redir'[1] = [masked |-> FALSE, vector |-> T_IRQ0 + 1, dest |-> 0]
        /\ \A i \in 0 .. hw.pins - 1 : i # 1 => redir'[i] = redir[i]
    BY <2>1, <2>3, EnablePin
  <2>5. Routed'
    BY <2>1, <2>2, <2>3, <2>4 DEF Routed
  <2>. QED BY <2>1, <2>4, <2>5, Frame DEF Inv, Shapes, Established, Late
<1>2. CASE UartInit
  <2>1. pc = "uart" /\ pc' = "trap" /\ UNCHANGED <<hw, cpus, lvt, gdt, pic, idt>>
    BY <1>2 DEF UartInit, found
  <2>2. CASE hw.uart
    <3>1. Enable(4, 0)
      BY <1>2, <2>2 DEF UartInit, IRQ
    <3>2. On = {1} /\ On' = {1, 4}
      BY <2>1, <2>2 DEF On
    <3>3. Shapes /\ Routed
      BY <2>1 DEF Inv, Established, Late
    <3>4. /\ redir' \in [0 .. hw.pins - 1 -> Pin]
          /\ redir'[4] = [masked |-> FALSE, vector |-> T_IRQ0 + 4, dest |-> 0]
          /\ \A i \in 0 .. hw.pins - 1 : i # 4 => redir'[i] = redir[i]
      BY <2>1, <3>1, <3>3, EnablePin
    <3>5. Routed'
      BY <2>1, <3>2, <3>3, <3>4 DEF Routed
    <3>. QED BY <2>1, <3>4, <3>5, Frame DEF Inv, Shapes, Established, Late
  <2>3. CASE ~hw.uart
    <3>1. UNCHANGED redir /\ On' = On
      BY <1>2, <2>1, <2>3 DEF UartInit, On
    <3>2. Routed' = Routed
      BY <2>1, <3>1 DEF Routed
    <3>. QED BY <2>1, <3>1, <3>2, Frame DEF Inv, Shapes, Established, Late
  <2>. QED BY <2>2, <2>3
<1>3. CASE IdeInit
  <2>1. /\ pc = "ide" /\ pc' = "done" /\ UNCHANGED <<hw, cpus, lvt, gdt, pic, idt>>
        /\ Enable(14, Len(cpus) - 1)
    BY <1>3 DEF IdeInit, found, IRQ
  <2>2. On' = On \cup {14} /\ 14 \notin On
    BY <2>1 DEF On
  <2>3. Len(cpus) - 1 \in Nat /\ Len(cpus) - 1 < 256
    <3>1. Len(cpus) \in Nat /\ Len(cpus) <= MAX_NCPU
      BY DEF Inv, Shapes
    <3>2. Len(cpus) >= 1
      BY <2>1 DEF Inv, Established, Late
    <3>. QED BY <3>1, <3>2, SizesAssumption
  <2>4. Shapes /\ Routed
    BY <2>1 DEF Inv, Established, Late
  <2>5. /\ redir' \in [0 .. hw.pins - 1 -> Pin]
        /\ redir'[14] = [masked |-> FALSE, vector |-> T_IRQ0 + 14, dest |-> Len(cpus) - 1]
        /\ \A i \in 0 .. hw.pins - 1 : i # 14 => redir'[i] = redir[i]
    BY <2>1, <2>3, <2>4, EnablePin
  <2>6. Routed'
    BY <2>1, <2>2, <2>4, <2>5 DEF Routed
  <2>. QED BY <2>1, <2>5, <2>6, Frame DEF Inv, Shapes, Established, Late
<1>. QED BY <1>1, <1>2, <1>3

-----------------------------------------------------------------------------

\* Inv holds before mp::init.
LEMMA InitInv == ASSUME Init PROVE Inv
<1>1. redir \in [0 .. hw.pins - 1 -> Pin]
  BY DEF Init, Pin
<1>2. lvt \in [Regs -> Line] /\ lvt["PCINT"] = Masked
  <2>1. Unmasked(0) \in Line /\ Masked \in Line
    BY DEF Unmasked, Masked, Line
  <2>2. lvt = [r \in Regs |-> IF r = "LINT0" THEN Unmasked(0) ELSE Masked]
    BY DEF Init, Regs
  <2>3. "PCINT" \in Regs
    BY DEF Regs
  <2>. QED BY <2>1, <2>2, <2>3
<1>3. cpus = << >> /\ Len(cpus) <= MAX_NCPU
  BY SizesAssumption DEF Init
<1>4. DOMAIN gdt = 0 .. NSEGS - 1 /\ pc = "search" /\ hw \in Hardware
  BY DEF Init
<1>5. Established
  BY <1>4 DEF Established, Late
<1>. QED BY <1>1, <1>2, <1>3, <1>4, <1>5 DEF Inv, Shapes

\* The lines open in the end.
LEMMA OpenAtEnd ==
    ASSUME Inv, pc = "done"
    PROVE  /\ OpenVectors = {32, 51, 63, 33, 46} \cup IF hw.uart THEN {36} ELSE {}
           /\ \A i \in DOMAIN redir : ~redir[i].masked => redir[i].dest \in {0, Len(cpus) - 1}
<1>1. /\ lvt["SVR"] = Unmasked(63) /\ lvt["TIMER"] = Unmasked(32)
      /\ lvt["ERROR"] = Unmasked(51) /\ lvt["LINT0"] = Masked /\ lvt["LINT1"] = Masked
      /\ lvt["PCINT"] = Masked /\ DOMAIN lvt = Regs
  BY DEF Inv, Shapes, Established, Late, LinesSet
<1>2. {s \in DOMAIN lvt : ~lvt[s].masked} = {"SVR", "TIMER", "ERROR"}
  BY <1>1 DEF Regs, Masked, Unmasked
<1>3. {lvt[r].vector : r \in {"SVR", "TIMER", "ERROR"}} = {32, 51, 63}
  BY <1>1 DEF Unmasked
<1>4. Routed /\ DOMAIN redir = 0 .. hw.pins - 1 /\ On = {1, 14} \cup IF hw.uart THEN {4} ELSE {}
  <2>1. Routed /\ DOMAIN redir = 0 .. hw.pins - 1
    BY DEF Inv, Shapes, Established, Late
  <2>2. On = {1, 14} \cup IF hw.uart THEN {4} ELSE {}
    BY DEF On
  <2>. QED BY <2>1, <2>2
<1>5. {1, 4, 14} \subseteq 0 .. hw.pins - 1
  BY HardwareAssumption DEF Inv, Shapes
<1>6. {j \in DOMAIN redir : ~redir[j].masked} = On
  BY <1>4, <1>5 DEF Routed
<1>7. {redir[i].vector : i \in On} = {33, 46} \cup IF hw.uart THEN {36} ELSE {}
  BY <1>4, <1>5 DEF Routed, T_IRQ0
<1>8. \A i \in On : redir[i].dest \in {0, Len(cpus) - 1}
  BY <1>4, <1>5 DEF Routed
<1>9. OpenVectors = {32, 51, 63} \cup ({33, 46} \cup IF hw.uart THEN {36} ELSE {})
  BY <1>2, <1>3, <1>6, <1>7, Zenon DEF OpenVectors
<1>. QED BY <1>6, <1>8, <1>9

\* Where a vector other than the system call's leads, by GateExact and SegExact.
LEMMA Leads ==
    ASSUME Inv, pc = "done", NEW v \in Nat, v < 256, v > 31, v # T_SYSCALL
    PROVE  Lands(v)
<1> DEFINE g == GateFields(idt[v])
           s == SegFields(gdt[SEG_KCODE])
<1>1. Vectors(v) \in Word /\ SEG_KCODE * 8 \in Half
  BY DEF Vectors, Word, Half, SEG_KCODE
<1>2. idt[v] = Gate(FALSE, SEG_KCODE * 8, Vectors(v), 0)
  <2>1. v \in 0 .. 255
    OBVIOUS
  <2>2. GatesSet
    BY DEF Inv, Established
  <2>. QED BY <2>1, <2>2, Zenon DEF GatesSet
<1>3. g = [offset |-> Vectors(v), selector |-> SEG_KCODE * 8, type |-> 14,
           s |-> 0, dpl |-> 0, p |-> 1]
  <2>1. FALSE \in BOOLEAN /\ 0 \in 0..3
    OBVIOUS
  <2>2. GateFields(Gate(FALSE, SEG_KCODE * 8, Vectors(v), 0)) =
          [offset |-> Vectors(v), selector |-> SEG_KCODE * 8,
           type |-> IF FALSE THEN 15 ELSE 14, s |-> 0, dpl |-> 0, p |-> 1]
    BY <1>1, <2>1, GateExact, Zenon
  <2>. QED BY <1>2, <2>2, Zenon
<1>4. gdt[SEG_KCODE] = Seg(10, ZeroBase, AllOnes, 0)
  BY DEF Inv, Established, Late, CodeSet
<1>5. ZeroBase \in Word /\ AllOnes \in Word
  BY DEF ZeroBase, AllOnes, Word, Half
<1>6. Shr12(AllOnes) = [lo |-> 65535, hi |-> 15]
  BY DEF Shr12, AllOnes
<1>7. s = [base |-> ZeroBase, limit |-> [lo |-> 65535, hi |-> 15],
           type |-> 10, s |-> 1, dpl |-> 0, p |-> 1, flags |-> 12]
  <2>1. 0 \in 0..3 /\ 10 \in 0..15
    OBVIOUS
  <2>2. SegFields(Seg(10, ZeroBase, AllOnes, 0)) =
          [base |-> ZeroBase, limit |-> Shr12(AllOnes),
           type |-> 10, s |-> 1, dpl |-> 0, p |-> 1, flags |-> 12]
    BY <1>5, <2>1, SegExact, Zenon
  <2>3. s = SegFields(Seg(10, ZeroBase, AllOnes, 0))
    BY <1>4
  <2>. HIDE DEF s
  <2>. QED BY <1>6, <2>2, <2>3
<1>8. g.selector \div 8 = SEG_KCODE
  BY <1>3 DEF SEG_KCODE
<1>. HIDE DEF g, s
<1>9. LeadsTo(g, v)
  BY <1>3 DEF LeadsTo
<1>10. FlatCode(s)
  BY <1>7 DEF FlatCode
<1>11. s = SegFields(gdt[g.selector \div 8])
  BY <1>8 DEF s
<1>. QED BY <1>9, <1>10, <1>11 DEF g, Lands

\* On every machine main() leaves each open interrupt line with a vector of its own, a gate
\* that leads to that vector's entry and a ring-0 code segment; and, where APIC ids are
\* contiguous, each open pin with a processor that mp::init found.
THEOREM InterruptsAlwaysLand == Spec => []InterruptsLand
<1>1. Inv /\ [Next]_vars => Inv'
  <2>. SUFFICES ASSUME Inv, [Next]_vars PROVE Inv'
    OBVIOUS
  <2>1. CASE Next
    BY <2>1, FindingStep, CpuSetupStep, ControllersStep, DevicesStep DEF Next
  <2>2. CASE UNCHANGED vars
    <3>1. On' = On
      BY <2>2 DEF vars, On
    <3>2. Routed' = Routed
      BY <2>2, <3>1 DEF vars, Routed
    <3>3. UNCHANGED <<hw, pc, cpus, lapic, lvt, gdt, pic, redir, idt>>
      BY <2>2 DEF vars
    <3>4. Shapes'
      BY <3>3 DEF Inv, Shapes
    <3>5. Established'
      BY <3>2, <3>3, Frame DEF Inv, Established
    <3>. QED BY <3>4, <3>5 DEF Inv
  <2>. QED BY <2>1, <2>2
<1>2. Inv => InterruptsLand
  <2>. SUFFICES ASSUME Inv, pc = "done" PROVE InterruptsLand
    BY Zenon DEF InterruptsLand
  <2>1. "masked" \in pic /\ lvt["LINT0"].masked
    <3>1. "masked" \in pic /\ lvt["LINT0"] = Masked
      BY DEF Inv, Established, Late, LinesSet
    <3>. QED BY <3>1 DEF Masked
  <2>2. OpenVectors = {T_IRQ0 + IRQ[n] : n \in Opened}
    <3>1. /\ T_IRQ0 + IRQ["TIMER"] = 32 /\ T_IRQ0 + IRQ["ERROR"] = 51
          /\ T_IRQ0 + IRQ["SPURIOUS"] = 63 /\ T_IRQ0 + IRQ["KBD"] = 33
          /\ T_IRQ0 + IRQ["IDE"] = 46 /\ T_IRQ0 + IRQ["COM1"] = 36
      BY DEF T_IRQ0, IRQ
    <3>2. OpenVectors = {32, 51, 63, 33, 46} \cup IF hw.uart THEN {36} ELSE {}
      BY OpenAtEnd
    <3>3. CASE hw.uart
      BY <3>1, <3>2, <3>3 DEF Opened
    <3>4. CASE ~hw.uart
      BY <3>1, <3>2, <3>4 DEF Opened
    <3>. QED BY <3>3, <3>4
  <2>3. \A v \in OpenVectors : v \in Nat /\ v < 256 /\ v # T_SYSCALL /\ v > 31
    BY OpenAtEnd DEF T_SYSCALL
  <2>4. Len(cpus) \in Nat /\ Len(cpus) >= 1 /\ DOMAIN cpus = 1 .. Len(cpus)
    <3>1. cpus \in Seq(Nat)
      BY DEF Inv, Shapes
    <3>2. Len(cpus) >= 1
      BY DEF Inv, Established, Late
    <3>. QED BY <3>1, <3>2
  <2>5. ASSUME \A i \in DOMAIN cpus : cpus[i] = i - 1
        PROVE  \A d \in {0, Len(cpus) - 1} : \E j \in DOMAIN cpus : cpus[j] = d
    <3>1. 1 \in DOMAIN cpus /\ Len(cpus) \in DOMAIN cpus
      BY <2>4
    <3>2. cpus[1] = 0 /\ cpus[Len(cpus)] = Len(cpus) - 1
      BY <2>5, <3>1
    <3>. QED BY <3>1, <3>2
  <2>6. \A v \in OpenVectors : Lands(v)
    BY <2>3, Leads, Zenon
  <2>7. (\A i \in DOMAIN cpus : cpus[i] = i - 1) => DestinationsFound
    BY <2>5, OpenAtEnd, Zenon DEF DestinationsFound
  <2>. QED BY <2>1, <2>2, <2>6, <2>7, Zenon DEF InterruptsLand
<1>. QED BY InitInv, <1>1, <1>2, PTL DEF Spec

-----------------------------------------------------------------------------
(* What mp::init has found at each program point. *)

KbAt == IF hw.ebda THEN EbdaAt ELSE LastKbAt

\* search1 is in the first KB or in the ROM, and nothing before addr verified.
Hunting ==
    \/ /\ end = KbAt + KB /\ addr \in KbAt .. end
       /\ \A a \in KbAt .. addr - 1 : ~Verified(a)
    \/ /\ end = RomAt + ROM /\ addr \in RomAt .. end /\ InKb = {}
       /\ \A a \in RomAt .. addr - 1 : ~Verified(a)

MpIsFirst == mp \in Candidates /\ \A b \in Candidates : mp <= b
TableGood == hw.mem[mp] = "mp" /\ hw.table.sum = 0 /\ hw.table.version \in {1, 4}

\* The ids that init_new_cpu takes of the processors l, and the last id of l.
Ids(l) == [i \in 1 .. (IF Len(l) < MAX_NCPU THEN Len(l) ELSE MAX_NCPU) |-> l[i].id]
LastId(l) == IF l = << >> THEN 85 ELSE l[Len(l)].id

\* The first k entries of the table have been read.
Scanned(k) ==
    LET es == hw.table.entries
    IN  /\ p = EntryAt[k + 1]
        /\ \A i \in 1 .. k : es[i].ty # "other"
        /\ cpus = Ids(ListedTo(es, "proc")[k])
        /\ ioapic_id = LastId(ListedTo(es, "ioapic")[k])

NoBoot == \A i \in 1 .. Len(Known) : Known[i].id # Bsp
Points == {"search", "search1", "config", "entries", "lapic", "seginit", "pic", "ioapic",
           "console", "uart", "trap", "ide", "done", "panic"}

Progress ==
    /\ hw \in Hardware /\ pc \in Points /\ lapic \in BOOLEAN
    /\ pc \in {"search", "search1", "config"} => cpus = << >> /\ ioapic_id = 85
    /\ pc \in {"search", "search1", "config", "entries"} => ~lapic
    /\ pc = "search1" => Hunting
    /\ pc \in {"config", "entries"} => MpIsFirst
    /\ pc = "entries" => TableGood /\ \E k \in 0 .. Len(hw.table.entries) : Scanned(k)
    /\ lapic => MpIsFirst /\ TableGood /\ Scanned(Len(hw.table.entries))
    /\ pc \in {"lapic", "seginit", "pic", "ioapic", "console", "uart", "trap", "ide", "done"} => lapic
    /\ pc = "panic" => ~Usable \/ NoBoot

Desc == [f1lo : Half, f1hi : Half, f2lo : Half, f2hi : Half]
Ranges ==
    /\ addr \in 0 .. 2 * (KB + ROM) /\ end \in 0 .. 2 * (KB + ROM) /\ mp \in Paragraphs
    /\ p \in 0 .. EntryAt[Len(hw.table.entries) + 1]
    /\ Len(cpus) <= MAX_NCPU /\ ioapic_id \in Nat
    /\ pic \subseteq {"imcr", "masked"}
    /\ \A i \in DOMAIN gdt : gdt[i] \in Desc
    /\ DOMAIN idt = 0 .. 255
FoundInv == Progress /\ Ranges

-----------------------------------------------------------------------------
(* Induction *)

(* Induction over the natural numbers, for a set in the place of a predicate. *)
LEMMA Induction ==
    ASSUME NEW S \in SUBSET Nat, 0 \in S, \A n \in S : n + 1 \in S
    PROVE  S = Nat
<1> SUFFICES ASSUME S # Nat PROVE FALSE
    OBVIOUS
<1> DEFINE T == Nat \ S
           R == OpToRel(<, Nat)
<1>1. T # {} /\ T \subseteq Nat
    BY Zenon
<1>2. IsWellFoundedOn(R, Nat)
    BY NatLessThanWellFounded, Zenon
<1>3. \A x, y \in Nat : y < x => <<y, x>> \in R
    BY DEF OpToRel
<1> HIDE DEF T, R
<1>4. PICK x \in T : \A y \in T : <<y, x>> \notin R
    BY <1>1, <1>2, WFMin, Zenon
<1>5. \A y \in T : ~(y < x)
    BY <1>1, <1>3, <1>4, Zenon
<1>6. x \in Nat /\ x # 0 /\ x \notin S
    BY DEF T
<1>7. x - 1 \in Nat /\ x - 1 < x /\ (x - 1) + 1 = x
    BY <1>6
<1>8. x - 1 \in S
    BY <1>5, <1>7 DEF T
<1> QED BY <1>6, <1>7, <1>8

(* The same up to a bound. *)
LEMMA BoundedInduction ==
    ASSUME NEW n \in Nat, NEW S, 0 \in S, \A i \in 0..(n - 1) : i \in S => i + 1 \in S
    PROVE  \A i \in 0..n : i \in S
<1> DEFINE U == {i \in Nat : i <= n => i \in S}
<1>1. 0 \in U
    OBVIOUS
<1>2. ASSUME NEW i \in U PROVE i + 1 \in U
    OBVIOUS
<1>3. U = Nat
  <2>1. U \in SUBSET Nat
      OBVIOUS
  <2> HIDE DEF U
  <2> QED BY <1>1, <1>2, <2>1, Induction, Zenon
<1> QED BY <1>3

-----------------------------------------------------------------------------
(* The configuration table *)

\* The function that EntryAt defines for the first n entries of es.
AtIter(es, f, n) ==
    f = [i \in 1 .. n + 1 |-> IF i = 1 THEN HeaderSize ELSE f[i - 1] + EntrySize(es[i - 1])]

\* It exists.
LEMMA AtIterExists ==
    ASSUME NEW es, NEW n \in Nat
    PROVE  \E f : AtIter(es, f, n)
<1> DEFINE S == {m \in Nat : \E f : AtIter(es, f, m)}
<1>1. 0 \in S
  <2> DEFINE f == [i \in 1 .. 0 + 1 |-> HeaderSize]
  <2>1. \A i \in 1 .. 0 + 1 : i = 1
      OBVIOUS
  <2>2. f = [i \in 1 .. 0 + 1 |-> IF i = 1 THEN HeaderSize ELSE f[i - 1] + EntrySize(es[i - 1])]
      BY <2>1
  <2>3. AtIter(es, f, 0)
      BY <2>2, Zenon DEF AtIter
  <2> QED BY <2>3
<1>2. ASSUME NEW m \in S PROVE m + 1 \in S
  <2>1. PICK f : AtIter(es, f, m)
      OBVIOUS
  <2> DEFINE h == [i \in 1 .. (m + 1) + 1 |->
                     IF i = m + 2 THEN f[m + 1] + EntrySize(es[m + 1]) ELSE f[i]]
  <2>2. ASSUME NEW i \in 1 .. (m + 1) + 1
        PROVE  h[i] = IF i = 1 THEN HeaderSize ELSE h[i - 1] + EntrySize(es[i - 1])
    <3>1. i # 1 => i - 1 \in 1 .. (m + 1) + 1 /\ i - 1 # m + 2
        OBVIOUS
    <3>2. i # 1 => h[i - 1] = f[i - 1]
        BY <3>1
    <3>3. CASE i = m + 2
      <4>1. i # 1 /\ i - 1 = m + 1
          BY <3>3
      <4>2. h[i] = f[m + 1] + EntrySize(es[m + 1])
          BY <3>3
      <4> HIDE DEF h
      <4> QED BY <3>2, <4>1, <4>2
    <3>4. CASE i # m + 2
      <4>1. i \in 1 .. m + 1 /\ h[i] = f[i]
          BY <3>4
      <4>2. f[i] = IF i = 1 THEN HeaderSize ELSE f[i - 1] + EntrySize(es[i - 1])
          BY <2>1, <4>1, Zenon DEF AtIter
      <4> QED BY <3>2, <4>1, <4>2, Zenon
    <3> QED BY <3>3, <3>4
  <2>3. h = [i \in 1 .. (m + 1) + 1 |-> h[i]]
      OBVIOUS
  <2> HIDE DEF h
  <2>4. AtIter(es, h, m + 1)
      BY <2>2, <2>3, Zenon DEF AtIter
  <2> QED BY <2>4
<1> HIDE DEF S
<1>3. S = Nat
  <2>1. S \in SUBSET Nat
      BY DEF S
  <2> QED BY <1>1, <1>2, <2>1, Induction, Zenon
<1> QED BY <1>3 DEF S

\* g holds where each entry of es starts, and last where the table ends.
Layout(es, g) ==
    /\ g[1] = HeaderSize
    /\ \A i \in 1 .. Len(es) : g[i + 1] = g[i] + EntrySize(es[i])

\* The entries follow the header, each one where the one before it ends.
LEMMA EntriesLaid ==
    ASSUME hw.table.entries \in Seq(MpEntry)
    PROVE  Layout(hw.table.entries, EntryAt)
<1> DEFINE es == hw.table.entries
           n == Len(es)
           g == CHOOSE f : AtIter(es, f, n)
<1>1. n \in Nat
    OBVIOUS
<1>2. AtIter(es, g, n)
    BY <1>1, AtIterExists, Zenon
<1>3. EntryAt = g
    BY Zenon DEF EntryAt, AtIter
<1> HIDE DEF g, n, es
<1>4. g[1] = HeaderSize
  <2>1. 1 \in 1 .. n + 1
      BY <1>1
  <2> QED BY <1>2, <2>1, Zenon DEF AtIter
<1>5. ASSUME NEW i \in 1 .. n PROVE g[i + 1] = g[i] + EntrySize(es[i])
  <2>1. i + 1 \in 1 .. n + 1 /\ i + 1 # 1 /\ (i + 1) - 1 = i
      BY <1>1
  <2>2. g[i + 1] = g[(i + 1) - 1] + EntrySize(es[(i + 1) - 1])
      BY <1>2, <2>1, Zenon DEF AtIter
  <2> QED BY <2>1, <2>2
<1> QED BY <1>3, <1>4, <1>5, Zenon DEF Layout, es, n

\* No entry is empty, so the offsets grow.
LEMMA LayoutGrows ==
    ASSUME NEW es \in Seq(MpEntry), NEW g, Layout(es, g)
    PROVE  /\ \A i \in 1 .. Len(es) + 1 : g[i] \in Nat /\ HeaderSize <= g[i]
           /\ \A i, j \in 1 .. Len(es) + 1 : i < j => g[i] < g[j]
<1> DEFINE n == Len(es)
<1>0. n \in Nat
    OBVIOUS
<1>1. g[1] = HeaderSize /\ \A i \in 1 .. n : g[i + 1] = g[i] + EntrySize(es[i])
    BY DEF Layout
<1>2. \A i \in 1 .. n : EntrySize(es[i]) \in Nat \ {0}
    BY DEF EntrySize
<1> HIDE DEF n
<1> DEFINE Good(k) == /\ g[k + 1] \in Nat /\ HeaderSize <= g[k + 1]
                      /\ \A i \in 1 .. k : g[i] \in Nat /\ g[i] < g[k + 1]
           S == {k \in 0 .. n : Good(k)}
<1>3. 0 \in S
    BY <1>0, <1>1 DEF HeaderSize
<1>4. ASSUME NEW k \in 0 .. (n - 1), k \in S PROVE k + 1 \in S
  <2>1. k + 1 \in 1 .. n /\ k + 1 \in 0 .. n
      BY <1>0
  <2>2. g[(k + 1) + 1] = g[k + 1] + EntrySize(es[k + 1]) /\ EntrySize(es[k + 1]) \in Nat \ {0}
      BY <1>1, <1>2, <2>1
  <2>3. Good(k)
      BY <1>4
  <2>4. g[(k + 1) + 1] \in Nat /\ HeaderSize <= g[(k + 1) + 1] /\ g[k + 1] < g[(k + 1) + 1]
      BY <2>2, <2>3 DEF HeaderSize
  <2>5. ASSUME NEW i \in 1 .. k + 1 PROVE g[i] \in Nat /\ g[i] < g[(k + 1) + 1]
    <3>1. CASE i = k + 1
        BY <2>3, <2>4, <3>1
    <3>2. CASE i # k + 1
      <4>1. i \in 1 .. k
          BY <3>2
      <4>2. g[i] \in Nat /\ g[i] < g[k + 1]
          BY <2>3, <4>1
      <4> QED BY <2>3, <2>4, <4>2
    <3> QED BY <3>1, <3>2
  <2> QED BY <2>1, <2>4, <2>5
<1> HIDE DEF S, Good
<1>5. \A i \in 0 .. n : i \in S
    BY <1>0, <1>3, <1>4, BoundedInduction
<1>6. \A i \in 0 .. n : Good(i)
    BY <1>5 DEF S
<1>7. ASSUME NEW i \in 1 .. n + 1
      PROVE  g[i] \in Nat /\ HeaderSize <= g[i] /\ \A j \in 1 .. n + 1 : j < i => g[j] < g[i]
  <2>1. i - 1 \in 0 .. n /\ (i - 1) + 1 = i
      BY <1>0
  <2>2. Good(i - 1)
      BY <1>6, <2>1
  <2>3. g[i] \in Nat /\ HeaderSize <= g[i] /\ \A j \in 1 .. i - 1 : g[j] < g[i]
      BY <2>1, <2>2 DEF Good
  <2> QED BY <2>1, <2>3
<1> QED BY <1>7 DEF n

\* The entry e after the entries l of type ty.
Take(l, e, ty) == IF e.ty = ty THEN Append(l, e) ELSE l
\* The function that ListedTo defines for the first n entries of es.
ListIter(es, ty, f, n) == f = [i \in 0 .. n |-> IF i = 0 THEN << >> ELSE Take(f[i - 1], es[i], ty)]

\* It exists.
LEMMA ListIterExists ==
    ASSUME NEW es, NEW ty, NEW n \in Nat
    PROVE  \E f : ListIter(es, ty, f, n)
<1> DEFINE S == {m \in Nat : \E f : ListIter(es, ty, f, m)}
<1>1. 0 \in S
  <2> DEFINE f == [i \in 0 .. 0 |-> << >>]
  <2>1. \A i \in 0 .. 0 : i = 0
      OBVIOUS
  <2>2. f = [i \in 0 .. 0 |-> IF i = 0 THEN << >> ELSE Take(f[i - 1], es[i], ty)]
      BY <2>1
  <2>3. ListIter(es, ty, f, 0)
      BY <2>2, Zenon DEF ListIter
  <2> QED BY <2>3
<1>2. ASSUME NEW m \in S PROVE m + 1 \in S
  <2>1. PICK f : ListIter(es, ty, f, m)
      OBVIOUS
  <2> DEFINE h == [i \in 0 .. (m + 1) |-> IF i = m + 1 THEN Take(f[m], es[i], ty) ELSE f[i]]
  <2>2. ASSUME NEW i \in 0 .. (m + 1)
        PROVE  h[i] = IF i = 0 THEN << >> ELSE Take(h[i - 1], es[i], ty)
    <3>1. i # 0 => i - 1 \in 0 .. (m + 1) /\ i - 1 # m + 1
        OBVIOUS
    <3>2. i # 0 => h[i - 1] = f[i - 1]
        BY <3>1
    <3>3. CASE i = m + 1
      <4>1. i # 0 /\ i - 1 = m
          BY <3>3
      <4>2. h[i] = Take(f[m], es[i], ty)
          BY <3>3
      <4> HIDE DEF h
      <4> QED BY <3>2, <4>1, <4>2
    <3>4. CASE i # m + 1
      <4>1. i \in 0 .. m /\ h[i] = f[i]
          BY <3>4
      <4>2. f[i] = IF i = 0 THEN << >> ELSE Take(f[i - 1], es[i], ty)
          BY <2>1, <4>1, Zenon DEF ListIter
      <4> QED BY <3>2, <4>1, <4>2, Zenon
    <3> QED BY <3>3, <3>4, Zenon
  <2>3. h = [i \in 0 .. (m + 1) |-> h[i]]
      OBVIOUS
  <2> HIDE DEF h
  <2>4. ListIter(es, ty, h, m + 1)
      BY <2>2, <2>3, Zenon DEF ListIter
  <2> QED BY <2>4
<1> HIDE DEF S
<1>3. S = Nat
  <2>1. S \in SUBSET Nat
      BY DEF S
  <2> QED BY <1>1, <1>2, <2>1, Induction, Zenon
<1> QED BY <1>3 DEF S

\* g holds the entries of type ty among the first ones of es.
Listing(es, ty, g) ==
    /\ g[0] = << >>
    /\ \A i \in 1 .. Len(es) : g[i] = Take(g[i - 1], es[i], ty)

\* ListedTo takes the entries one after the other.
LEMMA ListedSteps ==
    ASSUME NEW es \in Seq(MpEntry), NEW ty
    PROVE  Listing(es, ty, ListedTo(es, ty))
<1> DEFINE n == Len(es)
           g == CHOOSE f : ListIter(es, ty, f, n)
<1>1. n \in Nat
    OBVIOUS
<1>2. ListIter(es, ty, g, n)
    BY <1>1, ListIterExists, Zenon
<1>3. ListedTo(es, ty) = g
    BY Zenon DEF ListedTo, ListIter, Take
<1> HIDE DEF g, n
<1>4. g[0] = << >>
  <2>1. 0 \in 0 .. n
      BY <1>1
  <2> QED BY <1>2, <2>1, Zenon DEF ListIter
<1>5. ASSUME NEW i \in 1 .. n PROVE g[i] = Take(g[i - 1], es[i], ty)
  <2>1. i \in 0 .. n /\ i # 0
      BY <1>1
  <2> QED BY <1>2, <2>1, Zenon DEF ListIter
<1> QED BY <1>3, <1>4, <1>5, Zenon DEF Listing, n

\* What it returns are entries.
LEMMA ListedTypes ==
    ASSUME NEW es \in Seq(MpEntry), NEW ty, NEW k \in 0 .. Len(es)
    PROVE  ListedTo(es, ty)[k] \in Seq(MpEntry)
<1> DEFINE n == Len(es)
           g == ListedTo(es, ty)
           S == {i \in 0 .. n : g[i] \in Seq(MpEntry)}
<1>0. n \in Nat
    OBVIOUS
<1>1. g[0] = << >> /\ \A i \in 1 .. n : g[i] = Take(g[i - 1], es[i], ty)
    BY ListedSteps, Zenon DEF Listing
<1>2. \A i \in 1 .. n : es[i] \in MpEntry
    OBVIOUS
<1> HIDE DEF g, n
<1>3. 0 \in S
  <2>1. 0 \in 0 .. n /\ << >> \in Seq(MpEntry)
      BY <1>0
  <2> QED BY <1>1, <2>1, Zenon
<1>4. ASSUME NEW i \in 0 .. (n - 1), i \in S PROVE i + 1 \in S
  <2>1. i + 1 \in 1 .. n /\ i + 1 \in 0 .. n /\ (i + 1) - 1 = i
      BY <1>0
  <2>2. g[i + 1] = Take(g[i], es[i + 1], ty) /\ es[i + 1] \in MpEntry
      BY <1>1, <1>2, <2>1
  <2>3. g[i] \in Seq(MpEntry)
      BY <1>4
  <2>4. Append(g[i], es[i + 1]) \in Seq(MpEntry)
      BY <2>2, <2>3
  <2>5. g[i + 1] \in Seq(MpEntry)
      BY <2>2, <2>3, <2>4, Zenon DEF Take
  <2> QED BY <2>1, <2>5
<1> HIDE DEF S
<1>5. \A i \in 0 .. n : i \in S
    BY <1>0, <1>3, <1>4, BoundedInduction
<1> QED BY <1>5 DEF S, g, n

\* The entry at the offset of the k + 1st is that one, and there is none past the last.
LEMMA EntryFound ==
    ASSUME hw.table.entries \in Seq(MpEntry),
           NEW k \in 0 .. Len(hw.table.entries), p = EntryAt[k + 1]
    PROVE  /\ k < Len(hw.table.entries) => /\ p < EntryAt[Len(hw.table.entries) + 1]
                                           /\ Entry = hw.table.entries[k + 1]
           /\ k = Len(hw.table.entries) => ~(p < EntryAt[Len(hw.table.entries) + 1])
<1> DEFINE es == hw.table.entries
           n == Len(es)
           g == EntryAt
           hit == {i \in 1 .. n : g[i] = p}
<1>0. n \in Nat
    OBVIOUS
<1>1. Layout(es, g)
    BY EntriesLaid, Zenon
<1>2. /\ \A i \in 1 .. n + 1 : g[i] \in Nat
      /\ \A i, j \in 1 .. n + 1 : i < j => g[i] < g[j]
    BY <1>1, LayoutGrows, Zenon
<1>3. Entry = IF hit = {} THEN [ty |-> "other", id |-> 0] ELSE es[CHOOSE i \in hit : TRUE]
    BY Zenon DEF Entry
<1> HIDE DEF es, n, g
<1>4. n = Len(es) /\ p = g[k + 1] /\ k \in 0 .. n
    BY DEF es, n, g
<1>5. ASSUME k < n PROVE p < g[n + 1] /\ Entry = es[k + 1]
  <2>1. k + 1 \in 1 .. n /\ n + 1 \in 1 .. n + 1
      BY <1>0, <1>4, <1>5
  <2>2. p < g[n + 1]
      BY <1>0, <1>2, <1>4, <2>1
  <2>3. hit = {k + 1}
    <3>1. k + 1 \in hit
        BY <1>4, <2>1
    <3>2. ASSUME NEW i \in hit PROVE i = k + 1
      <4>1. i \in 1 .. n /\ g[i] = p
          OBVIOUS
      <4>2. i \in 1 .. n + 1 /\ k + 1 \in 1 .. n + 1
          BY <1>0, <2>1, <4>1
      <4>3. g[i] \in Nat /\ ~(i < k + 1) /\ ~(k + 1 < i)
          BY <1>2, <1>4, <4>1, <4>2
      <4> QED BY <4>2, <4>3
    <3> HIDE DEF hit
    <3> QED BY <3>1, <3>2, Zenon
  <2>4. hit # {} /\ (CHOOSE i \in hit : TRUE) = k + 1
      BY <2>3, Zenon
  <2> HIDE DEF hit
  <2> QED BY <1>3, <2>2, <2>4, Zenon
<1>6. ASSUME k = n PROVE ~(p < g[n + 1])
  <2>1. p = g[n + 1] /\ g[n + 1] \in Nat
      BY <1>0, <1>2, <1>4, <1>6
  <2> QED BY <2>1
<1> QED BY <1>5, <1>6 DEF es, n, g

\* One processor more: its id is taken while there is room.
LEMMA IdsStep ==
    ASSUME NEW l \in Seq(MpEntry), NEW e \in MpEntry
    PROVE  /\ Ids(l) \in Seq(Nat) /\ Len(Ids(l)) <= MAX_NCPU
           /\ Ids(Append(l, e)) = IF Len(Ids(l)) = MAX_NCPU THEN Ids(l) ELSE Append(Ids(l), e.id)
<1> DEFINE m == IF Len(l) < MAX_NCPU THEN Len(l) ELSE MAX_NCPU
           a == Append(l, e)
           m2 == IF Len(a) < MAX_NCPU THEN Len(a) ELSE MAX_NCPU
<1>0. MAX_NCPU \in Nat /\ Len(l) \in Nat /\ m \in Nat /\ m <= MAX_NCPU /\ m <= Len(l)
    BY SizesAssumption
<1>1. a \in Seq(MpEntry) /\ Len(a) = Len(l) + 1 /\ a[Len(l) + 1] = e
      /\ \A i \in 1 .. Len(l) : a[i] = l[i]
    OBVIOUS
<1>2. \A i \in 1 .. Len(l) : l[i].id \in Nat
  <2>1. \A i \in 1 .. Len(l) : l[i] \in MpEntry
      OBVIOUS
  <2>2. \A x \in MpEntry : x.id \in Nat
      BY DEF MpEntry
  <2> QED BY <2>1, <2>2, Zenon
<1>3. e.id \in Nat
    BY DEF MpEntry
<1>4. Ids(l) = [i \in 1 .. m |-> l[i].id] /\ Ids(a) = [i \in 1 .. m2 |-> a[i].id]
    BY Zenon DEF Ids
<1>m. /\ m = MAX_NCPU => m2 = m
      /\ m # MAX_NCPU => m2 = m + 1 /\ m = Len(l)
    BY <1>0, <1>1
<1> HIDE DEF m, a, m2
<1>5. Ids(l) \in Seq(Nat) /\ Len(Ids(l)) = m /\ \A i \in 1 .. m : Ids(l)[i] = l[i].id
    BY <1>0, <1>2, <1>4
<1>6. CASE m = MAX_NCPU
  <2>1. \A i \in 1 .. m : a[i].id = l[i].id
      BY <1>0, <1>1
  <2>2. Ids(a) = Ids(l)
      BY <1>m, <1>4, <1>6, <2>1
  <2> QED BY <1>0, <1>5, <1>6, <2>2 DEF a
<1>7. CASE m # MAX_NCPU
  <2> DEFINE r == Append(Ids(l), e.id)
  <2>1. r = [i \in 1 .. m + 1 |-> IF i = m + 1 THEN e.id ELSE Ids(l)[i]]
      BY <1>0, <1>3, <1>5
  <2>2. \A i \in 1 .. m + 1 : a[i].id = IF i = m + 1 THEN e.id ELSE Ids(l)[i]
      BY <1>0, <1>1, <1>5, <1>m, <1>7
  <2> HIDE DEF r
  <2>3. Ids(a) = r
      BY <1>m, <1>4, <1>7, <2>1, <2>2, Zenon
  <2> QED BY <1>0, <1>5, <1>7, <2>3 DEF a, r
<1> QED BY <1>6, <1>7

\* One I/O APIC more: it is the last.
LEMMA LastIdStep ==
    ASSUME NEW l \in Seq(MpEntry), NEW e \in MpEntry
    PROVE  LastId(l) \in Nat /\ LastId(Append(l, e)) = e.id
<1>1. l # << >> => Len(l) \in 1 .. Len(l)
    OBVIOUS
<1>2. LastId(l) \in Nat
  <2>1. l # << >> => l[Len(l)] \in MpEntry
      BY <1>1
  <2>2. \A x \in MpEntry : x.id \in Nat
      BY DEF MpEntry
  <2>3. l # << >> => l[Len(l)].id \in Nat
      BY <2>1, <2>2, Zenon
  <2> QED BY <2>3 DEF LastId
<1>3. Append(l, e) # << >> /\ Append(l, e)[Len(Append(l, e))] = e
    OBVIOUS
<1> QED BY <1>2, <1>3 DEF LastId

-----------------------------------------------------------------------------
(* The search *)

\* What only depends on the machine does not change with it.
LEMMA MachineFixed ==
    ASSUME hw' = hw
    PROVE  /\ EntryAt' = EntryAt /\ KbAt' = KbAt /\ InKb' = InKb /\ Candidates' = Candidates
           /\ Usable' = Usable /\ NoBoot' = NoBoot
           /\ \A a : Verified(a)' = Verified(a)
<1>1. EntryAt' = EntryAt
    BY Zenon DEF EntryAt
<1>2. KbAt' = KbAt
    BY Zenon DEF KbAt
<1>3. InKb' = InKb
    BY Zenon DEF InKb, FirstKb
<1>4. Candidates' = Candidates
    BY Zenon DEF Candidates, InKb, FirstKb, InRom
<1>5. Usable' = Usable
    BY <1>4, Zenon DEF Usable, GoodTable
<1>6. NoBoot' = NoBoot
    BY Zenon DEF NoBoot, Known, Listed
<1>7. \A a : Verified(a)' = Verified(a)
    BY Zenon DEF Verified
<1> QED BY <1>1, <1>2, <1>3, <1>4, <1>5, <1>6, <1>7, Zenon

\* The areas, in the order of their paragraphs.
LEMMA Areas ==
    /\ KB \in Nat \ {0} /\ ROM \in Nat \ {0} /\ KbAt \in Nat /\ RomAt \in Nat
    /\ KbAt + KB <= RomAt /\ RomAt + ROM = 2 * (KB + ROM)
    /\ FirstKb = KbAt .. KbAt + KB - 1
<1>1. KB \in Nat \ {0} /\ ROM \in Nat \ {0}
    BY SizesAssumption
<1>2. CASE hw.ebda
  <2>1. KbAt = 0 /\ FirstKb = 0 .. 0 + KB - 1
      BY <1>2 DEF KbAt, FirstKb, EbdaAt
  <2> QED BY <1>1, <2>1 DEF RomAt
<1>3. CASE ~hw.ebda
  <2>1. KbAt = KB /\ FirstKb = KB .. KB + KB - 1
      BY <1>3 DEF KbAt, FirstKb, LastKbAt
  <2> QED BY <1>1, <2>1 DEF RomAt
<1> QED BY <1>2, <1>3

\* InKb and InRom by Verified.
LEMMA Areas2 ==
    /\ InKb = {a \in KbAt .. KbAt + KB - 1 : Verified(a)}
    /\ InRom = {a \in RomAt .. RomAt + ROM - 1 : Verified(a)}
<1>1. FirstKb = KbAt .. KbAt + KB - 1
    BY Areas
<1> QED BY <1>1, Zenon DEF InKb, InRom, Verified

\* The structure that verifies in search1 is the first one.
LEMMA FoundFirst ==
    ASSUME Hunting, addr < end, Verified(addr)
    PROVE  addr \in Candidates /\ \A b \in Candidates : addr <= b
<1>0. /\ KB \in Nat \ {0} /\ ROM \in Nat \ {0} /\ KbAt \in Nat /\ RomAt \in Nat
    BY Areas
<1>1. CASE /\ end = KbAt + KB /\ addr \in KbAt .. end
           /\ \A a \in KbAt .. addr - 1 : ~Verified(a)
  <2>1. addr \in KbAt .. KbAt + KB - 1
      BY <1>0, <1>1
  <2>2. addr \in InKb
      BY <2>1, Areas2, Zenon
  <2>3. Candidates = InKb
      BY <2>2, Zenon DEF Candidates
  <2>4. \A b \in InKb : b \in KbAt .. KbAt + KB - 1 /\ Verified(b)
      BY Areas2, Zenon
  <2>5. \A b \in InKb : addr <= b
      BY <1>0, <1>1, <2>1, <2>4
  <2> QED BY <2>2, <2>3, <2>5, Zenon
<1>2. CASE /\ end = RomAt + ROM /\ addr \in RomAt .. end /\ InKb = {}
           /\ \A a \in RomAt .. addr - 1 : ~Verified(a)
  <2>1. addr \in RomAt .. RomAt + ROM - 1
      BY <1>0, <1>2
  <2>2. addr \in InRom
      BY <2>1, Areas2, Zenon
  <2>3. Candidates = InRom
      BY <1>2, Zenon DEF Candidates
  <2>4. \A b \in InRom : b \in RomAt .. RomAt + ROM - 1 /\ Verified(b)
      BY Areas2, Zenon
  <2>5. \A b \in InRom : addr <= b
      BY <1>0, <1>2, <2>1, <2>4
  <2> QED BY <2>2, <2>3, <2>5, Zenon
<1> QED BY <1>1, <1>2, Zenon DEF Hunting

\* The first of two searches that find nothing leaves the ROM, the second one nothing.
LEMMA FoundNone ==
    ASSUME Hunting, addr = end
    PROVE  /\ end # RomAt + ROM => InKb = {}
           /\ end = RomAt + ROM => Candidates = {}
<1>0. /\ KB \in Nat \ {0} /\ ROM \in Nat \ {0} /\ KbAt \in Nat /\ RomAt \in Nat
      /\ KbAt + KB <= RomAt
    BY Areas
<1>1. CASE /\ end = KbAt + KB /\ addr \in KbAt .. end
           /\ \A a \in KbAt .. addr - 1 : ~Verified(a)
  <2>0. addr - 1 = KbAt + KB - 1
      BY <1>0, <1>1
  <2>1. \A a \in KbAt .. KbAt + KB - 1 : ~Verified(a)
      BY <1>1, <2>0, Zenon
  <2>2. InKb = {}
      BY <2>1, Areas2, Zenon
  <2>3. end # RomAt + ROM
      BY <1>0, <1>1
  <2> QED BY <2>2, <2>3
<1>2. CASE /\ end = RomAt + ROM /\ addr \in RomAt .. end /\ InKb = {}
           /\ \A a \in RomAt .. addr - 1 : ~Verified(a)
  <2>0. addr - 1 = RomAt + ROM - 1
      BY <1>0, <1>2
  <2>1. \A a \in RomAt .. RomAt + ROM - 1 : ~Verified(a)
      BY <1>2, <2>0, Zenon
  <2>2. InRom = {}
      BY <2>1, Areas2, Zenon
  <2> QED BY <1>2, <2>2, Zenon DEF Candidates
<1> QED BY <1>1, <1>2, Zenon DEF Hunting

\* A machine's tables are those of HardwareAssumption.
LEMMA EntriesAreEntries ==
    ASSUME hw \in Hardware
    PROVE  hw.table.entries \in Seq(MpEntry)
BY HardwareAssumption

\* config() accepts exactly the table of the first candidate.
LEMMA UsableIs ==
    ASSUME MpIsFirst
    PROVE  Usable <=> /\ hw.mem[mp] = "mp"
                      /\ hw.table.sum = 0 /\ hw.table.version \in {1, 4}
                      /\ \A i \in DOMAIN hw.table.entries : hw.table.entries[i].ty # "other"
<1> DEFINE First(a) == a \in Candidates /\ \A b \in Candidates : a <= b
           c == CHOOSE a \in Candidates : \A b \in Candidates : a <= b
<1>1. First(mp) /\ Candidates # {}
    BY Zenon DEF MpIsFirst
<1>2. First(c)
    BY <1>1, Zenon
<1>3. \A a \in Candidates : a \in Int
  <2>1. \A a \in Candidates : a \in KbAt .. KbAt + KB - 1 \/ a \in RomAt .. RomAt + ROM - 1
      BY Areas2, Zenon DEF Candidates
  <2> QED BY <2>1, Areas
<1>4. c = mp
  <2> HIDE DEF c
  <2> QED BY <1>1, <1>2, <1>3
<1>5. Usable <=> /\ Candidates # {} /\ hw.mem[c] = "mp"
                 /\ hw.table.sum = 0 /\ hw.table.version \in {1, 4}
                 /\ \A i \in DOMAIN hw.table.entries : hw.table.entries[i].ty # "other"
    BY Zenon DEF Usable, GoodTable
<1> HIDE DEF c
<1> QED BY <1>1, <1>4, <1>5, Zenon

-----------------------------------------------------------------------------
(* What the steps of mp::init keep *)

\* One entry more has been read.
LEMMA ScanStep ==
    ASSUME hw \in Hardware, hw' = hw,
           NEW k \in 0 .. Len(hw.table.entries), Scanned(k), More, Entry.ty # "other",
           p' = p + EntrySize(Entry),
           cpus' = IF Entry.ty # "proc" \/ Len(cpus) = MAX_NCPU THEN cpus
                   ELSE Append(cpus, Entry.id),
           ioapic_id' = IF Entry.ty = "ioapic" THEN Entry.id ELSE ioapic_id
    PROVE  k + 1 \in 0 .. Len(hw.table.entries) /\ Scanned(k + 1)'
<1> DEFINE es == hw.table.entries
           n == Len(es)
           e == es[k + 1]
           P == ListedTo(es, "proc")
           A == ListedTo(es, "ioapic")
<1>1. es \in Seq(MpEntry) /\ n \in Nat
    BY EntriesAreEntries
<1>2. p = EntryAt[k + 1] /\ (\A i \in 1 .. k : es[i].ty # "other")
      /\ cpus = Ids(P[k]) /\ ioapic_id = LastId(A[k])
    BY Zenon DEF Scanned
<1>3. k < n /\ Entry = e
  <2>1. p < EntryAt[n + 1]
      BY Zenon DEF More
  <2>2. /\ k < n => Entry = e
        /\ k = n => ~(p < EntryAt[n + 1])
      BY <1>1, <1>2, EntryFound, Zenon
  <2>3. k # n
      BY <2>1, <2>2, Zenon
  <2> QED BY <1>1, <2>2, <2>3
<1>4. k + 1 \in 1 .. n /\ k + 1 \in 0 .. n /\ (k + 1) - 1 = k
    BY <1>1, <1>3
<1>5. e \in MpEntry
    BY <1>1, <1>4
<1>6. EntryAt[(k + 1) + 1] = EntryAt[k + 1] + EntrySize(e)
  <2>1. Layout(es, EntryAt)
      BY <1>1, EntriesLaid, Zenon
  <2> QED BY <1>4, <2>1, Zenon DEF Layout
<1>7. P[k + 1] = Take(P[k], e, "proc") /\ A[k + 1] = Take(A[k], e, "ioapic")
  <2>1. Listing(es, "proc", P) /\ Listing(es, "ioapic", A)
      BY <1>1, ListedSteps, Zenon
  <2> QED BY <1>4, <2>1, Zenon DEF Listing
<1>8. P[k] \in Seq(MpEntry) /\ A[k] \in Seq(MpEntry)
    BY <1>1, ListedTypes, Zenon
<1> HIDE DEF P, A, e, n
<1>9. p' = EntryAt[(k + 1) + 1]
    BY <1>2, <1>3, <1>6, Zenon
<1>10. \A i \in 1 .. k + 1 : es[i].ty # "other"
  <2>1. \A i \in 1 .. k + 1 : i \in 1 .. k \/ i = k + 1
      OBVIOUS
  <2> QED BY <1>2, <1>3, <2>1, Zenon DEF e
<1>11. cpus' = Ids(P[k + 1])
  <2>1. CASE e.ty = "proc"
    <3>1. P[k + 1] = Append(P[k], e)
        BY <1>7, <2>1, Zenon DEF Take
    <3>2. Ids(P[k + 1]) = IF Len(Ids(P[k])) = MAX_NCPU THEN Ids(P[k]) ELSE Append(Ids(P[k]), e.id)
        BY <1>5, <1>8, <3>1, IdsStep, Zenon
    <3> QED BY <1>2, <1>3, <2>1, <3>2, Zenon
  <2>2. CASE e.ty # "proc"
    <3>1. P[k + 1] = P[k]
        BY <1>7, <2>2, Zenon DEF Take
    <3> QED BY <1>2, <1>3, <2>2, <3>1, Zenon
  <2> QED BY <2>1, <2>2
<1>12. ioapic_id' = LastId(A[k + 1])
  <2>1. CASE e.ty = "ioapic"
    <3>1. A[k + 1] = Append(A[k], e)
        BY <1>7, <2>1, Zenon DEF Take
    <3>2. LastId(A[k + 1]) = e.id
        BY <1>5, <1>8, <3>1, LastIdStep, Zenon
    <3> QED BY <1>3, <2>1, <3>2, Zenon
  <2>2. CASE e.ty # "ioapic"
    <3>1. A[k + 1] = A[k]
        BY <1>7, <2>2, Zenon DEF Take
    <3> QED BY <1>2, <1>3, <2>2, <3>1, Zenon
  <2> QED BY <2>1, <2>2
<1>13. EntryAt' = EntryAt
    BY MachineFixed, Zenon
<1>14. Scanned(k + 1)'
    BY <1>9, <1>10, <1>11, <1>12, <1>13, Zenon DEF Scanned, P, A
<1> QED BY <1>4, <1>14 DEF n

\* Before the first entry.
LEMMA ScanStart ==
    ASSUME hw \in Hardware, hw' = hw, p' = HeaderSize, cpus' = << >>, ioapic_id' = 85
    PROVE  0 \in 0 .. Len(hw.table.entries) /\ Scanned(0)'
<1> DEFINE es == hw.table.entries
<1>1. es \in Seq(MpEntry) /\ 0 \in 0 .. Len(es)
    BY EntriesAreEntries
<1>2. EntryAt[1] = HeaderSize /\ ListedTo(es, "proc")[0] = << >> /\ ListedTo(es, "ioapic")[0] = << >>
    BY <1>1, EntriesLaid, ListedSteps, Zenon DEF Layout, Listing
<1>3. Ids(<< >>) = << >> /\ LastId(<< >>) = 85
  <2>1. MAX_NCPU \in Nat \ {0} /\ Len(<< >>) = 0
      BY SizesAssumption
  <2>2. Ids(<< >>) = [i \in 1 .. 0 |-> << >>[i].id]
      BY <2>1 DEF Ids
  <2> QED BY <2>2 DEF LastId
<1>4. EntryAt' = EntryAt
    BY MachineFixed, Zenon
<1>5. 0 + 1 = 1 /\ \A i \in 1 .. 0 : FALSE
    OBVIOUS
<1>6. p' = EntryAt'[0 + 1]
    BY <1>2, <1>4, <1>5
<1> QED BY <1>1, <1>2, <1>3, <1>5, <1>6, Zenon DEF Scanned

\* What was found stays found while the variables that hold it do.
LEMMA FoundFrame ==
    ASSUME UNCHANGED <<hw, mp, p, cpus, ioapic_id>>
    PROVE  /\ MpIsFirst' = MpIsFirst /\ TableGood' = TableGood
           /\ \A k : Scanned(k)' = Scanned(k)
<1>1. Candidates' = Candidates /\ EntryAt' = EntryAt
    BY MachineFixed, Zenon
<1>2. MpIsFirst' = MpIsFirst
    BY <1>1, Zenon DEF MpIsFirst
<1>3. TableGood' = TableGood
    BY Zenon DEF TableGood
<1>4. \A k : Scanned(k)' = Scanned(k)
    BY <1>1, Zenon DEF Scanned
<1> QED BY <1>2, <1>3, <1>4, Zenon

\* search and search1.
LEMMA SearchStep ==
    ASSUME Progress, Search \/ Search1Next \/ Search1Found \/ Search1End
    PROVE  Progress'
<1>0. hw \in Hardware /\ hw' = hw /\ pc \in {"search", "search1"} /\ ~lapic /\ lapic' = lapic
      /\ cpus = << >> /\ ioapic_id = 85 /\ cpus' = cpus /\ ioapic_id' = ioapic_id
    BY DEF Progress, Search, Search1Next, Search1Found, Search1End, found
<1>1. /\ KB \in Nat \ {0} /\ ROM \in Nat \ {0} /\ KbAt \in Nat /\ RomAt \in Nat
      /\ KbAt + KB <= RomAt
    BY Areas
<1>2. /\ KbAt' = KbAt /\ InKb' = InKb /\ Candidates' = Candidates /\ Usable' = Usable
      /\ \A a : Verified(a)' = Verified(a)
    BY <1>0, MachineFixed, Zenon
<1>3. CASE Search
  <2>1. addr' = KbAt /\ end' = KbAt + KB /\ pc' = "search1"
      BY <1>3 DEF Search, KbAt
  <2>2. addr' \in KbAt .. end' /\ \A a \in KbAt .. addr' - 1 : FALSE
      BY <1>1, <2>1
  <2>3. Hunting'
      BY <1>2, <2>1, <2>2, Zenon DEF Hunting
  <2> QED BY <1>0, <2>1, <2>3 DEF Progress, Points
<1>4. CASE Search1Next
  <2>1. pc = "search1" /\ pc' = "search1" /\ addr < end /\ ~Verified(addr) /\ addr' = addr + 1
        /\ end' = end
      BY <1>4 DEF Search1Next
  <2>2. Hunting
      BY <2>1 DEF Progress
  <2>3. Hunting'
    <3>1. CASE /\ end = KbAt + KB /\ addr \in KbAt .. end
               /\ \A a \in KbAt .. addr - 1 : ~Verified(a)
      <4>1. addr' \in KbAt .. end'
          BY <1>1, <2>1, <3>1
      <4>2. \A a \in KbAt .. addr' - 1 : a \in KbAt .. addr - 1 \/ a = addr
          BY <1>1, <2>1, <3>1
      <4>3. \A a \in KbAt .. addr' - 1 : ~Verified(a)
          BY <2>1, <3>1, <4>2, Zenon
      <4> QED BY <1>2, <2>1, <3>1, <4>1, <4>3, Zenon DEF Hunting
    <3>2. CASE /\ end = RomAt + ROM /\ addr \in RomAt .. end /\ InKb = {}
               /\ \A a \in RomAt .. addr - 1 : ~Verified(a)
      <4>1. addr' \in RomAt .. end'
          BY <1>1, <2>1, <3>2
      <4>2. \A a \in RomAt .. addr' - 1 : a \in RomAt .. addr - 1 \/ a = addr
          BY <1>1, <2>1, <3>2
      <4>3. \A a \in RomAt .. addr' - 1 : ~Verified(a)
          BY <2>1, <3>2, <4>2, Zenon
      <4> QED BY <1>2, <2>1, <3>2, <4>1, <4>3, Zenon DEF Hunting
    <3> QED BY <2>2, <3>1, <3>2, Zenon DEF Hunting
  <2> QED BY <1>0, <2>1, <2>3 DEF Progress, Points
<1>5. CASE Search1Found
  <2>1. pc = "search1" /\ pc' = "config" /\ addr < end /\ Verified(addr) /\ mp' = addr
      BY <1>5 DEF Search1Found
  <2>2. addr \in Candidates /\ \A b \in Candidates : addr <= b
      BY <2>1, FoundFirst, Zenon DEF Progress
  <2>3. MpIsFirst'
      BY <1>2, <2>1, <2>2, Zenon DEF MpIsFirst
  <2> QED BY <1>0, <2>1, <2>3 DEF Progress, Points
<1>6. CASE Search1End
  <2>0. pc = "search1" /\ addr = end
      BY <1>6 DEF Search1End
  <2>1. /\ end # RomAt + ROM => InKb = {}
        /\ end = RomAt + ROM => Candidates = {}
      BY <2>0, FoundNone, Zenon DEF Progress
  <2>2. CASE end # RomAt + ROM
    <3>1. addr' = RomAt /\ end' = RomAt + ROM /\ pc' = "search1"
        BY <1>6, <2>0, <2>2 DEF Search1End
    <3>2. addr' \in RomAt .. end' /\ \A a \in RomAt .. addr' - 1 : FALSE
        BY <1>1, <3>1
    <3>3. Hunting'
        BY <1>2, <2>1, <2>2, <3>1, <3>2, Zenon DEF Hunting
    <3> QED BY <1>0, <3>1, <3>3 DEF Progress, Points
  <2>3. CASE end = RomAt + ROM
    <3>1. pc' = "panic"
        BY <1>6, <2>3 DEF Search1End, Panic
    <3>2. ~Usable'
        BY <1>2, <2>1, <2>3, Zenon DEF Usable
    <3> QED BY <1>0, <3>1, <3>2 DEF Progress, Points
  <2> QED BY <2>2, <2>3
<1> QED BY <1>3, <1>4, <1>5, <1>6

\* config() and the entries.
LEMMA TableStep ==
    ASSUME Progress, Config \/ EntryProc \/ EntryIoApic \/ EntrySkip \/ EntryOther \/ MpDone
    PROVE  Progress'
<1> DEFINE es == hw.table.entries
           n == Len(es)
<1>0. hw \in Hardware /\ hw' = hw /\ mp' = mp /\ pc \in {"config", "entries"} /\ ~lapic
    BY Zenon DEF Progress, Config, EntryProc, EntryIoApic, EntrySkip, EntryOther, MpDone, More,
                 searching
<1>1. MpIsFirst
    BY <1>0 DEF Progress
<1>2. es \in Seq(MpEntry) /\ n \in Nat /\ DOMAIN es = 1 .. n
    BY <1>0, EntriesAreEntries
<1>3. Usable' = Usable /\ Candidates' = Candidates
    BY <1>0, MachineFixed, Zenon
<1>4. MpIsFirst'
    BY <1>0, <1>1, <1>3, Zenon DEF MpIsFirst
<1> HIDE DEF n, es
<1>5. CASE Config
  <2>1. pc = "config" /\ cpus = << >> /\ ioapic_id = 85
      BY <1>5, Zenon DEF Config, Progress
  <2>2. cpus' = cpus /\ ioapic_id' = ioapic_id /\ lapic' = lapic
      BY <1>5, Zenon DEF Config, found
  <2>3. CASE hw.mem[mp] # "null" /\ hw.table.sum = 0 /\ hw.table.version \in {1, 4}
    <3>1. pc' = "entries" /\ p' = HeaderSize
        BY <1>5, <2>3 DEF Config
    <3>2. hw.mem[mp] \in {"mp", "null"}
        BY <1>1, Zenon DEF MpIsFirst, Candidates, InKb, InRom
    <3>3. TableGood'
        BY <1>0, <2>3, <3>2 DEF TableGood
    <3>4. 0 \in 0 .. Len(hw.table.entries) /\ Scanned(0)'
        BY <1>0, <2>1, <2>2, <3>1, ScanStart, Zenon
    <3>5. \E k \in 0 .. Len(hw'.table.entries) : Scanned(k)'
        BY <1>0, <3>4, Zenon
    <3> QED BY <1>0, <1>4, <2>1, <2>2, <3>1, <3>3, <3>5 DEF Progress, Points
  <2>4. CASE ~(hw.mem[mp] # "null" /\ hw.table.sum = 0 /\ hw.table.version \in {1, 4})
    <3>1. pc' = "panic"
        BY <1>5, <2>4 DEF Config, Panic
    <3>2. ~Usable
        BY <1>1, <2>4, UsableIs
    <3> QED BY <1>0, <1>3, <2>2, <3>1, <3>2 DEF Progress, Points
  <2> QED BY <2>3, <2>4
<1>6. ASSUME pc = "entries"
      PROVE  TableGood /\ \E k \in 0 .. Len(hw.table.entries) : Scanned(k)
    BY <1>6, Zenon DEF Progress
<1>7. CASE EntryProc \/ EntryIoApic \/ EntrySkip
  <2>1. pc = "entries" /\ pc' = "entries" /\ lapic' = lapic /\ More /\ Entry.ty # "other"
      BY <1>7 DEF EntryProc, EntryIoApic, EntrySkip, More, found
  <2>2. p' = p + EntrySize(Entry)
      BY <1>7 DEF EntryProc, EntryIoApic, EntrySkip, EntrySize
  <2>3. cpus' = IF Entry.ty # "proc" \/ Len(cpus) = MAX_NCPU THEN cpus ELSE Append(cpus, Entry.id)
      BY <1>7 DEF EntryProc, EntryIoApic, EntrySkip, found
  <2>4. ioapic_id' = IF Entry.ty = "ioapic" THEN Entry.id ELSE ioapic_id
      BY <1>7 DEF EntryProc, EntryIoApic, EntrySkip, found
  <2>5. PICK k \in 0 .. Len(hw.table.entries) : Scanned(k)
      BY <1>6, <2>1, Zenon
  <2>6. k + 1 \in 0 .. Len(hw.table.entries) /\ Scanned(k + 1)'
      BY <1>0, <2>1, <2>2, <2>3, <2>4, <2>5, ScanStep, Zenon
  <2>7. \E i \in 0 .. Len(hw'.table.entries) : Scanned(i)'
      BY <1>0, <2>6, Zenon
  <2>8. TableGood'
      BY <1>0, <1>6, <2>1, Zenon DEF TableGood
  <2> QED BY <1>0, <1>4, <2>1, <2>7, <2>8 DEF Progress, Points
<1>8. CASE EntryOther
  <2>1. pc = "entries" /\ pc' = "panic" /\ lapic' = lapic /\ More /\ Entry.ty = "other"
      BY <1>8 DEF EntryOther, More, Panic, found
  <2>2. PICK k \in 0 .. Len(hw.table.entries) : Scanned(k)
      BY <1>6, <2>1, Zenon
  <2>3. p = EntryAt[k + 1]
      BY <2>2, Zenon DEF Scanned
  <2>4. p < EntryAt[Len(hw.table.entries) + 1]
      BY <2>1, Zenon DEF More
  <2>5. k # n /\ (k < n => Entry = es[k + 1])
      BY <1>2, <2>3, <2>4, EntryFound, Zenon DEF es, n
  <2>6. k \in 0 .. n
      BY DEF es, n
  <2>7. k + 1 \in 1 .. n /\ Entry = es[k + 1]
      BY <1>2, <2>5, <2>6
  <2>8. ~Usable
      BY <1>1, <1>2, <2>1, <2>7, UsableIs, Zenon DEF es
  <2> QED BY <1>0, <1>3, <2>1, <2>8 DEF Progress, Points
<1>9. CASE MpDone
  <2>1. pc = "entries" /\ pc' = "lapic" /\ lapic' = TRUE /\ ~More
        /\ p' = p /\ cpus' = cpus /\ ioapic_id' = ioapic_id
      BY <1>9 DEF MpDone, searching
  <2>2. PICK k \in 0 .. Len(hw.table.entries) : Scanned(k)
      BY <1>6, <2>1, Zenon
  <2>3. p = EntryAt[k + 1]
      BY <2>2, Zenon DEF Scanned
  <2>4. ~(p < EntryAt[Len(hw.table.entries) + 1])
      BY <2>1, Zenon DEF More
  <2>5. ~(k < n)
      BY <1>2, <2>3, <2>4, EntryFound, Zenon DEF es, n
  <2>6. k \in 0 .. n
      BY DEF es, n
  <2>7. k = n
      BY <1>2, <2>5, <2>6
  <2>8. UNCHANGED <<hw, mp, p, cpus, ioapic_id>>
      BY <1>0, <2>1
  <2>9. Scanned(Len(hw.table.entries))' /\ TableGood'
      BY <1>0, <1>6, <2>1, <2>2, <2>7, <2>8, FoundFrame, Zenon DEF n, es
  <2>10. lapic' /\ pc' = "lapic" /\ hw' \in Hardware
      BY <1>0, <2>1
  <2> QED BY <1>4, <2>1, <2>9, <2>10 DEF Progress, Points
<1> QED BY <1>5, <1>7, <1>8, <1>9

\* The processors listed are those of Known.
LEMMA KnownIds ==
    ASSUME hw \in Hardware
    PROVE  /\ Len(Known) \in Nat
           /\ Ids(Listed("proc")) = [i \in 1 .. Len(Known) |-> Known[i].id]
<1> DEFINE l == Listed("proc")
           m == IF Len(l) < MAX_NCPU THEN Len(l) ELSE MAX_NCPU
<1>1. l \in Seq(MpEntry)
  <2>1. hw.table.entries \in Seq(MpEntry) /\ Len(hw.table.entries) \in 0 .. Len(hw.table.entries)
      BY EntriesAreEntries
  <2> QED BY <2>1, ListedTypes, Zenon DEF Listed
<1>2. Known = SubSeq(l, 1, m)
    BY Zenon DEF Known
<1>3. Ids(l) = [i \in 1 .. m |-> l[i].id]
    BY Zenon DEF Ids
<1> HIDE DEF l
<1>4. m \in Nat /\ m <= Len(l) /\ Len(l) \in Nat
    BY <1>1, SizesAssumption
<1> HIDE DEF m
<1>5. Len(Known) = m /\ \A i \in 1 .. m : Known[i] = l[i]
    BY <1>1, <1>2, <1>4
<1>6. [i \in 1 .. Len(Known) |-> Known[i].id] = [i \in 1 .. m |-> l[i].id]
    BY <1>5
<1> QED BY <1>3, <1>4, <1>5, <1>6 DEF l

\* The rest of main() leaves what mp::init found alone.
LEMMA LaterStep ==
    ASSUME Progress,
           \/ LapicInit \/ Seginit \/ PicInit \/ IoapicInit
           \/ ConsoleInit \/ UartInit \/ TrapInit \/ IdeInit
    PROVE  Progress'
<1>1. UNCHANGED <<hw, mp, p, cpus, ioapic_id, lapic>>
    BY Zenon DEF LapicInit, Seginit, PicInit, IoapicInit, ConsoleInit, UartInit, TrapInit, IdeInit,
           searching, found
<1>2. pc \in {"lapic"} \cup (Late \ {"done"})
    BY Zenon DEF LapicInit, Seginit, PicInit, IoapicInit, ConsoleInit, UartInit, TrapInit, IdeInit,
                 Late
<1>3. hw \in Hardware /\ lapic /\ lapic \in BOOLEAN
      /\ MpIsFirst /\ TableGood /\ Scanned(Len(hw.table.entries))
    BY <1>2 DEF Progress, Late
<1>4. hw' \in Hardware /\ lapic' /\ lapic' \in BOOLEAN
    BY <1>1, <1>3, Zenon
<1>5. MpIsFirst' /\ TableGood' /\ Scanned(Len(hw.table.entries))'
    BY <1>1, <1>3, FoundFrame, Zenon
<1>6. CASE pc' = "panic"
  <2>1. Seginit /\ \A i \in 1 .. Len(cpus) : cpus[i] # Bsp
      BY <1>6, Zenon DEF LapicInit, Seginit, PicInit, IoapicInit, ConsoleInit, UartInit, TrapInit,
                         IdeInit
  <2>2. cpus = Ids(Listed("proc"))
      BY <1>3, Zenon DEF Scanned, Listed
  <2>3. Len(Known) \in Nat /\ cpus = [i \in 1 .. Len(Known) |-> Known[i].id]
      BY <1>3, <2>2, KnownIds, Zenon
  <2>4. NoBoot
      BY <2>1, <2>3 DEF NoBoot
  <2>5. NoBoot'
      BY <1>1, <2>4, MachineFixed, Zenon
  <2> QED BY <1>4, <1>5, <1>6, <2>5 DEF Progress, Points
<1>7. CASE pc' # "panic"
  <2>1. pc' \in Late
      BY <1>7, Zenon DEF LapicInit, Seginit, PicInit, IoapicInit, ConsoleInit, UartInit, TrapInit,
                         IdeInit,
                  Late, Panic
  <2> QED BY <1>4, <1>5, <2>1 DEF Progress, Points, Late
<1> QED BY <1>6, <1>7

\* Progress is kept.
LEMMA ProgressStep ==
    ASSUME Progress, [Next]_vars PROVE Progress'
<1>1. CASE Search \/ Search1Next \/ Search1Found \/ Search1End
    BY <1>1, SearchStep
<1>2. CASE Config \/ EntryProc \/ EntryIoApic \/ EntrySkip \/ EntryOther \/ MpDone
    BY <1>2, TableStep
<1>3. CASE \/ LapicInit \/ Seginit \/ PicInit \/ IoapicInit
           \/ ConsoleInit \/ UartInit \/ TrapInit \/ IdeInit
    BY <1>3, LaterStep
<1>4. CASE UNCHANGED vars
  <2>1. UNCHANGED <<hw, pc, addr, end, mp, p, cpus, ioapic_id, lapic>>
      BY <1>4 DEF vars
  <2>2. /\ MpIsFirst' = MpIsFirst /\ TableGood' = TableGood
        /\ \A k : Scanned(k)' = Scanned(k)
      BY <2>1, FoundFrame, Zenon
  <2>3. Usable' = Usable /\ NoBoot' = NoBoot
      BY <2>1, MachineFixed, Zenon
  <2>4. Hunting' = Hunting
      BY <2>1, MachineFixed, Zenon DEF Hunting
  <2>5. hw' \in Hardware /\ pc' = pc /\ lapic' = lapic /\ cpus' = cpus /\ ioapic_id' = ioapic_id
        /\ hw'.table.entries = hw.table.entries
      BY <2>1, Zenon DEF Progress
  <2> QED BY <2>2, <2>3, <2>4, <2>5 DEF Progress
<1> QED BY <1>1, <1>2, <1>3, <1>4 DEF Next

-----------------------------------------------------------------------------
(* The ranges of the variables *)

\* The descriptors of seginit are made of 16-bit halves.
LEMMA SegHalves ==
    ASSUME NEW ty \in {2, 10}, NEW dpl \in {0, 3}
    PROVE  Seg(ty, ZeroBase, AllOnes, dpl) \in Desc
<1> DEFINE w == [lo |-> 65535, hi |-> 15]
           access == 144 + (dpl % 4) * 32 + ty
<1>1. ZeroBase \in Word /\ w \in Word
    BY DEF ZeroBase, Word, Half
<1>2. Shr12(AllOnes) = w
    BY DEF Shr12, AllOnes
<1>3. ZeroBase.lo = 0 /\ ZeroBase.hi = 0 /\ w.lo = 65535 /\ w.hi = 15
    BY DEF ZeroBase
<1>4. access \in 0 .. 255
    BY DEF access
<1> HIDE DEF w
<1>5. Seg(ty, ZeroBase, AllOnes, dpl)
        = SetFlags(SetAccessByte(SetLim(SetBase(NewDesc, ZeroBase), w), access), 12)
    BY <1>2, Zenon DEF Seg
<1> HIDE DEF access
<1>6. Seg(ty, ZeroBase, AllOnes, dpl) =
        [f1lo |-> w.lo, f1hi |-> ZeroBase.lo, f2lo |-> PackedLow(ZeroBase.hi % 256, access),
         f2hi |-> PackedHigh(ZeroBase.hi, w.hi, 12)]
    BY <1>1, <1>5, Packed
<1>7. PackedLow(0 % 256, access) = access * 256
    BY <1>4 DEF PackedLow
<1>8. PackedHigh(0, 15, 12) = 207
    BY DEF PackedHigh
<1>9. w.lo \in Half /\ ZeroBase.lo \in Half
    BY <1>3, SMT DEF Half
<1>10. PackedLow(ZeroBase.hi % 256, access) \in Half
    BY <1>3, <1>4, <1>7, SMT DEF Half
<1>11. PackedHigh(ZeroBase.hi, w.hi, 12) \in Half
    BY <1>3, <1>8, SMT DEF Half
<1>12. \A x, y, u, v \in Half : [f1lo |-> x, f1hi |-> y, f2lo |-> u, f2hi |-> v] \in Desc
    BY Zenon DEF Desc
<1> DEFINE low == PackedLow(ZeroBase.hi % 256, access)
           high == PackedHigh(ZeroBase.hi, w.hi, 12)
           d == Seg(ty, ZeroBase, AllOnes, dpl)
<1>13. /\ d = [f1lo |-> w.lo, f1hi |-> ZeroBase.lo, f2lo |-> low, f2hi |-> high]
       /\ low \in Half /\ high \in Half
    BY <1>6, <1>10, <1>11, SMT
<1> HIDE DEF low, high, d
<1>14. d \in Desc
    BY <1>9, <1>12, <1>13, Zenon
<1> QED BY <1>14 DEF d

\* Where the offset of the next entry lies.
LEMMA OffsetInTable ==
    ASSUME hw \in Hardware, NEW k \in 0 .. Len(hw.table.entries)
    PROVE  EntryAt[k + 1] \in 0 .. EntryAt[Len(hw.table.entries) + 1]
<1> DEFINE es == hw.table.entries
           n == Len(es)
           g == EntryAt
<1>1. es \in Seq(MpEntry)
    BY EntriesAreEntries
<1>2. n \in Nat
    BY <1>1
<1>3. /\ \A i \in 1 .. n + 1 : g[i] \in Nat
      /\ \A i, j \in 1 .. n + 1 : i < j => g[i] < g[j]
    BY <1>1, EntriesLaid, LayoutGrows, Zenon
<1> HIDE DEF g, n
<1>4. k \in 0 .. n
    BY DEF n
<1>5. g[k + 1] \in 0 .. g[n + 1]
    BY <1>2, <1>3, <1>4
<1> QED BY <1>5 DEF g, n

\* The steps of mp::init stay inside what they walk over.
LEMMA FindingRanges ==
    ASSUME FoundInv, Progress',
           \/ Search \/ Search1Next \/ Search1Found \/ Search1End \/ Config
           \/ EntryProc \/ EntryIoApic \/ EntrySkip \/ EntryOther \/ MpDone
    PROVE  Ranges'
<1>1. hw \in Hardware /\ hw' = hw /\ UNCHANGED <<gdt, idt>>
    BY Zenon DEF FoundInv, Progress, Search, Search1Next, Search1Found, Search1End, Config,
                 EntryProc,
           EntryIoApic, EntrySkip, EntryOther, MpDone, tables
<1>2. /\ KB \in Nat \ {0} /\ ROM \in Nat \ {0} /\ KbAt \in Nat /\ RomAt \in Nat
      /\ KbAt + KB <= RomAt /\ RomAt + ROM = 2 * (KB + ROM)
    BY Areas
<1>3. addr \in 0 .. 2 * (KB + ROM) /\ end \in 0 .. 2 * (KB + ROM) /\ mp \in Paragraphs
    BY DEF FoundInv, Ranges
<1>4. addr' \in 0 .. 2 * (KB + ROM) /\ end' \in 0 .. 2 * (KB + ROM)
  <2>1. CASE Search
    <3>1. addr' = KbAt /\ end' = KbAt + KB
        BY <2>1 DEF Search, KbAt
    <3> QED BY <1>2, <3>1
  <2>2. CASE Search1Next
    <3>1. addr < end /\ addr' = addr + 1 /\ end' = end
        BY <2>2 DEF Search1Next
    <3> QED BY <1>2, <1>3, <3>1
  <2>3. CASE Search1End
    <3>1. (addr' = RomAt /\ end' = RomAt + ROM) \/ UNCHANGED <<addr, end>>
        BY <2>3 DEF Search1End
    <3> QED BY <1>2, <1>3, <3>1
  <2>4. CASE ~(Search \/ Search1Next \/ Search1End)
    <3>1. UNCHANGED <<addr, end>>
        BY <2>4 DEF Search1Found, Config, EntryProc, EntryIoApic, EntrySkip, EntryOther, MpDone,
                    searching
    <3> QED BY <1>3, <3>1
  <2> QED BY <2>1, <2>2, <2>3, <2>4
<1>5. mp' \in Paragraphs
  <2>1. CASE Search1Found
    <3>1. addr < end /\ mp' = addr
        BY <2>1 DEF Search1Found
    <3> QED BY <1>2, <1>3, <3>1 DEF Paragraphs
  <2>2. CASE ~Search1Found
    <3>1. mp' = mp
        BY <2>2, Zenon DEF Search, Search1Next, Search1End, Config, EntryProc, EntryIoApic,
                           EntrySkip,
                    EntryOther, MpDone, searching
    <3> QED BY <1>3, <3>1
  <2> QED BY <2>1, <2>2
<1>6. EntryAt' = EntryAt
    BY <1>1, MachineFixed, Zenon
<1>7. p' \in 0 .. EntryAt[Len(hw.table.entries) + 1]
  <2>1. CASE pc' = "entries"
    <3>1. PICK k \in 0 .. Len(hw'.table.entries) : Scanned(k)'
        BY <2>1, Zenon DEF Progress
    <3>2. p' = EntryAt'[k + 1]
        BY <3>1, Zenon DEF Scanned
    <3>3. k \in 0 .. Len(hw.table.entries) /\ p' = EntryAt[k + 1]
        BY <1>1, <1>6, <3>1, <3>2, Zenon
    <3> QED BY <1>1, <3>3, OffsetInTable, Zenon
  <2>2. CASE pc' # "entries"
    <3>1. p' = p
        BY <2>2, Zenon DEF Search, Search1Next, Search1Found, Search1End, Config, EntryProc,
                           EntryIoApic,
                    EntrySkip, EntryOther, MpDone, More, searching, Panic
    <3> QED BY <3>1 DEF FoundInv, Ranges
  <2> QED BY <2>1, <2>2
<1>8. Len(cpus') <= MAX_NCPU /\ ioapic_id' \in Nat
  <2>1. CASE pc' = "entries"
    <3> DEFINE es == hw.table.entries
    <3>1. PICK k \in 0 .. Len(hw'.table.entries) : Scanned(k)'
        BY <2>1, Zenon DEF Progress
    <3>2. cpus' = Ids(ListedTo(es, "proc")[k]) /\ ioapic_id' = LastId(ListedTo(es, "ioapic")[k])
        BY <1>1, <3>1, Zenon DEF Scanned
    <3>3. k \in 0 .. Len(es) /\ es \in Seq(MpEntry)
        BY <1>1, <3>1, EntriesAreEntries, Zenon
    <3>4. ListedTo(es, "proc")[k] \in Seq(MpEntry) /\ ListedTo(es, "ioapic")[k] \in Seq(MpEntry)
        BY <3>3, ListedTypes, Zenon
    <3>5. [ty |-> "bus", id |-> 0] \in MpEntry
        BY DEF MpEntry
    <3> QED BY <3>2, <3>4, <3>5, IdsStep, LastIdStep, Zenon
  <2>2. CASE pc' # "entries"
    <3>1. cpus' = cpus /\ ioapic_id' = ioapic_id
        BY <2>2, Zenon DEF Search, Search1Next, Search1Found, Search1End, Config, EntryProc,
                           EntryIoApic,
                    EntrySkip, EntryOther, MpDone, More, found, Panic
    <3> QED BY <3>1 DEF FoundInv, Ranges
  <2> QED BY <2>1, <2>2
<1>9. pic' \subseteq {"imcr", "masked"}
  <2>1. pic' = pic \/ pic' = {} \/ pic' = {"imcr"}
      BY Zenon DEF Search, Search1Next, Search1Found, Search1End, Config, EntryProc, EntryIoApic,
             EntrySkip, EntryOther, MpDone, tables
  <2> QED BY <2>1, Zenon DEF FoundInv, Ranges
<1>10. (\A i \in DOMAIN gdt' : gdt'[i] \in Desc) /\ DOMAIN idt' = 0 .. 255
    BY <1>1 DEF FoundInv, Ranges
<1> QED BY <1>1, <1>4, <1>5, <1>6, <1>7, <1>8, <1>9, <1>10, Zenon DEF Ranges

\* The rest of main() writes descriptors and masks the 8259As.
LEMMA LaterRanges ==
    ASSUME FoundInv,
           \/ LapicInit \/ Seginit \/ PicInit \/ IoapicInit
           \/ ConsoleInit \/ UartInit \/ TrapInit \/ IdeInit
    PROVE  Ranges'
<1>1. UNCHANGED <<hw, addr, end, mp, p, cpus, ioapic_id>>
    BY Zenon DEF LapicInit, Seginit, PicInit, IoapicInit, ConsoleInit, UartInit, TrapInit, IdeInit,
           searching, found
<1>2. EntryAt' = EntryAt
    BY <1>1, MachineFixed, Zenon
<1>3. pic' \subseteq {"imcr", "masked"}
  <2>1. pic' = pic \/ pic' = pic \cup {"masked"}
      BY Zenon DEF LapicInit, Seginit, PicInit, IoapicInit, ConsoleInit, UartInit, TrapInit, IdeInit
  <2> QED BY <2>1, Zenon DEF FoundInv, Ranges
<1>4. \A i \in DOMAIN gdt' : gdt'[i] \in Desc
  <2>1. \A i \in DOMAIN gdt : gdt[i] \in Desc
      BY DEF FoundInv, Ranges
  <2>2. CASE gdt' = gdt
      BY <2>1, <2>2
  <2>3. CASE gdt' # gdt
    <3> DEFINE a == Seg(10, ZeroBase, AllOnes, 0)
               b == Seg(2, ZeroBase, AllOnes, 0)
               c == Seg(10, ZeroBase, AllOnes, USER)
               d == Seg(2, ZeroBase, AllOnes, USER)
    <3>1. gdt' = [gdt EXCEPT ![SEG_KCODE] = a, ![SEG_KDATA] = b, ![SEG_UCODE] = c, ![SEG_UDATA] = d]
        BY <2>3, Zenon DEF LapicInit, Seginit, PicInit, IoapicInit, ConsoleInit, UartInit, TrapInit,
                           IdeInit
    <3>2. a \in Desc /\ b \in Desc /\ c \in Desc /\ d \in Desc
        BY SegHalves, Zenon DEF USER
    <3> HIDE DEF a, b, c, d
    <3> QED BY <2>1, <3>1, <3>2
  <2> QED BY <2>2, <2>3
<1>5. DOMAIN idt' = 0 .. 255
  <2>1. CASE TrapInit
      BY <2>1 DEF TrapInit
  <2>2. CASE ~TrapInit
    <3>1. idt' = idt
        BY <2>2, Zenon DEF LapicInit, Seginit, PicInit, IoapicInit, ConsoleInit, UartInit, IdeInit
    <3> QED BY <3>1 DEF FoundInv, Ranges
  <2> QED BY <2>1, <2>2
<1> QED BY <1>1, <1>2, <1>3, <1>4, <1>5, Zenon DEF FoundInv, Ranges

\* The invariant holds at the start.
LEMMA FoundInit == Init => FoundInv
<1> SUFFICES ASSUME Init PROVE FoundInv
    OBVIOUS
<1>1. /\ hw \in Hardware /\ pc = "search" /\ addr = 0 /\ end = 0 /\ mp = 0 /\ p = 0
      /\ cpus = << >> /\ ioapic_id = 85 /\ lapic = FALSE /\ pic = {}
    BY Zenon DEF Init
<1>2. gdt = [i \in 0 .. NSEGS - 1 |-> NewDesc] /\ DOMAIN idt = 0 .. 255
    BY Zenon DEF Init
<1>3. Progress
    BY <1>1, Zenon DEF Progress, Points
<1>4. KB \in Nat \ {0} /\ ROM \in Nat \ {0} /\ MAX_NCPU \in Nat
    BY SizesAssumption
<1>5. addr \in 0 .. 2 * (KB + ROM) /\ end \in 0 .. 2 * (KB + ROM) /\ mp \in Paragraphs
      /\ Len(cpus) <= MAX_NCPU /\ ioapic_id \in Nat /\ pic \subseteq {"imcr", "masked"}
    BY <1>1, <1>4 DEF Paragraphs
<1>6. p \in 0 .. EntryAt[Len(hw.table.entries) + 1]
  <2>1. hw.table.entries \in Seq(MpEntry) /\ Len(hw.table.entries) \in 0 .. Len(hw.table.entries)
      BY <1>1, EntriesAreEntries
  <2>2. EntryAt[Len(hw.table.entries) + 1] \in 0 .. EntryAt[Len(hw.table.entries) + 1]
      BY <1>1, <2>1, OffsetInTable, Zenon
  <2> DEFINE t == EntryAt[Len(hw.table.entries) + 1]
  <2> HIDE DEF t
  <2>3. t \in 0 .. t
      BY <2>2, Zenon DEF t
  <2>4. p \in 0 .. t
      BY <1>1, <2>3
  <2> QED BY <2>4, Zenon DEF t
<1>7. NewDesc \in Desc
    BY DEF NewDesc, Desc, Half
<1>8. \A i \in DOMAIN gdt : gdt[i] \in Desc
    BY <1>2, <1>7
<1> QED BY <1>2, <1>3, <1>5, <1>6, <1>8, Zenon DEF FoundInv, Ranges

\* Every step keeps it.
LEMMA FoundNext == FoundInv /\ [Next]_vars => FoundInv'
<1> SUFFICES ASSUME FoundInv, [Next]_vars PROVE FoundInv'
    OBVIOUS
<1>1. Progress'
    BY ProgressStep, Zenon DEF FoundInv
<1>2. CASE \/ Search \/ Search1Next \/ Search1Found \/ Search1End \/ Config
           \/ EntryProc \/ EntryIoApic \/ EntrySkip \/ EntryOther \/ MpDone
    BY <1>1, <1>2, FindingRanges DEF FoundInv
<1>3. CASE \/ LapicInit \/ Seginit \/ PicInit \/ IoapicInit
           \/ ConsoleInit \/ UartInit \/ TrapInit \/ IdeInit
    BY <1>1, <1>3, LaterRanges DEF FoundInv
<1>4. CASE UNCHANGED vars
  <2>1. UNCHANGED <<hw, addr, end, mp, p, cpus, ioapic_id, pic, gdt, idt>>
      BY <1>4 DEF vars
  <2>2. EntryAt' = EntryAt
      BY <2>1, MachineFixed, Zenon
  <2>3. Ranges'
      BY <2>1, <2>2, Zenon DEF FoundInv, Ranges
  <2> QED BY <1>1, <2>3 DEF FoundInv
<1> QED BY <1>2, <1>3, <1>4, Zenon DEF Next

\* What mp::init has read so far is right at every step, on every machine.
THEOREM FindingInvariant == Spec => []FoundInv
BY FoundInit, FoundNext, PTL DEF Spec

\* main() keeps every variable in its type, and the offset of the next entry and the address
\* of the next paragraph inside what they walk over.
THEOREM TypeCorrect == Spec => []TypeOK
<1>1. FoundInv => TypeOK
  <2> SUFFICES ASSUME FoundInv PROVE TypeOK
      OBVIOUS
  <2>1. pc = "search1" => addr <= end
    <3>1. ASSUME pc = "search1" PROVE addr <= end
      <4>1. Hunting
          BY <3>1 DEF FoundInv, Progress
      <4>2. addr \in KbAt .. end \/ addr \in RomAt .. end
          BY <4>1, Zenon DEF Hunting
      <4> QED BY <4>2
    <3> QED BY <3>1
  <2> QED BY <2>1, Zenon DEF FoundInv, Progress, Points, Ranges, Desc, TypeOK
<1> QED BY <1>1, FindingInvariant, PTL

\* mp::init finds exactly the first MAX_NCPU processors of the configuration table and its last
\* I/O APIC, and main() panics only on a machine without a usable table or a listed boot CPU.
THEOREM ProcessorsFound == Spec => []CpusFound
<1>1. FoundInv => CpusFound
  <2> SUFFICES ASSUME FoundInv PROVE CpusFound
      OBVIOUS
  <2>1. pc = "panic" => ~Usable \/ \A i \in 1 .. Len(Known) : Known[i].id # Bsp
      BY Zenon DEF FoundInv, Progress, NoBoot
  <2>2. ASSUME lapic
        PROVE  /\ Usable /\ cpus = [i \in 1 .. Len(Known) |-> Known[i].id]
               /\ ioapic_id = IF Listed("ioapic") = << >> THEN 85
                              ELSE Listed("ioapic")[Len(Listed("ioapic"))].id
    <3> DEFINE es == hw.table.entries
    <3>1. hw \in Hardware /\ MpIsFirst /\ TableGood /\ Scanned(Len(es))
        BY <2>2, Zenon DEF FoundInv, Progress
    <3>2. (\A i \in 1 .. Len(es) : es[i].ty # "other") /\ cpus = Ids(Listed("proc"))
          /\ ioapic_id = LastId(Listed("ioapic"))
        BY <3>1, Zenon DEF Scanned, Listed
    <3>3. DOMAIN es = 1 .. Len(es)
      <4>1. es \in Seq(MpEntry)
          BY <3>1, EntriesAreEntries
      <4> QED BY <4>1
    <3>4. Usable
        BY <3>1, <3>2, <3>3, UsableIs, Zenon DEF TableGood
    <3>5. cpus = [i \in 1 .. Len(Known) |-> Known[i].id]
        BY <3>1, <3>2, KnownIds, Zenon
    <3> QED BY <3>2, <3>4, <3>5, Zenon DEF LastId
  <2> QED BY <2>1, <2>2, Zenon DEF CpusFound
<1> QED BY <1>1, FindingInvariant, PTL
================================================================================
