---------------------------- MODULE Descriptors -----------------------------
(***************************************************************************)
(* Segment and gate descriptors (kernel/src/memory.rs, mod seg and gate):  *)
(* how the code packs them, and how the processor takes them apart. A u32  *)
(* is a pair of 16-bit halves.                                             *)
(***************************************************************************)
EXTENDS Integers

Half == {n \in Nat : n < 65536}
Word == [lo : Half, hi : Half]

\* SegDesc::new(), GateDesc::new()
NewDesc == [f1lo |-> 0, f1hi |-> 0, f2lo |-> 0, f2hi |-> 0]

Shr12(w) == [lo |-> (w.hi % 4096) * 16 + (w.lo \div 4096), hi |-> w.hi \div 4096]

-----------------------------------------------------------------------------
(* SegDesc. Each setter clears its own bits and leaves the others alone. *)

SetLim(d, limit) ==
    [f1lo |-> limit.lo, f1hi |-> d.f1hi,
     f2lo |-> d.f2lo,   f2hi |-> (d.f2hi - (d.f2hi % 16)) + (limit.hi % 16)]

SetBase(d, base) ==
    [f1lo |-> d.f1lo, f1hi |-> base.lo,
     f2lo |-> (d.f2lo - (d.f2lo % 256)) + (base.hi % 256),
     f2hi |-> (d.f2hi % 256) + (base.hi - (base.hi % 256))]

SetFlags(d, flags) ==
    [d EXCEPT !.f2hi = (@ - ((@ \div 16) % 16) * 16) + (flags % 16) * 16]

SetAccessByte(d, access) == [d EXCEPT !.f2lo = (@ % 256) + access * 256]

\* SegDesc::seg: 4 KiB granularity, 32 bits.
Seg(ty, base, lim, dpl) ==
    SetFlags(SetAccessByte(SetLim(SetBase(NewDesc, base), Shr12(lim)),
                           144 + (dpl % 4) * 32 + ty), 12)

\* SegDesc::tss: the limit is in bytes.
Tss(ty, base, lim, dpl) ==
    SetFlags(SetAccessByte(SetLim(SetBase(NewDesc, base), lim), 128 + (dpl % 4) * 32 + ty), 4)

-----------------------------------------------------------------------------
(* GateDesc *)

SetOffset(d, offset) ==
    [f1lo |-> offset.lo, f1hi |-> d.f1hi, f2lo |-> d.f2lo, f2hi |-> offset.hi]
SetSelector(d, selector) == [d EXCEPT !.f1hi = selector]
SetTypeAttribute(d, attr) == [d EXCEPT !.f2lo = (@ % 256) + attr * 256]

\* GateDesc::set: P = 1, DPL, S = 0, and 0xF for a trap, 0xE for an interrupt gate.
Gate(is_trap, selector, offset, dpl) ==
    SetTypeAttribute(SetSelector(SetOffset(NewDesc, offset), selector),
                     128 + (dpl % 4) * 32 + (IF is_trap THEN 15 ELSE 14))

-----------------------------------------------------------------------------
(* The processor's view (Intel SDM, volume 3: segment and gate descriptors). *)

SegFields(d) ==
    [base    |-> [lo |-> d.f1hi, hi |-> (d.f2hi \div 256) * 256 + (d.f2lo % 256)],
     limit   |-> [lo |-> d.f1lo, hi |-> d.f2hi % 16],
     type    |-> (d.f2lo \div 256) % 16,
     s       |-> (d.f2lo \div 4096) % 2,
     dpl     |-> (d.f2lo \div 8192) % 4,
     p       |-> d.f2lo \div 32768,
     flags   |-> (d.f2hi \div 16) % 16]

GateFields(d) ==
    [offset   |-> [lo |-> d.f1lo, hi |-> d.f2hi],
     selector |-> d.f1hi,
     type     |-> (d.f2lo \div 256) % 16,
     s        |-> (d.f2lo \div 4096) % 2,
     dpl      |-> (d.f2lo \div 8192) % 4,
     p        |-> d.f2lo \div 32768]
=============================================================================
