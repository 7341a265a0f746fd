------------------------------ MODULE MCMachine -----------------------------
(***************************************************************************)
(* Two paragraphs per area, two CPUs at most. One family of machines has   *)
(* every content of memory with a plain table, the other every table of up *)
(* to four entries behind one structure in the ROM.                        *)
(***************************************************************************)
EXTENDS Machine

E(ty, id) == [ty |-> ty, id |-> id]
Entries == {E("proc", 0), E("proc", 1), E("proc", 5), E("bus", 0), E("ioapic", 2),
            E("other", 0)}
\* No two processors share an APIC id.
Distinct(t) == \A i, j \in DOMAIN t : t[i].ty = "proc" /\ t[i] = t[j] => i = j
Tables == {t \in UNION {[1 .. n -> Entries] : n \in 0 .. 4} : Distinct(t)}

Plain == <<E("proc", 0), E("lintr", 0), E("proc", 1), E("iointr", 0), E("ioapic", 2)>>
Machine0 == [mem |-> [a \in Paragraphs |-> IF a = RomAt THEN "mp" ELSE "none"], ebda |-> FALSE,
             table |-> [sum |-> 0, version |-> 4, entries |-> Plain],
             uart |-> TRUE, disk1 |-> TRUE, imcr |-> TRUE, lvt |-> 5, pins |-> 24]

Empty == [a \in Paragraphs |-> "none"]
Images == {[Empty EXCEPT ![a] = x, ![b] = y] :
             a \in Paragraphs, b \in Paragraphs, x \in {"none", "bad", "null", "mp"},
             y \in {"none", "bad", "null", "mp"}}

MCHardware ==
    {[Machine0 EXCEPT !.mem = f, !.ebda = b] : f \in Images, b \in BOOLEAN}
      \cup {[Machine0 EXCEPT !.table.entries = t] : t \in Tables}
      \cup {[Machine0 EXCEPT !.table.sum = s, !.table.version = n, !.uart = u, !.disk1 = u,
                             !.imcr = u, !.lvt = l] :
              s \in {0, 1}, n \in {0, 1, 2, 4}, u \in BOOLEAN, l \in {3, 4}}
=============================================================================
