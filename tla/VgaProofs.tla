------------------------------ MODULE VgaProofs ------------------------------
(***************************************************************************)
(* The console shows what was printed, for every screen size and every set *)
(* of messages. The model and the reference are loops over sequences, so   *)
(* the proof begins with induction over the natural numbers and the steps  *)
(* of those loops. What is left is the state of the screen after any text: *)
(* Shows(LinesOf(text), writer), kept by new_line and write_byte.          *)
(***************************************************************************)
EXTENDS Vga, SequenceTheorems, WellFoundedInduction, TLAPS

-----------------------------------------------------------------------------
(* Induction *)

(* Induction over the natural numbers, for a set in the place of a predicate. *)
LEMMA Induction ==
    ASSUME NEW S \in SUBSET Nat, 0 \in S, \A n \in S : n + 1 \in S
    PROVE  S = Nat
<1> SUFFICES ASSUME S # Nat PROVE FALSE
    OBVIOUS
<1> DEFINE T == Nat \ S
           R == OpToRel(<, Nat)
<1>1. T # {} /\ T \subseteq Nat
    BY Zenon
<1>2. IsWellFoundedOn(R, Nat)
    BY NatLessThanWellFounded, Zenon
<1>3. \A x, y \in Nat : y < x => <<y, x>> \in R
    BY DEF OpToRel
<1> HIDE DEF T, R
<1>4. PICK x \in T : \A y \in T : <<y, x>> \notin R
    BY <1>1, <1>2, WFMin, Zenon
<1>5. \A y \in T : ~(y < x)
    BY <1>1, <1>3, <1>4, Zenon
<1>6. x \in Nat /\ x # 0 /\ x \notin S
    BY DEF T
<1>7. x - 1 \in Nat /\ x - 1 < x /\ (x - 1) + 1 = x
    BY <1>6
<1>8. x - 1 \in S
    BY <1>5, <1>7 DEF T
<1> QED BY <1>6, <1>7, <1>8

(* The same up to a bound. *)
LEMMA BoundedInduction ==
    ASSUME NEW n \in Nat, NEW S, 0 \in S, \A i \in 0..(n - 1) : i \in S => i + 1 \in S
    PROVE  \A i \in 0..n : i \in S
<1> DEFINE U == {i \in Nat : i <= n => i \in S}
<1>1. 0 \in U
    OBVIOUS
<1>2. ASSUME NEW i \in U PROVE i + 1 \in U
    OBVIOUS
<1>3. U = Nat
  <2>1. U \in SUBSET Nat
      OBVIOUS
  <2> HIDE DEF U
  <2> QED BY <1>1, <1>2, <2>1, Induction, Zenon
<1> QED BY <1>3

-----------------------------------------------------------------------------
(* The loops *)

\* The function that LinesOf(T) defines.
LinesIter(T, f, n) == f = [i \in 0..n |-> IF i = 0 THEN << <<>> >> ELSE AddCell(f[i - 1], T[i])]

(* It exists. *)
LEMMA LinesIterExists ==
    ASSUME NEW T, NEW n \in Nat
    PROVE  \E f : LinesIter(T, f, n)
<1> DEFINE S == {m \in Nat : \E f : LinesIter(T, f, m)}
<1>1. 0 \in S
  <2> DEFINE f == [i \in 0..0 |-> << <<>> >>]
  <2>1. \A i \in 0..0 : i = 0
      OBVIOUS
  <2>2. f = [i \in 0..0 |-> IF i = 0 THEN << <<>> >> ELSE AddCell(f[i - 1], T[i])]
      BY <2>1
  <2>3. LinesIter(T, f, 0)
      BY <2>2, Zenon DEF LinesIter
  <2> QED BY <2>3
<1>2. ASSUME NEW m \in S PROVE m + 1 \in S
  <2>1. PICK f : LinesIter(T, f, m)
      OBVIOUS
  <2> DEFINE h == [i \in 0..(m + 1) |-> IF i = m + 1 THEN AddCell(f[m], T[i]) ELSE f[i]]
  <2>2. ASSUME NEW i \in 0..(m + 1)
        PROVE  h[i] = IF i = 0 THEN << <<>> >> ELSE AddCell(h[i - 1], T[i])
    <3>1. i # 0 => i - 1 \in 0..(m + 1) /\ i - 1 # m + 1
        OBVIOUS
    <3>2. i # 0 => h[i - 1] = f[i - 1]
        BY <3>1
    <3>3. CASE i = m + 1
      <4>1. i # 0 /\ i - 1 = m
          BY <3>3
      <4>2. h[i] = AddCell(f[m], T[i])
          BY <3>3
      <4> HIDE DEF h
      <4> QED BY <3>2, <4>1, <4>2
    <3>4. CASE i # m + 1
      <4>1. i \in 0..m /\ h[i] = f[i]
          BY <3>4
      <4>2. f[i] = IF i = 0 THEN << <<>> >> ELSE AddCell(f[i - 1], T[i])
          BY <2>1, <4>1, Zenon DEF LinesIter
      <4> QED BY <3>2, <4>1, <4>2, Zenon
    <3> QED BY <3>3, <3>4
  <2>3. h = [i \in 0..(m + 1) |-> h[i]]
      OBVIOUS
  <2> HIDE DEF h
  <2>4. LinesIter(T, h, m + 1)
      BY <2>2, <2>3, Zenon DEF LinesIter
  <2> QED BY <2>4
<1> HIDE DEF S
<1>3. S = Nat
  <2>1. S \in SUBSET Nat
      BY DEF S
  <2> QED BY <1>1, <1>2, <2>1, Induction, Zenon
<1> QED BY <1>3 DEF S

\* g holds the lines after each cell of the text.
LinesTrace(T, g) ==
    /\ g[0] = << <<>> >>
    /\ \A i \in 1..Len(T) : g[i] = AddCell(g[i - 1], T[i])

(* LinesOf takes the cells one after the other. *)
LEMMA LinesTraceExists ==
    ASSUME NEW C, NEW T \in Seq(C)
    PROVE  \E g : LinesTrace(T, g) /\ LinesOf(T) = g[Len(T)]
<1> DEFINE n == Len(T)
           g == CHOOSE f : LinesIter(T, f, n)
<1>1. n \in Nat
    OBVIOUS
<1>2. LinesIter(T, g, n)
    BY <1>1, LinesIterExists, Zenon
<1>3. LinesOf(T) = g[n]
    BY Zenon DEF LinesOf, LinesIter
<1> HIDE DEF g, n
<1>4. g[0] = << <<>> >>
  <2>1. 0 \in 0..n
      BY <1>1
  <2> QED BY <1>2, <2>1, Zenon DEF LinesIter
<1>5. ASSUME NEW i \in 1..n PROVE g[i] = AddCell(g[i - 1], T[i])
  <2>1. i \in 0..n /\ i # 0
      BY <1>1
  <2> QED BY <1>2, <2>1, Zenon DEF LinesIter
<1>6. LinesTrace(T, g)
    BY <1>4, <1>5, Zenon DEF LinesTrace, n
<1> QED BY <1>3, <1>6, Zenon DEF n

\* The function that WriteString(w, T) defines.
WriteIter(w, T, f, n) == f = [i \in 0..n |-> IF i = 0 THEN w ELSE WriteByte(f[i - 1], Shown(T[i]))]

(* It exists. *)
LEMMA WriteIterExists ==
    ASSUME NEW w, NEW T, NEW n \in Nat
    PROVE  \E f : WriteIter(w, T, f, n)
<1> DEFINE S == {m \in Nat : \E f : WriteIter(w, T, f, m)}
<1>1. 0 \in S
  <2> DEFINE f == [i \in 0..0 |-> w]
  <2>1. \A i \in 0..0 : i = 0
      OBVIOUS
  <2>2. f = [i \in 0..0 |-> IF i = 0 THEN w ELSE WriteByte(f[i - 1], Shown(T[i]))]
      BY <2>1
  <2>3. WriteIter(w, T, f, 0)
      BY <2>2, Zenon DEF WriteIter
  <2> QED BY <2>3
<1>2. ASSUME NEW m \in S PROVE m + 1 \in S
  <2>1. PICK f : WriteIter(w, T, f, m)
      OBVIOUS
  <2> DEFINE h == [i \in 0..(m + 1) |-> IF i = m + 1 THEN WriteByte(f[m], Shown(T[i])) ELSE f[i]]
  <2>2. ASSUME NEW i \in 0..(m + 1)
        PROVE  h[i] = IF i = 0 THEN w ELSE WriteByte(h[i - 1], Shown(T[i]))
    <3>1. i # 0 => i - 1 \in 0..(m + 1) /\ i - 1 # m + 1
        OBVIOUS
    <3>2. i # 0 => h[i - 1] = f[i - 1]
        BY <3>1
    <3>3. CASE i = m + 1
      <4>1. i # 0 /\ i - 1 = m
          BY <3>3
      <4>2. h[i] = WriteByte(f[m], Shown(T[i]))
          BY <3>3
      <4> HIDE DEF h
      <4> QED BY <3>2, <4>1, <4>2
    <3>4. CASE i # m + 1
      <4>1. i \in 0..m /\ h[i] = f[i]
          BY <3>4
      <4>2. f[i] = IF i = 0 THEN w ELSE WriteByte(f[i - 1], Shown(T[i]))
          BY <2>1, <4>1, Zenon DEF WriteIter
      <4> QED BY <3>2, <4>1, <4>2, Zenon
    <3> QED BY <3>3, <3>4
  <2>3. h = [i \in 0..(m + 1) |-> h[i]]
      OBVIOUS
  <2> HIDE DEF h
  <2>4. WriteIter(w, T, h, m + 1)
      BY <2>2, <2>3, Zenon DEF WriteIter
  <2> QED BY <2>4
<1> HIDE DEF S
<1>3. S = Nat
  <2>1. S \in SUBSET Nat
      BY DEF S
  <2> QED BY <1>1, <1>2, <2>1, Induction, Zenon
<1> QED BY <1>3 DEF S

\* g holds the writer after each byte of the string.
WriteTrace(w, T, g) ==
    /\ g[0] = w
    /\ \A i \in 1..Len(T) : g[i] = WriteByte(g[i - 1], Shown(T[i]))

(* WriteString writes the bytes one after the other. *)
LEMMA WriteTraceExists ==
    ASSUME NEW w, NEW C, NEW T \in Seq(C)
    PROVE  \E g : WriteTrace(w, T, g) /\ WriteString(w, T) = g[Len(T)]
<1> DEFINE n == Len(T)
           g == CHOOSE f : WriteIter(w, T, f, n)
<1>1. n \in Nat
    OBVIOUS
<1>2. WriteIter(w, T, g, n)
    BY <1>1, WriteIterExists, Zenon
<1>3. WriteString(w, T) = g[n]
    BY Zenon DEF WriteString, WriteIter
<1> HIDE DEF g, n
<1>4. g[0] = w
  <2>1. 0 \in 0..n
      BY <1>1
  <2> QED BY <1>2, <2>1, Zenon DEF WriteIter
<1>5. ASSUME NEW i \in 1..n PROVE g[i] = WriteByte(g[i - 1], Shown(T[i]))
  <2>1. i \in 0..n /\ i # 0
      BY <1>1
  <2> QED BY <1>2, <2>1, Zenon DEF WriteIter
<1>6. WriteTrace(w, T, g)
    BY <1>4, <1>5, Zenon DEF WriteTrace, n
<1> QED BY <1>3, <1>6, Zenon DEF n

\* The function that Flatten(ss) defines.
FlatIter(ss, f, n) == f = [i \in 0..n |-> IF i = 0 THEN <<>> ELSE f[i - 1] \o ss[i]]

(* It exists. *)
LEMMA FlatIterExists ==
    ASSUME NEW ss, NEW n \in Nat
    PROVE  \E f : FlatIter(ss, f, n)
<1> DEFINE S == {m \in Nat : \E f : FlatIter(ss, f, m)}
<1>1. 0 \in S
  <2> DEFINE f == [i \in 0..0 |-> <<>>]
  <2>1. \A i \in 0..0 : i = 0
      OBVIOUS
  <2>2. f = [i \in 0..0 |-> IF i = 0 THEN <<>> ELSE f[i - 1] \o ss[i]]
      BY <2>1
  <2>3. FlatIter(ss, f, 0)
      BY <2>2, Zenon DEF FlatIter
  <2> QED BY <2>3
<1>2. ASSUME NEW m \in S PROVE m + 1 \in S
  <2>1. PICK f : FlatIter(ss, f, m)
      OBVIOUS
  <2> DEFINE h == [i \in 0..(m + 1) |-> IF i = m + 1 THEN f[m] \o ss[i] ELSE f[i]]
  <2>2. ASSUME NEW i \in 0..(m + 1)
        PROVE  h[i] = IF i = 0 THEN <<>> ELSE h[i - 1] \o ss[i]
    <3>1. i # 0 => i - 1 \in 0..(m + 1) /\ i - 1 # m + 1
        OBVIOUS
    <3>2. i # 0 => h[i - 1] = f[i - 1]
        BY <3>1
    <3>3. CASE i = m + 1
      <4>1. i # 0 /\ i - 1 = m
          BY <3>3
      <4>2. h[i] = f[m] \o ss[i]
          BY <3>3, Zenon
      <4> HIDE DEF h
      <4> QED BY <3>2, <4>1, <4>2, Zenon
    <3>4. CASE i # m + 1
      <4>1. i \in 0..m /\ h[i] = f[i]
          BY <3>4
      <4>2. f[i] = IF i = 0 THEN <<>> ELSE f[i - 1] \o ss[i]
          BY <2>1, <4>1, Zenon DEF FlatIter
      <4> QED BY <3>2, <4>1, <4>2, Zenon
    <3> QED BY <3>3, <3>4
  <2>3. h = [i \in 0..(m + 1) |-> h[i]]
      OBVIOUS
  <2> HIDE DEF h
  <2>4. FlatIter(ss, h, m + 1)
      BY <2>2, <2>3, Zenon DEF FlatIter
  <2> QED BY <2>4
<1> HIDE DEF S
<1>3. S = Nat
  <2>1. S \in SUBSET Nat
      BY DEF S
  <2> QED BY <1>1, <1>2, <2>1, Induction, Zenon
<1> QED BY <1>3 DEF S

\* g holds the concatenation of the first sequences of ss.
FlatTrace(C, ss, g) ==
    /\ g[0] = <<>> /\ \A i \in 0..Len(ss) : g[i] \in Seq(C)
    /\ \A i \in 1..Len(ss) : g[i] = g[i - 1] \o ss[i]

(* Flatten takes the sequences one after the other. *)
LEMMA FlatTraceExists ==
    ASSUME NEW C, NEW ss \in Seq(Seq(C))
    PROVE  \E g : FlatTrace(C, ss, g) /\ Flatten(ss) = g[Len(ss)]
<1> DEFINE n == Len(ss)
           g == CHOOSE f : FlatIter(ss, f, n)
<1>1. n \in Nat /\ \A i \in 1..n : ss[i] \in Seq(C)
    OBVIOUS
<1>2. FlatIter(ss, g, n)
    BY <1>1, FlatIterExists, Zenon
<1>3. Flatten(ss) = g[n]
    BY Zenon DEF Flatten, FlatIter
<1> HIDE DEF g, n
<1>4. g[0] = <<>>
  <2>1. 0 \in 0..n
      BY <1>1
  <2> QED BY <1>2, <2>1, Zenon DEF FlatIter
<1>5. ASSUME NEW i \in 1..n PROVE g[i] = g[i - 1] \o ss[i]
  <2>1. i \in 0..n /\ i # 0
      BY <1>1
  <2> QED BY <1>2, <2>1, Zenon DEF FlatIter
<1>6. \A i \in 0..n : g[i] \in Seq(C)
  <2> DEFINE S == {i \in Nat : g[i] \in Seq(C)}
  <2>1. 0 \in S
    <3>1. <<>> \in Seq(C) /\ 0 \in Nat
        OBVIOUS
    <3> QED BY <1>4, <3>1, Zenon
  <2>2. ASSUME NEW i \in 0..(n - 1), i \in S PROVE i + 1 \in S
    <3>1. i + 1 \in 1..n /\ (i + 1) - 1 = i /\ i + 1 \in Nat
        BY <1>1
    <3>2. g[i + 1] = g[i] \o ss[i + 1] /\ ss[i + 1] \in Seq(C)
        BY <1>1, <1>5, <3>1, Zenon
    <3>3. g[i] \in Seq(C)
        BY <2>2, Zenon
    <3>4. g[i + 1] \in Seq(C)
        BY <3>2, <3>3, ConcatProperties
    <3> QED BY <3>1, <3>4, Zenon
  <2> HIDE DEF S
  <2>3. \A i \in 0..n : i \in S
      BY <1>1, <2>1, <2>2, BoundedInduction, Zenon
  <2> QED BY <2>3 DEF S
<1>7. FlatTrace(C, ss, g)
    BY <1>4, <1>5, <1>6, Zenon DEF FlatTrace, n
<1> QED BY <1>3, <1>7, Zenon DEF n

(* The concatenation of sequences is a sequence. *)
LEMMA FlattenType ==
    ASSUME NEW C, NEW ss \in Seq(Seq(C))
    PROVE  Flatten(ss) \in Seq(C)
<1>1. PICK g : FlatTrace(C, ss, g) /\ Flatten(ss) = g[Len(ss)]
    BY FlatTraceExists, Zenon
<1>2. Len(ss) \in 0..Len(ss)
    OBVIOUS
<1> QED BY <1>1, <1>2, Zenon DEF FlatTrace

(* One more sequence at the end. *)
LEMMA FlattenAppend ==
    ASSUME NEW C, NEW ss \in Seq(Seq(C)), NEW x \in Seq(C)
    PROVE  Flatten(Append(ss, x)) = Flatten(ss) \o x
<1> DEFINE n == Len(ss)
           tt == Append(ss, x)
<1>1. /\ n \in Nat /\ tt \in Seq(Seq(C)) /\ Len(tt) = n + 1 /\ tt[n + 1] = x
      /\ \A i \in 1..n : tt[i] = ss[i]
    OBVIOUS
<1> HIDE DEF n, tt
<1>2. PICK g : FlatTrace(C, ss, g) /\ Flatten(ss) = g[n]
    BY FlatTraceExists, Zenon DEF n
<1>3. PICK h : FlatTrace(C, tt, h) /\ Flatten(tt) = h[n + 1]
    BY <1>1, FlatTraceExists, Zenon
<1> DEFINE S == {i \in Nat : g[i] = h[i]}
<1>4. 0 \in S
    BY <1>2, <1>3 DEF FlatTrace
<1>5. ASSUME NEW i \in 0..(n - 1), i \in S PROVE i + 1 \in S
  <2>1. i + 1 \in 1..n /\ i + 1 \in 1..(n + 1) /\ (i + 1) - 1 = i /\ i + 1 \in Nat
      BY <1>1
  <2>2. g[i + 1] = g[i] \o ss[i + 1]
      BY <1>2, <2>1, Zenon DEF FlatTrace, n
  <2>3. h[i + 1] = h[i] \o tt[i + 1]
      BY <1>1, <1>3, <2>1, Zenon DEF FlatTrace
  <2> QED BY <1>1, <1>5, <2>1, <2>2, <2>3, Zenon
<1> HIDE DEF S
<1>6. n \in S
  <2>1. \A i \in 0..n : i \in S
      BY <1>1, <1>4, <1>5, BoundedInduction, Zenon
  <2> QED BY <1>1, <2>1
<1>7. h[n + 1] = h[n] \o x
  <2>1. n + 1 \in 1..(n + 1) /\ (n + 1) - 1 = n
      BY <1>1
  <2> QED BY <1>1, <1>3, <2>1, Zenon DEF FlatTrace
<1> QED BY <1>2, <1>3, <1>6, <1>7, Zenon DEF S, tt

Associates(a, b, c) == (a \o b) \o c = a \o (b \o c)

(* Concatenation is associative. *)
LEMMA Associative ==
    ASSUME NEW C, NEW a \in Seq(C), NEW b \in Seq(C), NEW c \in Seq(C)
    PROVE  Associates(a, b, c)
BY ConcatAssociative DEF Associates

(* The first sequence apart. *)
LEMMA FlattenHead ==
    ASSUME NEW C, NEW ss \in Seq(Seq(C)), ss # <<>>
    PROVE  Flatten(ss) = Head(ss) \o Flatten(Tail(ss))
<1> DEFINE n == Len(Tail(ss))
           tt == Tail(ss)
           x == Head(ss)
<1>1. /\ n \in Nat /\ tt \in Seq(Seq(C)) /\ Len(ss) = n + 1 /\ ss[1] = x /\ x \in Seq(C)
      /\ Len(tt) = n /\ \A i \in 1..n : tt[i] = ss[i + 1] /\ tt[i] \in Seq(C)
    OBVIOUS
<1> HIDE DEF n, tt, x
<1>2. PICK g : FlatTrace(C, ss, g) /\ Flatten(ss) = g[n + 1]
    BY <1>1, FlatTraceExists, Zenon
<1>3. PICK h : FlatTrace(C, tt, h) /\ Flatten(tt) = h[n]
    BY <1>1, FlatTraceExists, Zenon
<1> DEFINE S == {i \in Nat : g[i + 1] = x \o h[i]}
<1>4. 0 \in S
  <2>1. 1 \in 1..(n + 1) /\ 1 - 1 = 0 /\ 0 + 1 = 1
      BY <1>1
  <2>2. g[1] = g[0] \o ss[1] /\ g[0] = <<>> /\ h[0] = <<>>
      BY <1>1, <1>2, <1>3, <2>1, Zenon DEF FlatTrace
  <2>3. <<>> \o x = x /\ x \o <<>> = x
      BY <1>1
  <2> QED BY <1>1, <2>1, <2>2, <2>3
<1>5. ASSUME NEW i \in 0..(n - 1), i \in S PROVE i + 1 \in S
  <2>1. i + 1 \in 1..n /\ (i + 1) + 1 \in 1..(n + 1) /\ (i + 1) - 1 = i /\ i + 1 \in Nat
        /\ ((i + 1) + 1) - 1 = i + 1 /\ i \in 0..n
      BY <1>1
  <2>2. g[(i + 1) + 1] = g[i + 1] \o ss[(i + 1) + 1]
    <3>1. g[(i + 1) + 1] = g[((i + 1) + 1) - 1] \o ss[(i + 1) + 1]
        BY <1>1, <1>2, <2>1, Zenon DEF FlatTrace
    <3> QED BY <2>1, <3>1, Zenon
  <2>3. h[i + 1] = h[i] \o tt[i + 1] /\ h[i] \in Seq(C)
      BY <1>1, <1>3, <2>1, Zenon DEF FlatTrace
  <2>4. tt[i + 1] = ss[(i + 1) + 1] /\ tt[i + 1] \in Seq(C)
      BY <1>1, <2>1
  <2>5. (x \o h[i]) \o tt[i + 1] = x \o (h[i] \o tt[i + 1])
    <3>1. Associates(x, h[i], tt[i + 1])
        BY <1>1, <2>3, <2>4, Associative, Zenon
    <3> QED BY <3>1, Zenon DEF Associates
  <2> QED BY <1>5, <2>1, <2>2, <2>3, <2>4, <2>5, Zenon
<1> HIDE DEF S
<1>6. n \in S
  <2>1. \A i \in 0..n : i \in S
      BY <1>1, <1>4, <1>5, BoundedInduction, Zenon
  <2> QED BY <1>1, <2>1
<1> QED BY <1>2, <1>3, <1>6, Zenon DEF S, tt, x

-----------------------------------------------------------------------------
(* The screen and the reference *)

Ascii == {" ", "\n", "a", "b", "0xFE"}
Cells == [ascii : Ascii, color : Colors]
Grid == (0..(Height - 1)) \X (0..(Width - 1))
CursorAt(r, k) == [hi |-> ((r * Width + k) \div 256) % 256, lo |-> (r * Width + k) % 256]
Cursors == [hi : 0..255, lo : 0..255]
Writers == [row : 0..(Height - 1), col : 0..Width, color : Colors, cells : [Grid -> Cells],
            cursor : Cursors]

\* The lines that have scrolled off the screen, and the rows in use.
Skip(lines) == IF Len(lines) > Height THEN Len(lines) - Height ELSE 0
Rows(lines) == IF Len(lines) > Height THEN Height ELSE Len(lines)

\* There is a cell of the text at row r and column k of the screen.
At(lines, r, k) == Skip(lines) + r + 1 <= Len(lines) /\ k + 1 <= Len(lines[Skip(lines) + r + 1])

ShowsAt(lines, cells0, r, k) ==
    IF At(lines, r, k) THEN cells0[<<r, k>>] = lines[Skip(lines) + r + 1][k + 1]
    ELSE cells0[<<r, k>>].ascii = " "
ShowsLines(lines, cells0) ==
    \A r \in 0..(Height - 1), k \in 0..(Width - 1) : ShowsAt(lines, cells0, r, k)

LinesType(lines) ==
    /\ lines \in Seq(Seq(Cells)) /\ Len(lines) \in Nat /\ Len(lines) # 0
    /\ \A i \in 1..Len(lines) : Len(lines[i]) \in 0..Width

\* The writer w shows the last of the lines and stands at their end; the cursor does, once
\* anything was written.
Shows(lines, w) ==
    /\ w \in Writers /\ LinesType(lines)
    /\ w.row = Rows(lines) - 1 /\ w.col = Len(lines[Len(lines)])
    /\ ShowsLines(lines, w.cells) /\ (lines # << <<>> >> => w.cursor = CursorAt(w.row, w.col))

\* The part of write_byte for a printable byte, where there is room in the line.
Put(w, byte) ==
    UpdateCursor([w EXCEPT !.cells[<<w.row, w.col>>] = Cell(byte, w.color), !.col = @ + 1])

(* The size of the screen. *)
LEMMA Sizes == Height \in Nat /\ Width \in Nat /\ Height # 0 /\ Width # 0
BY VgaAssumption

(* The bytes of the cursor's position. *)
LEMMA CursorType ==
    ASSUME NEW r \in Nat, NEW k \in Nat
    PROVE  CursorAt(r, k) \in Cursors
<1>1. \A x \in Nat : x % 256 \in 0..255 /\ (x \div 256) % 256 \in 0..255
    OBVIOUS
<1> DEFINE x == r * Width + k
<1>2. x \in Nat
    BY Sizes
<1> HIDE DEF x
<1>3. x % 256 \in 0..255 /\ (x \div 256) % 256 \in 0..255
    BY <1>1, <1>2
<1> QED BY <1>3 DEF CursorAt, Cursors, x

\* A writer by its fields.
Rec(r, k, c, g, u) == [row |-> r, col |-> k, color |-> c, cells |-> g, cursor |-> u]

(* The fields of a writer. *)
LEMMA RecFields ==
    ASSUME NEW r, NEW k, NEW c, NEW g, NEW u
    PROVE  /\ Rec(r, k, c, g, u).row = r /\ Rec(r, k, c, g, u).col = k
           /\ Rec(r, k, c, g, u).color = c /\ Rec(r, k, c, g, u).cells = g
           /\ Rec(r, k, c, g, u).cursor = u
BY DEF Rec

(* A writer has the fields of the type. *)
LEMMA WriterFields ==
    ASSUME NEW w \in Writers
    PROVE  /\ w = Rec(w.row, w.col, w.color, w.cells, w.cursor)
           /\ w.row \in 0..(Height - 1) /\ w.col \in 0..Width /\ w.color \in Colors
           /\ w.cells \in [Grid -> Cells] /\ w.cursor \in Cursors
BY DEF Writers, Rec

(* What has the fields of the type is a writer. *)
LEMMA RecType ==
    ASSUME NEW r \in 0..(Height - 1), NEW k \in 0..Width, NEW c \in Colors,
           NEW g \in [Grid -> Cells], NEW u \in Cursors
    PROVE  Rec(r, k, c, g, u) \in Writers
BY DEF Writers, Rec

(* What the methods make of the fields: the cursor, ... *)
LEMMA RecCursor ==
    ASSUME NEW r, NEW k, NEW c, NEW g, NEW u
    PROVE  UpdateCursor(Rec(r, k, c, g, u)) = Rec(r, k, c, g, CursorAt(r, k))
BY DEF Rec, UpdateCursor, CursorAt

(* ... a printable byte, ... *)
LEMMA RecPut ==
    ASSUME NEW r, NEW k, NEW c, NEW g, NEW u, NEW b
    PROVE  Put(Rec(r, k, c, g, u), b)
             = Rec(r, k + 1, c, [g EXCEPT ![<<r, k>>] = Cell(b, c)], CursorAt(r, k + 1))
<1> DEFINE x == Cell(b, c)
           at == <<r, k>>
<1> HIDE DEF x, at
<1>1. [Rec(r, k, c, g, u) EXCEPT !.cells[at] = x, !.col = @ + 1]
        = Rec(r, k + 1, c, [g EXCEPT ![at] = x], u)
  <2> DEFINE v == Rec(r, k, c, g, u)
  <2>1. [v EXCEPT !.cells[at] = x] = Rec(r, k, c, [g EXCEPT ![at] = x], u)
      BY DEF Rec
  <2>2. [v EXCEPT !.cells[at] = x, !.col = @ + 1] = [[v EXCEPT !.cells[at] = x] EXCEPT !.col = @ + 1]
      BY DEF Rec
  <2>3. \A h : [Rec(r, k, c, h, u) EXCEPT !.col = @ + 1] = Rec(r, k + 1, c, h, u)
      BY DEF Rec
  <2> HIDE DEF v
  <2> QED BY <2>1, <2>2, <2>3, Zenon DEF v
<1>2. \A h : UpdateCursor(Rec(r, k + 1, c, h, u)) = Rec(r, k + 1, c, h, CursorAt(r, k + 1))
    BY RecCursor, Zenon
<1>3. Put(Rec(r, k, c, g, u), b)
        = UpdateCursor([Rec(r, k, c, g, u) EXCEPT !.cells[at] = x, !.col = @ + 1])
  <2>1. /\ Rec(r, k, c, g, u).row = r /\ Rec(r, k, c, g, u).col = k
        /\ Rec(r, k, c, g, u).color = c
      BY RecFields
  <2> QED BY <2>1, Zenon DEF Put, x, at
<1> QED BY <1>1, <1>2, <1>3, Zenon DEF x, at

\* The cells after scrolling.
Scrolled(g, c) ==
    [p \in Grid |-> IF p[1] = Height - 1 THEN Cell(" ", c)
                    ELSE IF p[1] < Height - 1 THEN g[<<p[1] + 1, p[2]>>] ELSE g[p]]

(* ... and the end of a line. *)
LEMMA RecNewLine ==
    ASSUME NEW r, NEW k, NEW c, NEW g, NEW u, DOMAIN g = Grid
    PROVE  NewLine(Rec(r, k, c, g, u)) = IF r = Height - 1
                                         THEN Rec(r, 0, c, Scrolled(g, c), CursorAt(r, 0))
                                         ELSE Rec(r + 1, 0, c, g, CursorAt(r + 1, 0))
<1> DEFINE w == Rec(r, k, c, g, u)
           sc == [p \in Grid |-> IF p[1] < Height - 1 THEN g[<<p[1] + 1, p[2]>>] ELSE g[p]]
<1>1. w.row = r /\ w.cells = g
    BY RecFields
<1>2. \A i, h : UpdateCursor([Rec(i, k, c, h, u) EXCEPT !.col = 0]) = Rec(i, 0, c, h, CursorAt(i, 0))
  <2> SUFFICES ASSUME NEW i, NEW h
               PROVE  UpdateCursor([Rec(i, k, c, h, u) EXCEPT !.col = 0]) = Rec(i, 0, c, h, CursorAt(i, 0))
      OBVIOUS
  <2>1. [Rec(i, k, c, h, u) EXCEPT !.col = 0] = Rec(i, 0, c, h, u)
      BY DEF Rec
  <2>2. UpdateCursor(Rec(i, 0, c, h, u)) = Rec(i, 0, c, h, CursorAt(i, 0))
      BY RecCursor, Zenon
  <2> QED BY <2>1, <2>2, Zenon
<1>3. CASE r # Height - 1
  <2>1. NewLine(w) = UpdateCursor([[w EXCEPT !.row = @ + 1] EXCEPT !.col = 0])
      BY <1>1, <1>3, Zenon DEF NewLine
  <2>2. [w EXCEPT !.row = @ + 1] = Rec(r + 1, k, c, g, u)
      BY DEF Rec
  <2> HIDE DEF w
  <2>3. NewLine(w) = Rec(r + 1, 0, c, g, CursorAt(r + 1, 0))
      BY <1>2, <2>1, <2>2, Zenon
  <2> QED BY <1>3, <2>3 DEF w
<1>4. CASE r = Height - 1
  <2>1. [w EXCEPT !.cells = [p \in DOMAIN @ |->
            IF p[1] < Height - 1 THEN @[<<p[1] + 1, p[2]>>] ELSE @[p]]] = Rec(r, k, c, sc, u)
    <3>1. \A h : [w EXCEPT !.cells = h] = Rec(r, k, c, h, u)
        BY DEF Rec
    <3>2. [p \in DOMAIN w.cells |->
             IF p[1] < Height - 1 THEN w.cells[<<p[1] + 1, p[2]>>] ELSE w.cells[p]] = sc
        BY <1>1, Zenon
    <3> HIDE DEF sc
    <3> QED BY <3>1, <3>2, Zenon
  <2>2. NewLine(w) = UpdateCursor([ClearRow([w EXCEPT !.cells = [p \in DOMAIN @ |->
            IF p[1] < Height - 1 THEN @[<<p[1] + 1, p[2]>>] ELSE @[p]]], Height - 1) EXCEPT !.col = 0])
      BY <1>1, <1>4, Zenon DEF NewLine
  <2>3. ClearRow(Rec(r, k, c, sc, u), Height - 1) = Rec(r, k, c, Scrolled(g, c), u)
    <3>1. DOMAIN sc = Grid
        OBVIOUS
    <3>2. [p \in Grid |-> IF p[1] = Height - 1 THEN Cell(" ", c) ELSE sc[p]] = Scrolled(g, c)
        BY Zenon DEF Scrolled
    <3> HIDE DEF sc
    <3>3. \A h : [Rec(r, k, c, sc, u) EXCEPT !.cells = h] = Rec(r, k, c, h, u)
        BY DEF Rec
    <3>4. Rec(r, k, c, sc, u).cells = sc /\ Rec(r, k, c, sc, u).color = c
        BY RecFields
    <3>5. ClearRow(Rec(r, k, c, sc, u), Height - 1) = [Rec(r, k, c, sc, u) EXCEPT !.cells =
              [p \in Grid |-> IF p[1] = Height - 1 THEN Cell(" ", c) ELSE sc[p]]]
        BY <3>1, <3>4, Zenon DEF ClearRow
    <3> QED BY <3>2, <3>3, <3>5, Zenon
  <2> HIDE DEF w
  <2>4. NewLine(w) = Rec(r, 0, c, Scrolled(g, c), CursorAt(r, 0))
      BY <1>2, <2>1, <2>2, <2>3, Zenon
  <2> QED BY <1>4, <2>4 DEF w
<1> QED BY <1>3, <1>4

-----------------------------------------------------------------------------
(* new_line and write_byte, against the reference *)

(* Ending the text's last line. *)
LEMMA AppendEmpty ==
    ASSUME NEW lines, LinesType(lines)
    PROVE  /\ LinesType(Append(lines, <<>>)) /\ Len(Append(lines, <<>>)) = Len(lines) + 1
           /\ \A i \in 1..Len(lines) : Append(lines, <<>>)[i] = lines[i]
           /\ Append(lines, <<>>)[Len(lines) + 1] = <<>>
<1> DEFINE L == Append(lines, <<>>)
<1>1. lines \in Seq(Seq(Cells)) /\ Len(lines) \in Nat /\ <<>> \in Seq(Cells)
    BY DEF LinesType
<1>2. /\ L \in Seq(Seq(Cells)) /\ Len(L) = Len(lines) + 1
      /\ \A i \in 1..Len(lines) : L[i] = lines[i]
      /\ L[Len(lines) + 1] = <<>>
    BY <1>1
<1> HIDE DEF L
<1>3. \A i \in 1..Len(L) : Len(L[i]) \in 0..Width
  <2> SUFFICES ASSUME NEW i \in 1..Len(L) PROVE Len(L[i]) \in 0..Width
      OBVIOUS
  <2>1. CASE i = Len(lines) + 1
      BY <1>2, <2>1, Sizes
  <2>2. CASE i \in 1..Len(lines)
      BY <1>2, <2>2, Zenon DEF LinesType
  <2> QED BY <1>1, <1>2, <2>1, <2>2
<1> QED BY <1>1, <1>2, <1>3 DEF LinesType, L

(* The row of the text's last line. *)
LEMMA RowOfLast ==
    ASSUME NEW lines, NEW r, LinesType(lines), r = Rows(lines) - 1
    PROVE  /\ r \in 0..(Height - 1) /\ Skip(lines) \in Nat /\ Skip(lines) + r + 1 = Len(lines)
           /\ r = Height - 1 => Len(lines) >= Height /\ Skip(lines) = Len(lines) - Height
           /\ r # Height - 1 => Len(lines) < Height /\ Skip(lines) = 0 /\ Len(lines) = r + 1
BY Sizes DEF LinesType, Rows, Skip

(* Scrolling shows one more line, empty, at the bottom. *)
LEMMA ScrollShows ==
    ASSUME NEW lines, NEW g, NEW c, LinesType(lines), Len(lines) >= Height, ShowsLines(lines, g)
    PROVE  ShowsLines(Append(lines, <<>>), Scrolled(g, c))
<1> DEFINE L == Append(lines, <<>>)
<1>1. /\ LinesType(L) /\ Len(L) = Len(lines) + 1
      /\ \A i \in 1..Len(lines) : L[i] = lines[i]
      /\ L[Len(lines) + 1] = <<>>
    BY AppendEmpty
<1> HIDE DEF L
<1>2. Len(lines) \in Nat
    BY DEF LinesType
<1>3. Skip(lines) = Len(lines) - Height /\ Skip(L) = Len(lines) + 1 - Height
    BY <1>1, <1>2, Sizes DEF Skip
<1>4. SUFFICES ASSUME NEW r \in 0..(Height - 1), NEW k \in 0..(Width - 1)
               PROVE  ShowsAt(L, Scrolled(g, c), r, k)
    BY <1>4 DEF ShowsLines, L
<1>5. <<r, k>> \in Grid
    BY DEF Grid
<1>6. CASE r = Height - 1
  <2>1. Scrolled(g, c)[<<r, k>>] = Cell(" ", c)
      BY <1>5, <1>6 DEF Scrolled
  <2>2. ~At(L, r, k)
    <3>1. Skip(L) + r + 1 = Len(lines) + 1
        BY <1>2, <1>3, <1>6, Sizes
    <3>2. Len(L[Skip(L) + r + 1]) = 0
        BY <1>1, <3>1
    <3> QED BY <3>2 DEF At
  <2>3. Cell(" ", c).ascii = " "
      BY DEF Cell
  <2> QED BY <2>1, <2>2, <2>3, Zenon DEF ShowsAt
<1>7. CASE r # Height - 1
  <2>1. r + 1 \in 0..(Height - 1) /\ r < Height - 1
      BY <1>7, Sizes
  <2>2. Scrolled(g, c)[<<r, k>>] = g[<<r + 1, k>>]
      BY <1>5, <1>7, <2>1, Zenon DEF Scrolled
  <2>3. ShowsAt(lines, g, r + 1, k)
      BY <2>1 DEF ShowsLines
  <2>4. Skip(L) + r + 1 = Skip(lines) + (r + 1) + 1 /\ Skip(L) + r + 1 \in 1..Len(lines)
      BY <1>2, <1>3, <2>1, Sizes
  <2>5. L[Skip(L) + r + 1] = lines[Skip(lines) + (r + 1) + 1]
      BY <1>1, <2>4, Zenon
  <2>6. At(L, r, k) <=> At(lines, r + 1, k)
      BY <1>1, <1>2, <2>4, <2>5 DEF At
  <2> QED BY <2>2, <2>3, <2>5, <2>6, Zenon DEF ShowsAt
<1> QED BY <1>6, <1>7

(* Where there is a row left below, an empty line shows without scrolling. *)
LEMMA DownShows ==
    ASSUME NEW lines, NEW g, LinesType(lines), Len(lines) < Height, ShowsLines(lines, g)
    PROVE  ShowsLines(Append(lines, <<>>), g)
<1> DEFINE L == Append(lines, <<>>)
<1>1. /\ LinesType(L) /\ Len(L) = Len(lines) + 1
      /\ \A i \in 1..Len(lines) : L[i] = lines[i]
      /\ L[Len(lines) + 1] = <<>>
    BY AppendEmpty
<1> HIDE DEF L
<1>2. Len(lines) \in Nat
    BY DEF LinesType
<1>3. Skip(lines) = 0 /\ Skip(L) = 0
    BY <1>1, <1>2, Sizes DEF Skip
<1>4. SUFFICES ASSUME NEW r \in 0..(Height - 1), NEW k \in 0..(Width - 1)
               PROVE  ShowsAt(L, g, r, k)
    BY <1>4 DEF ShowsLines, L
<1>5. ShowsAt(lines, g, r, k)
    BY DEF ShowsLines
<1>6. CASE r + 1 <= Len(lines)
  <2>1. r + 1 \in 1..Len(lines) /\ Skip(L) + r + 1 = r + 1 /\ Skip(lines) + r + 1 = r + 1
      BY <1>2, <1>3, <1>6
  <2>2. L[Skip(L) + r + 1] = lines[Skip(lines) + r + 1]
    <3>1. L[r + 1] = lines[r + 1]
        BY <1>1, <2>1, Zenon
    <3> QED BY <2>1, <3>1
  <2>3. At(L, r, k) <=> At(lines, r, k)
      BY <1>1, <1>2, <1>6, <2>1, <2>2 DEF At
  <2> QED BY <1>5, <2>2, <2>3, Zenon DEF ShowsAt
<1>7. CASE ~(r + 1 <= Len(lines))
  <2>1. ~At(lines, r, k)
      BY <1>3, <1>7 DEF At
  <2>2. ~At(L, r, k)
    <3>1. CASE r + 1 = Len(lines) + 1
      <4>1. Len(L[Skip(L) + r + 1]) = 0
          BY <1>1, <1>3, <3>1
      <4> QED BY <4>1 DEF At
    <3>2. CASE r + 1 # Len(lines) + 1
        BY <1>1, <1>2, <1>3, <1>7, <3>2 DEF At
    <3> QED BY <3>1, <3>2
  <2> QED BY <1>5, <2>1, <2>2, Zenon DEF ShowsAt
<1> QED BY <1>6, <1>7
(* new_line shows one more line, empty. *)
LEMMA NewLineShows ==
    ASSUME NEW lines, NEW w, Shows(lines, w)
    PROVE  /\ Shows(Append(lines, <<>>), NewLine(w))
           /\ NewLine(w).color = w.color /\ NewLine(w).col = 0
<1> DEFINE L == Append(lines, <<>>)
           r == w.row
           k == w.col
           c == w.color
           g == w.cells
           u == w.cursor
<1>1. /\ w = Rec(r, k, c, g, u) /\ r \in 0..(Height - 1) /\ k \in 0..Width /\ c \in Colors
      /\ g \in [Grid -> Cells]
    BY WriterFields DEF Shows
<1>2. LinesType(lines) /\ r = Rows(lines) - 1 /\ ShowsLines(lines, g)
    BY DEF Shows
<1>3. /\ LinesType(L) /\ Len(L) = Len(lines) + 1 /\ L[Len(lines) + 1] = <<>>
    BY <1>2, AppendEmpty
<1> HIDE DEF L, r, k, c, g, u
<1>4. L[Len(L)] = <<>> /\ Len(L[Len(L)]) = 0 /\ Len(lines) \in Nat
    BY <1>2, <1>3 DEF LinesType
<1>5. DOMAIN g = Grid
    BY <1>1
<1>6. /\ r = Height - 1 => Len(lines) >= Height
      /\ r # Height - 1 => Len(lines) < Height /\ Len(lines) = r + 1
    BY <1>2, RowOfLast
<1>7. NewLine(w) = IF r = Height - 1 THEN Rec(r, 0, c, Scrolled(g, c), CursorAt(r, 0))
                   ELSE Rec(r + 1, 0, c, g, CursorAt(r + 1, 0))
    BY <1>1, <1>5, RecNewLine, Zenon
<1>8. \A r1, h : r1 \in 0..(Height - 1) /\ r1 = Rows(L) - 1 /\ h \in [Grid -> Cells] /\ ShowsLines(L, h)
                   => /\ Shows(L, Rec(r1, 0, c, h, CursorAt(r1, 0)))
                      /\ Rec(r1, 0, c, h, CursorAt(r1, 0)).color = c
                      /\ Rec(r1, 0, c, h, CursorAt(r1, 0)).col = 0
  <2> SUFFICES ASSUME NEW r1, NEW h, r1 \in 0..(Height - 1), r1 = Rows(L) - 1, h \in [Grid -> Cells],
                      ShowsLines(L, h)
               PROVE  /\ Shows(L, Rec(r1, 0, c, h, CursorAt(r1, 0)))
                      /\ Rec(r1, 0, c, h, CursorAt(r1, 0)).color = c
                      /\ Rec(r1, 0, c, h, CursorAt(r1, 0)).col = 0
      OBVIOUS
  <2> DEFINE v == Rec(r1, 0, c, h, CursorAt(r1, 0))
  <2>1. CursorAt(r1, 0) \in Cursors
    <3>1. r1 \in Nat
        BY Sizes
    <3> QED BY <3>1, CursorType
  <2>2. 0 \in 0..Width
      BY Sizes
  <2>3. v \in Writers
      BY <1>1, <2>1, <2>2, RecType, Zenon
  <2>4. v.row = r1 /\ v.col = 0 /\ v.color = c /\ v.cells = h /\ v.cursor = CursorAt(r1, 0)
      BY RecFields
  <2> HIDE DEF v
  <2>5. Shows(L, v)
      BY <1>3, <1>4, <2>3, <2>4, Zenon DEF Shows
  <2> QED BY <2>4, <2>5 DEF v
<1>9. CASE r = Height - 1
  <2>1. r = Rows(L) - 1
      BY <1>3, <1>4, <1>6, <1>9, Sizes DEF Rows
  <2>2. Scrolled(g, c) \in [Grid -> Cells]
    <3> SUFFICES ASSUME NEW p \in Grid
                 PROVE  (IF p[1] = Height - 1 THEN Cell(" ", c)
                         ELSE IF p[1] < Height - 1 THEN g[<<p[1] + 1, p[2]>>] ELSE g[p]) \in Cells
        BY Zenon DEF Scrolled
    <3>1. Cell(" ", c) \in Cells
        BY <1>1, Zenon DEF Cell, Cells, Ascii
    <3>2. p[1] < Height - 1 => <<p[1] + 1, p[2]>> \in Grid
        BY Sizes DEF Grid
    <3> QED BY <1>1, <3>1, <3>2, Zenon
  <2>3. ShowsLines(L, Scrolled(g, c))
      BY <1>2, <1>6, <1>9, ScrollShows, Zenon DEF L
  <2>4. NewLine(w) = Rec(r, 0, c, Scrolled(g, c), CursorAt(r, 0))
      BY <1>7, <1>9, Zenon
  <2> QED BY <1>1, <1>8, <2>1, <2>2, <2>3, <2>4, Zenon DEF c, L
<1>10. CASE r # Height - 1
  <2>1. r + 1 = Rows(L) - 1 /\ r + 1 \in 0..(Height - 1)
      BY <1>1, <1>3, <1>4, <1>6, <1>10, Sizes DEF Rows
  <2>2. ShowsLines(L, g)
      BY <1>2, <1>6, <1>10, DownShows, Zenon DEF L
  <2>3. NewLine(w) = Rec(r + 1, 0, c, g, CursorAt(r + 1, 0))
      BY <1>7, <1>10, Zenon
  <2> QED BY <1>1, <1>8, <2>1, <2>2, <2>3, Zenon DEF c, L
<1> QED BY <1>9, <1>10, Zenon

\* The text with a cell more on its last line.
Extend(lines, cell) == [lines EXCEPT ![Len(lines)] = Append(@, cell)]

(* A cell more on the last line. *)
LEMMA ExtendLast ==
    ASSUME NEW lines, NEW cell \in Cells, LinesType(lines), Len(lines[Len(lines)]) < Width
    PROVE  /\ LinesType(Extend(lines, cell)) /\ Len(Extend(lines, cell)) = Len(lines)
           /\ \A i \in 1..(Len(lines) - 1) : Extend(lines, cell)[i] = lines[i]
           /\ Extend(lines, cell)[Len(lines)] = Append(lines[Len(lines)], cell)
           /\ lines[Len(lines)] \in Seq(Cells) /\ Len(lines[Len(lines)]) \in Nat
<1> DEFINE L == Extend(lines, cell)
           n == Len(lines)
           l == lines[n]
<1>1. lines \in Seq(Seq(Cells)) /\ n \in Nat /\ n # 0 /\ Len(l) \in 0..Width /\ n \in 1..n
    BY DEF LinesType
<1>2. l \in Seq(Cells)
    BY <1>1, ElementOfSeq
<1>3. Append(l, cell) \in Seq(Cells) /\ Len(Append(l, cell)) = Len(l) + 1
    BY <1>2
<1>4. L = [lines EXCEPT ![n] = Append(l, cell)]
    BY Zenon DEF Extend
<1>5. L \in Seq(Seq(Cells)) /\ Len(L) = n /\ L[n] = Append(l, cell)
      /\ \A i \in 1..n : i # n => L[i] = lines[i]
  <2> HIDE DEF L, l
  <2> QED BY <1>1, <1>3, <1>4, ExceptSeq
<1>6. \A i \in 1..(n - 1) : i \in 1..n /\ i # n
    BY <1>1
<1> HIDE DEF L, n, l
<1>7. \A i \in 1..n : Len(L[i]) \in 0..Width
  <2> SUFFICES ASSUME NEW i \in 1..n PROVE Len(L[i]) \in 0..Width
      OBVIOUS
  <2>1. CASE i = n
      BY <1>1, <1>3, <1>5, <2>1, Sizes DEF l, n
  <2>2. CASE i # n
      BY <1>5, <2>2, Zenon DEF LinesType, n
  <2> QED BY <2>1, <2>2
<1>8. LinesType(L)
    BY <1>1, <1>5, <1>7, Zenon DEF LinesType
<1>9. Len(l) \in Nat
    BY <1>2
<1>10. \A i \in 1..(n - 1) : L[i] = lines[i]
    BY <1>5, <1>6, Zenon
<1> QED BY <1>2, <1>5, <1>8, <1>9, <1>10, Zenon DEF L, n, l
(* Writing a cell after the last one shows the text with that cell. *)
LEMMA CellShows ==
    ASSUME NEW lines, NEW g \in [Grid -> Cells], NEW r, NEW k \in 0..(Width - 1), NEW cell \in Cells,
           LinesType(lines), r = Rows(lines) - 1, k = Len(lines[Len(lines)]), ShowsLines(lines, g)
    PROVE  ShowsLines(Extend(lines, cell), [g EXCEPT ![<<r, k>>] = cell])
<1> DEFINE L == Extend(lines, cell)
           h == [g EXCEPT ![<<r, k>>] = cell]
           n == Len(lines)
           l == lines[n]
<1>1. /\ LinesType(L) /\ Len(L) = n /\ L[n] = Append(l, cell) /\ l \in Seq(Cells) /\ Len(l) \in Nat
      /\ \A i \in 1..(n - 1) : L[i] = lines[i]
  <2>1. Len(l) < Width
      BY Sizes
  <2> QED BY <2>1, ExtendLast, Zenon
<1>2. /\ r \in 0..(Height - 1) /\ Skip(lines) \in Nat /\ Skip(lines) + r + 1 = n
    BY RowOfLast, Zenon
<1> HIDE DEF L, n, l
<1>3. /\ Len(L[n]) = Len(l) + 1 /\ L[n][Len(l) + 1] = cell
      /\ \A j \in 1..Len(l) : L[n][j] = l[j]
    BY <1>1
<1>4. n \in Nat /\ Skip(L) = Skip(lines)
    BY <1>1, Zenon DEF Skip, LinesType, n
<1>5. SUFFICES ASSUME NEW r0 \in 0..(Height - 1), NEW k0 \in 0..(Width - 1)
               PROVE  ShowsAt(L, h, r0, k0)
    BY <1>5, Zenon DEF ShowsLines, L
<1>6. ShowsAt(lines, g, r0, k0)
    BY Zenon DEF ShowsLines
<1>7. <<r0, k0>> \in Grid /\ <<r, k>> \in Grid
    BY <1>2, Zenon DEF Grid
<1>8. h[<<r0, k0>>] = IF r0 = r /\ k0 = k THEN cell ELSE g[<<r0, k0>>]
    BY <1>7
<1> HIDE DEF h
<1> DEFINE i == Skip(lines) + r0 + 1
<1>9. CASE r0 = r
  <2>1. i = n /\ Skip(L) + r0 + 1 = n
      BY <1>2, <1>4, <1>9, Zenon
  <2>2. At(L, r0, k0) <=> k0 + 1 <= Len(l) + 1
      BY <1>1, <1>3, <1>4, <2>1 DEF At
  <2>3. At(lines, r0, k0) <=> k0 + 1 <= Len(l)
      BY <1>4, <2>1 DEF At, n, l
  <2>4. CASE k0 = k
    <3>1. h[<<r0, k0>>] = cell
        BY <1>8, <1>9, <2>4
    <3>2. k0 + 1 = Len(l) + 1 /\ k0 + 1 <= Len(l) + 1
        BY <2>4 DEF l, n
    <3>3. L[Skip(L) + r0 + 1][k0 + 1] = cell
        BY <1>3, <2>1, <3>2, Zenon
    <3> QED BY <2>2, <3>1, <3>2, <3>3, Zenon DEF ShowsAt
  <2>5. CASE k0 # k
    <3>1. h[<<r0, k0>>] = g[<<r0, k0>>]
        BY <1>8, <2>5
    <3>2. At(L, r0, k0) <=> At(lines, r0, k0)
        BY <1>1, <2>2, <2>3, <2>5 DEF l, n
    <3>3. At(lines, r0, k0) => L[Skip(L) + r0 + 1][k0 + 1] = lines[Skip(lines) + r0 + 1][k0 + 1]
      <4> SUFFICES ASSUME At(lines, r0, k0) PROVE L[n][k0 + 1] = l[k0 + 1]
          BY <2>1, Zenon DEF l, n
      <4>1. k0 + 1 \in 1..Len(l)
          BY <1>1, <2>3
      <4> QED BY <1>3, <4>1, Zenon
    <3> QED BY <1>6, <3>1, <3>2, <3>3, Zenon DEF ShowsAt
  <2> QED BY <2>4, <2>5, Zenon
<1>10. CASE r0 # r
  <2>1. h[<<r0, k0>>] = g[<<r0, k0>>]
      BY <1>8, <1>10
  <2>2. i <= n => i \in 1..(n - 1)
      BY <1>2, <1>4, <1>10
  <2>3. i <= n => L[i] = lines[i]
      BY <1>1, <2>2, Zenon
  <2> HIDE DEF i
  <2>4. At(L, r0, k0) <=> At(lines, r0, k0)
      BY <1>1, <1>4, <2>3, Zenon DEF At, i, n
  <2>5. At(lines, r0, k0) => L[Skip(L) + r0 + 1] = lines[Skip(lines) + r0 + 1]
      BY <1>4, <2>3, Zenon DEF At, i, n
  <2> QED BY <1>6, <2>1, <2>4, <2>5, Zenon DEF ShowsAt
<1> QED BY <1>9, <1>10, Zenon

(* The same for the part of write_byte that puts a byte on the screen. *)
LEMMA PutShows ==
    ASSUME NEW lines, NEW w, NEW b \in Ascii, Shows(lines, w), w.col < Width
    PROVE  /\ Shows(Extend(lines, Cell(b, w.color)), Put(w, b))
           /\ Put(w, b).color = w.color
<1> DEFINE r == w.row
           k == w.col
           c == w.color
           cell == Cell(b, c)
           L == Extend(lines, cell)
           g == w.cells
           h == [g EXCEPT ![<<r, k>>] = cell]
           u == w.cursor
           v == Rec(r, k + 1, c, h, CursorAt(r, k + 1))
<1>1. /\ w = Rec(r, k, c, g, u) /\ r \in 0..(Height - 1) /\ k \in 0..Width /\ c \in Colors
      /\ g \in [Grid -> Cells]
    BY WriterFields DEF Shows
<1>2. /\ LinesType(lines) /\ r = Rows(lines) - 1 /\ k = Len(lines[Len(lines)]) /\ ShowsLines(lines, g)
    BY Zenon DEF Shows
<1>3. cell \in Cells
    BY <1>1 DEF Cell, Cells
<1>4. k \in 0..(Width - 1) /\ k + 1 \in 0..Width /\ r \in Nat /\ k + 1 \in Nat
    BY <1>1, Sizes
<1>5. Put(w, b) = v
  <2> HIDE DEF r, k, c, g, u
  <2>1. Put(Rec(r, k, c, g, u), b) = v
      BY RecPut
  <2> QED BY <1>1, <2>1, Zenon
<1> HIDE DEF cell, L
<1>6. ShowsLines(L, h)
    BY <1>1, <1>2, <1>3, <1>4, CellShows, Zenon DEF L
<1>7. /\ LinesType(L) /\ Len(L) = Len(lines) /\ L[Len(lines)] = Append(lines[Len(lines)], cell)
      /\ lines[Len(lines)] \in Seq(Cells)
    BY <1>2, <1>3, ExtendLast, Zenon DEF L
<1>8. Len(L[Len(L)]) = k + 1
    BY <1>2, <1>3, <1>7
<1>9. r = Rows(L) - 1
    BY <1>2, <1>7, Zenon DEF Rows
<1>10. h \in [Grid -> Cells]
    BY <1>1, <1>3, Zenon
<1> HIDE DEF r, k, c, g, u, h
<1>11. CursorAt(r, k + 1) \in Cursors
    BY <1>4, CursorType, Zenon
<1>12. v \in Writers
    BY <1>1, <1>4, <1>10, <1>11, RecType, Zenon
<1>13. v.row = r /\ v.col = k + 1 /\ v.color = c /\ v.cells = h /\ v.cursor = CursorAt(r, k + 1)
    BY RecFields
<1> HIDE DEF v
<1>14. Shows(L, v)
    BY <1>6, <1>7, <1>8, <1>9, <1>12, <1>13, Zenon DEF Shows
<1> QED BY <1>5, <1>13, <1>14, Zenon DEF L, cell, c

(* Appending is appending something else and replacing it. *)
LEMMA AppendOther ==
    ASSUME NEW S, NEW s \in Seq(S), NEW a \in S, NEW b \in S
    PROVE  Append(s, a) = [Append(s, b) EXCEPT ![Len(s) + 1] = a]
<1> DEFINE X == Append(s, b)
           Y == [X EXCEPT ![Len(s) + 1] = a]
           Z == Append(s, a)
<1>1. /\ X \in Seq(S) /\ Len(X) = Len(s) + 1 /\ Len(s) \in Nat
      /\ \A j \in 1..Len(s) : X[j] = s[j]
    OBVIOUS
<1>2. /\ Z \in Seq(S) /\ Len(Z) = Len(s) + 1 /\ Z[Len(s) + 1] = a
      /\ \A j \in 1..Len(s) : Z[j] = s[j]
    OBVIOUS
<1> HIDE DEF X, Z
<1>3. Len(s) + 1 \in 1..Len(X)
    BY <1>1
<1>4. /\ Y \in Seq(S) /\ Len(Y) = Len(X)
      /\ \A j \in 1..Len(X) : Y[j] = IF j = Len(s) + 1 THEN a ELSE X[j]
    BY <1>1, <1>3, ExceptSeq
<1> HIDE DEF Y
<1>5. \A j \in 1..Len(Z) : Z[j] = Y[j]
  <2> SUFFICES ASSUME NEW j \in 1..Len(Z) PROVE Z[j] = Y[j]
      OBVIOUS
  <2>1. j = Len(s) + 1 \/ (j \in 1..Len(s) /\ j # Len(s) + 1)
      BY <1>1, <1>2
  <2> QED BY <1>1, <1>2, <1>4, <2>1, Zenon
<1>6. Len(Y) = Len(Z)
    BY <1>1, <1>2, <1>4, Zenon
<1> QED BY <1>2, <1>4, <1>5, <1>6, SeqEqual, Zenon DEF X, Y, Z

(* write_byte does to the screen what the reference does to the text. *)
LEMMA WriteByteShows ==
    ASSUME NEW lines, NEW w, NEW b \in Ascii, Shows(lines, w)
    PROVE  /\ Shows(AddCell(lines, Cell(b, w.color)), WriteByte(w, b))
           /\ WriteByte(w, b).color = w.color
<1> DEFINE cell == Cell(b, w.color)
<1>1. cell.ascii = b
    BY DEF Cell
<1>2. /\ LinesType(lines) /\ w \in Writers /\ w.col = Len(lines[Len(lines)]) /\ w.col \in 0..Width
    BY WriterFields DEF Shows
<1>3. CASE b = "\n"
  <2>1. AddCell(lines, cell) = Append(lines, <<>>) /\ WriteByte(w, b) = NewLine(w)
      BY <1>1, <1>3, Zenon DEF AddCell, WriteByte
  <2> QED BY <2>1, NewLineShows, Zenon
<1>4. CASE b # "\n" /\ w.col < Width
  <2>1. ~(w.col >= Width) /\ w.col # Width
      BY <1>2, <1>4, Sizes
  <2>2. WriteByte(w, b) = Put(w, b)
      BY <1>4, <2>1, Zenon DEF WriteByte, Put
  <2>3. AddCell(lines, cell) = Extend(lines, cell)
      BY <1>1, <1>2, <1>4, <2>1, Zenon DEF AddCell, Extend
  <2> QED BY <1>4, <2>2, <2>3, PutShows, Zenon
<1>5. CASE b # "\n" /\ ~(w.col < Width)
  <2> DEFINE v == NewLine(w)
             L == Append(lines, <<>>)
  <2>1. w.col >= Width /\ w.col = Width
      BY <1>2, <1>5, Sizes
  <2>2. WriteByte(w, b) = Put(v, b)
      BY <1>5, <2>1, Zenon DEF WriteByte, Put
  <2>3. AddCell(lines, cell) = Append(lines, <<cell>>)
      BY <1>1, <1>2, <1>5, <2>1, Zenon DEF AddCell
  <2>4. Shows(L, v) /\ v.color = w.color /\ v.col = 0
      BY NewLineShows, Zenon
  <2>5. v.col < Width
      BY <2>4, Sizes
  <2>6. Append(lines, <<cell>>) = Extend(L, cell)
    <3>1. w.color \in Colors
        BY <1>2, WriterFields
    <3>2. cell \in Cells
        BY <3>1 DEF Cell, Cells
    <3>3. lines \in Seq(Seq(Cells)) /\ Len(lines) \in Nat
        BY <1>2 DEF LinesType
    <3> HIDE DEF cell, v
    <3>4. L \in Seq(Seq(Cells)) /\ Len(L) = Len(lines) + 1 /\ L[Len(L)] = <<>>
        BY <3>3
    <3>5. Extend(L, cell) = [L EXCEPT ![Len(L)] = <<cell>>]
      <4>1. Append(<<>>, cell) = <<cell>>
          BY <3>2
      <4> QED BY <3>4, <4>1, Zenon DEF Extend
    <3>6. Append(lines, <<cell>>) = [Append(lines, <<>>) EXCEPT ![Len(lines) + 1] = <<cell>>]
      <4>1. <<>> \in Seq(Cells) /\ <<cell>> \in Seq(Cells)
          BY <3>2
      <4> DEFINE T == Seq(Cells)
                 e == <<>>
                 d == <<cell>>
      <4>2. lines \in Seq(T) /\ e \in T /\ d \in T
          BY <3>3, <4>1
      <4> HIDE DEF T, e, d, L
      <4>3. Append(lines, d) = [Append(lines, e) EXCEPT ![Len(lines) + 1] = d]
          BY <4>2, AppendOther, SMT
      <4> QED BY <4>3, Zenon DEF d, e
    <3> QED BY <3>4, <3>5, <3>6, Zenon
  <2> HIDE DEF v, L, cell
  <2>7. Shows(Extend(L, Cell(b, v.color)), Put(v, b)) /\ Put(v, b).color = v.color
      BY <2>4, <2>5, PutShows, Zenon
  <2> QED BY <2>2, <2>3, <2>4, <2>6, <2>7, Zenon DEF cell
<1> QED BY <1>3, <1>4, <1>5, Zenon
-----------------------------------------------------------------------------
(* write_string, against the reference *)

(* The lines of no text are one, empty. *)
LEMMA LinesEmpty == LinesOf(<<>>) = << <<>> >>
<1>1. <<>> \in Seq(Cells) /\ Len(<<>>) = 0
    OBVIOUS
<1>2. PICK g : LinesTrace(<<>>, g) /\ LinesOf(<<>>) = g[Len(<<>>)]
    BY <1>1, LinesTraceExists, Zenon
<1> QED BY <1>1, <1>2, Zenon DEF LinesTrace

(* The lines of a text with a cell more. *)
LEMMA LinesAppend ==
    ASSUME NEW T \in Seq(Cells), NEW x \in Cells
    PROVE  LinesOf(Append(T, x)) = AddCell(LinesOf(T), x)
<1> DEFINE n == Len(T)
           U == Append(T, x)
<1>1. /\ n \in Nat /\ U \in Seq(Cells) /\ Len(U) = n + 1 /\ U[n + 1] = x
      /\ \A i \in 1..n : U[i] = T[i]
    OBVIOUS
<1> HIDE DEF n, U
<1>2. PICK g : LinesTrace(T, g) /\ LinesOf(T) = g[n]
    BY LinesTraceExists, Zenon DEF n
<1>3. PICK h : LinesTrace(U, h) /\ LinesOf(U) = h[n + 1]
    BY <1>1, LinesTraceExists
<1> DEFINE S == {i \in Nat : g[i] = h[i]}
<1>4. 0 \in S
    BY <1>2, <1>3 DEF LinesTrace
<1>5. ASSUME NEW i \in 0..(n - 1), i \in S PROVE i + 1 \in S
  <2>1. i + 1 \in 1..n /\ i + 1 \in 1..(n + 1) /\ (i + 1) - 1 = i /\ i + 1 \in Nat
      BY <1>1
  <2>2. g[i + 1] = AddCell(g[i], T[i + 1])
      BY <1>2, <2>1, Zenon DEF LinesTrace, n
  <2>3. h[i + 1] = AddCell(h[i], U[i + 1])
      BY <1>1, <1>3, <2>1, Zenon DEF LinesTrace
  <2>4. g[i] = h[i] /\ T[i + 1] = U[i + 1]
      BY <1>1, <1>5, <2>1, Zenon
  <2> QED BY <2>1, <2>2, <2>3, <2>4, Zenon
<1> HIDE DEF S
<1>6. n \in S
  <2>1. \A i \in 0..n : i \in S
      BY <1>1, <1>4, <1>5, BoundedInduction, Zenon
  <2> QED BY <1>1, <2>1
<1>7. h[n + 1] = AddCell(h[n], x)
  <2>1. n + 1 \in 1..(n + 1) /\ (n + 1) - 1 = n
      BY <1>1
  <2> QED BY <1>1, <1>3, <2>1, Zenon DEF LinesTrace
<1>8. g[n] = h[n]
    BY <1>6, Zenon DEF S
<1> QED BY <1>2, <1>3, <1>7, <1>8, Zenon DEF U

\* The text D with the first i bytes of s after it, in colour c.
With(D, s, c, i) == D \o [j \in 1..i |-> Cell(Shown(s[j]), c)]

(* The cells of bytes. *)
LEMMA CellsOfType ==
    ASSUME NEW s \in Seq(Byte), NEW c \in Colors, NEW i \in 0..Len(s)
    PROVE  /\ [j \in 1..i |-> Cell(Shown(s[j]), c)] \in Seq(Cells)
           /\ CellsOf(s, c) \in Seq(Cells)
           /\ \A j \in 1..Len(s) : Shown(s[j]) \in Ascii /\ Cell(Shown(s[j]), c) \in Cells
<1>1. \A j \in 1..Len(s) : Shown(s[j]) \in Ascii
  <2>1. \A b \in Byte : Shown(b) \in Ascii
      BY Zenon DEF Shown, Byte, Ascii
  <2>2. \A j \in 1..Len(s) : s[j] \in Byte
      OBVIOUS
  <2> QED BY <2>1, <2>2, Zenon
<1>2. \A j \in 1..Len(s) : Cell(Shown(s[j]), c) \in Cells
    BY <1>1 DEF Cell, Cells
<1>3. \A m \in 0..Len(s) : [j \in 1..m |-> Cell(Shown(s[j]), c)] \in Seq(Cells)
  <2> SUFFICES ASSUME NEW m \in 0..Len(s)
               PROVE  [j \in 1..m |-> Cell(Shown(s[j]), c)] \in Seq(Cells)
      OBVIOUS
  <2>1. m \in Nat /\ \A j \in 1..m : j \in 1..Len(s)
      OBVIOUS
  <2>2. \A j \in 1..m : Cell(Shown(s[j]), c) \in Cells
      BY <1>2, <2>1, Zenon
  <2> QED BY <2>1, <2>2, IsASeq
<1>4. Len(s) \in 0..Len(s)
    OBVIOUS
<1> QED BY <1>1, <1>2, <1>3, <1>4, Zenon DEF CellsOf

(* One byte more. *)
LEMMA WithNext ==
    ASSUME NEW D \in Seq(Cells), NEW s \in Seq(Byte), NEW c \in Colors, NEW i \in 0..(Len(s) - 1)
    PROVE  /\ With(D, s, c, i) \in Seq(Cells)
           /\ With(D, s, c, i + 1) = Append(With(D, s, c, i), Cell(Shown(s[i + 1]), c))
<1> DEFINE F(m) == [j \in 1..m |-> Cell(Shown(s[j]), c)]
           x == Cell(Shown(s[i + 1]), c)
<1>1. i \in 0..Len(s) /\ i + 1 \in 0..Len(s) /\ i + 1 \in 1..Len(s) /\ i \in Nat
    OBVIOUS
<1>2. F(i) \in Seq(Cells) /\ F(i + 1) \in Seq(Cells) /\ x \in Cells
    BY <1>1, CellsOfType, Zenon
<1>3. F(i + 1) = Append(F(i), x)
  <2>1. Len(F(i)) = i /\ Len(F(i + 1)) = i + 1
      BY <1>1
  <2>2. \A j \in 1..i : F(i)[j] = Cell(Shown(s[j]), c)
      OBVIOUS
  <2>3. \A j \in 1..(i + 1) : F(i + 1)[j] = Cell(Shown(s[j]), c)
      OBVIOUS
  <2> DEFINE a == F(i)
             b == F(i + 1)
  <2> HIDE DEF a, b
  <2>4. /\ Append(a, x) \in Seq(Cells) /\ Len(Append(a, x)) = i + 1 /\ Append(a, x)[i + 1] = x
        /\ \A j \in 1..i : Append(a, x)[j] = a[j]
      BY <1>1, <1>2, <2>1 DEF a
  <2>5. \A j \in 1..(i + 1) : b[j] = Append(a, x)[j]
    <3> SUFFICES ASSUME NEW j \in 1..(i + 1) PROVE b[j] = Append(a, x)[j]
        BY Zenon
    <3>1. j = i + 1 \/ j \in 1..i
        BY <1>1
    <3> QED BY <2>2, <2>3, <2>4, <3>1, Zenon DEF a, b
  <2>6. b \in Seq(Cells) /\ Len(b) = Len(Append(a, x)) /\ Len(b) = i + 1
      BY <1>2, <2>1, <2>4, Zenon DEF b
  <2>7. b = Append(a, x)
      BY <2>4, <2>5, <2>6, SeqEqual
  <2> QED BY <2>7, Zenon DEF a, b
<1> HIDE DEF F, x
<1>4. D \o Append(F(i), x) = Append(D \o F(i), x) /\ D \o F(i) \in Seq(Cells)
    BY <1>2
<1> QED BY <1>3, <1>4, Zenon DEF With, F, x

\* The writer w shows the text T in colour c.
OnScreen(T, c, w) == T \in Seq(Cells) /\ Shows(LinesOf(T), w) /\ w.color = c

(* A byte more is written, and shows. *)
LEMMA ByteShows ==
    ASSUME NEW T, NEW c, NEW w, NEW b \in Ascii, OnScreen(T, c, w), Cell(b, c) \in Cells
    PROVE  OnScreen(Append(T, Cell(b, c)), c, WriteByte(w, b))
<1>1. T \in Seq(Cells) /\ Shows(LinesOf(T), w) /\ w.color = c
    BY Zenon DEF OnScreen
<1>2. Append(T, Cell(b, c)) \in Seq(Cells)
    BY <1>1
<1>3. LinesOf(Append(T, Cell(b, c))) = AddCell(LinesOf(T), Cell(b, c))
    BY <1>1, LinesAppend, Zenon
<1>4. Shows(AddCell(LinesOf(T), Cell(b, c)), WriteByte(w, b)) /\ WriteByte(w, b).color = c
    BY <1>1, WriteByteShows, Zenon
<1> QED BY <1>2, <1>3, <1>4, Zenon DEF OnScreen

(* write_string shows the text with the string after it. *)
LEMMA WriteStringShows ==
    ASSUME NEW D, NEW c \in Colors, NEW w, NEW s \in Seq(Byte), OnScreen(D, c, w)
    PROVE  OnScreen(D \o CellsOf(s, c), c, WriteString(w, s))
<1> DEFINE n == Len(s)
<1>1. n \in Nat /\ D \in Seq(Cells)
    BY DEF OnScreen
<1>2. PICK g : WriteTrace(w, s, g) /\ WriteString(w, s) = g[n]
    BY WriteTraceExists, Zenon
<1> HIDE DEF n
<1> DEFINE S == {i \in Nat : OnScreen(With(D, s, c, i), c, g[i])}
<1>3. 0 \in S
  <2>1. [j \in 1..0 |-> Cell(Shown(s[j]), c)] = <<>>
      OBVIOUS
  <2>2. D \o <<>> = D
      BY <1>1
  <2>3. With(D, s, c, 0) = D
      BY <2>1, <2>2, Zenon DEF With
  <2>4. g[0] = w
      BY <1>2, Zenon DEF WriteTrace
  <2> QED BY <2>3, <2>4
<1>4. ASSUME NEW i \in 0..(n - 1), i \in S PROVE i + 1 \in S
  <2>1. i + 1 \in 1..n /\ (i + 1) - 1 = i /\ i + 1 \in Nat /\ i \in 0..n
      BY <1>1
  <2>2. g[i + 1] = WriteByte(g[i], Shown(s[i + 1]))
      BY <1>2, <2>1, Zenon DEF WriteTrace, n
  <2>3. With(D, s, c, i + 1) = Append(With(D, s, c, i), Cell(Shown(s[i + 1]), c))
      BY <1>1, <1>4, WithNext, Zenon DEF n
  <2>4. Shown(s[i + 1]) \in Ascii /\ Cell(Shown(s[i + 1]), c) \in Cells
      BY <2>1, CellsOfType, Zenon DEF n
  <2>5. OnScreen(With(D, s, c, i), c, g[i])
      BY <1>4, Zenon
  <2>6. OnScreen(Append(With(D, s, c, i), Cell(Shown(s[i + 1]), c)), c, WriteByte(g[i], Shown(s[i + 1])))
      BY <2>4, <2>5, ByteShows, Zenon
  <2>7. OnScreen(With(D, s, c, i + 1), c, g[i + 1])
      BY <2>2, <2>3, <2>6, Zenon
  <2> QED BY <2>1, <2>7, Zenon
<1> HIDE DEF S
<1>5. n \in S
  <2>1. \A i \in 0..n : i \in S
      BY <1>1, <1>3, <1>4, BoundedInduction, Zenon
  <2> QED BY <1>1, <2>1
<1>6. With(D, s, c, n) = D \o CellsOf(s, c)
    BY Zenon DEF With, CellsOf, n
<1> QED BY <1>2, <1>5, <1>6, Zenon DEF S
(* Nothing flattened. *)
LEMMA FlattenEmpty == Flatten(<<>>) = <<>>
<1>1. <<>> \in Seq(Seq(Byte)) /\ Len(<<>>) = 0
    OBVIOUS
<1>2. PICK g : FlatTrace(Byte, <<>>, g) /\ Flatten(<<>>) = g[Len(<<>>)]
    BY <1>1, FlatTraceExists, Zenon
<1> QED BY <1>1, <1>2, Zenon DEF FlatTrace

(* No bytes, no cells. *)
LEMMA CellsOfEmpty == ASSUME NEW c PROVE CellsOf(<<>>, c) = <<>>
BY DEF CellsOf

(* The parts of a concatenation. *)
LEMMA ConcatParts ==
    ASSUME NEW C, NEW a \in Seq(C), NEW b \in Seq(C)
    PROVE  /\ a \o b \in Seq(C) /\ Len(a \o b) = Len(a) + Len(b)
           /\ \A i \in 1..Len(a) : (a \o b)[i] = a[i]
           /\ \A i \in 1..Len(b) : (a \o b)[Len(a) + i] = b[i]
OBVIOUS

(* The cells of a concatenation. *)
LEMMA CellsOfConcat ==
    ASSUME NEW a \in Seq(Byte), NEW b \in Seq(Byte), NEW c \in Colors
    PROVE  CellsOf(a \o b, c) = CellsOf(a, c) \o CellsOf(b, c)
<1> DEFINE m == Len(a)
           n == Len(b)
           ab == a \o b
           X == CellsOf(a, c)
           Y == CellsOf(b, c)
           Z == CellsOf(ab, c)
<1>1. /\ m \in Nat /\ n \in Nat /\ ab \in Seq(Byte) /\ Len(ab) = m + n
      /\ \A i \in 1..m : ab[i] = a[i]
      /\ \A i \in 1..n : ab[m + i] = b[i]
    OBVIOUS
<1> HIDE DEF ab
<1>2. X \in Seq(Cells) /\ Y \in Seq(Cells) /\ Z \in Seq(Cells)
  <2>1. 0 \in 0..m /\ 0 \in 0..n /\ 0 \in 0..Len(ab)
      BY <1>1
  <2> QED BY <1>1, <2>1, CellsOfType, Zenon
<1>3. /\ Len(X) = m /\ Len(Y) = n /\ Len(Z) = m + n
      /\ \A i \in 1..m : X[i] = Cell(Shown(a[i]), c)
      /\ \A i \in 1..n : Y[i] = Cell(Shown(b[i]), c)
      /\ \A i \in 1..(m + n) : Z[i] = Cell(Shown(ab[i]), c)
    BY <1>1 DEF CellsOf
<1> HIDE DEF X, Y, Z, m, n
<1>4. /\ X \o Y \in Seq(Cells) /\ Len(X \o Y) = m + n
      /\ \A i \in 1..m : (X \o Y)[i] = X[i]
      /\ \A i \in 1..n : (X \o Y)[m + i] = Y[i]
  <2>1. /\ X \o Y \in Seq(Cells) /\ Len(X \o Y) = Len(X) + Len(Y)
        /\ \A i \in 1..Len(X) : (X \o Y)[i] = X[i]
        /\ \A i \in 1..Len(Y) : (X \o Y)[Len(X) + i] = Y[i]
      BY <1>2, ConcatParts
  <2> QED BY <1>3, <2>1, Zenon
<1>5. \A i \in 1..Len(Z) : Z[i] = (X \o Y)[i]
  <2> SUFFICES ASSUME NEW i \in 1..(m + n) PROVE Z[i] = (X \o Y)[i]
      BY <1>3
  <2>1. CASE i \in 1..m
    <3>1. (X \o Y)[i] = Cell(Shown(a[i]), c)
        BY <1>3, <1>4, <2>1, Zenon
    <3> QED BY <1>1, <1>3, <2>1, <3>1, Zenon
  <2>2. CASE i \notin 1..m
    <3>1. PICK j \in 1..n : i = m + j
      <4>1. i - m \in 1..n /\ i = m + (i - m)
          BY <1>1, <2>2
      <4> QED BY <4>1
    <3>2. (X \o Y)[i] = Cell(Shown(b[j]), c)
        BY <1>3, <1>4, <3>1, Zenon
    <3>3. Z[i] = Cell(Shown(b[j]), c)
        BY <1>1, <1>3, <3>1, Zenon
    <3> QED BY <3>2, <3>3, Zenon
  <2> QED BY <2>1, <2>2, Zenon
<1>6. Len(Z) = Len(X \o Y)
    BY <1>3, <1>4, Zenon
<1>7. Z = X \o Y
    BY <1>2, <1>4, <1>5, <1>6, SeqEqual, Zenon
<1> QED BY <1>7, Zenon DEF X, Y, Z, ab

(* A first part is a prefix. *)
LEMMA PrefixOf ==
    ASSUME NEW D \in Seq(Cells), NEW X \in Seq(Cells)
    PROVE  Len(D) \in 0..Len(D \o X) /\ SubSeq(D \o X, 1, Len(D)) = D
<1> DEFINE T == D \o X
           P == SubSeq(T, 1, Len(D))
<1>1. /\ T \in Seq(Cells) /\ Len(D) \in 0..Len(T) /\ Len(D) \in Nat
      /\ \A i \in 1..Len(D) : T[i] = D[i]
    OBVIOUS
<1> HIDE DEF T
<1>2. P \in Seq(Cells) /\ Len(P) = Len(D) /\ \A i \in 1..Len(D) : P[i] = T[i]
    BY <1>1
<1> HIDE DEF P
<1>3. \A i \in 1..Len(P) : P[i] = D[i]
    BY <1>1, <1>2, Zenon
<1>4. P = D
    BY <1>2, <1>3, SeqEqual
<1> QED BY <1>1, <1>4, Zenon DEF P, T

\* The writer w in colour c.
Recolored(w, c) == Rec(w.row, w.col, c, w.cells, w.cursor)

(* The colour only matters for what is written next. *)
LEMMA Recolor ==
    ASSUME NEW T, NEW c, NEW w, NEW c1 \in Colors, OnScreen(T, c, w)
    PROVE  OnScreen(T, c1, Recolored(w, c1))
<1> DEFINE v == Recolored(w, c1)
<1>1. T \in Seq(Cells) /\ Shows(LinesOf(T), w) /\ w \in Writers
    BY Zenon DEF OnScreen, Shows
<1>2. v \in Writers
    BY <1>1, WriterFields, RecType, Zenon DEF Recolored
<1>3. v.row = w.row /\ v.col = w.col /\ v.color = c1 /\ v.cells = w.cells /\ v.cursor = w.cursor
    BY RecFields DEF Recolored
<1> HIDE DEF v
<1>4. Shows(LinesOf(T), v)
    BY <1>1, <1>2, <1>3, Zenon DEF Shows
<1> QED BY <1>1, <1>3, <1>4, Zenon DEF OnScreen, v

(* A message's strings and colours. *)
LEMMA MessageTypes ==
    ASSUME NEW m \in Messages
    PROVE  /\ m.strings \in Seq(Seq(Byte)) /\ Bytes(m) \in Seq(Byte)
           /\ m.color \in Colors /\ Shade(m) \in Colors /\ "White" \in Colors
<1>1. m.strings \in Seq(Seq(Byte))
    BY MessagesAssumption, Zenon
<1>2. m.color \in Colors /\ "White" \in Colors
    BY Zenon DEF Colors
<1>3. Bytes(m) \in Seq(Byte)
    BY <1>1, FlattenType, Zenon DEF Bytes
<1> QED BY <1>1, <1>2, <1>3, Zenon DEF Shade

\* The texts of the messages p, and the bytes of those after the first n.
Texts(p) == [k \in 1..Len(p) |-> CellsOf(Bytes(p[k]), Shade(p[k]))]
Strings(p, n) == [k \in 1..(Len(p) - n) |-> Bytes(p[n + k])]

(* Their types. *)
LEMMA TextsType ==
    ASSUME NEW p \in Seq(Messages), NEW n \in 0..Len(p)
    PROVE  Texts(p) \in Seq(Seq(Cells)) /\ Strings(p, n) \in Seq(Seq(Byte))
<1>1. Len(p) \in Nat /\ \A k \in 1..Len(p) : p[k] \in Messages
    OBVIOUS
<1>2. \A m \in Messages : Bytes(m) \in Seq(Byte) /\ CellsOf(Bytes(m), Shade(m)) \in Seq(Cells)
  <2> SUFFICES ASSUME NEW m \in Messages
               PROVE  Bytes(m) \in Seq(Byte) /\ CellsOf(Bytes(m), Shade(m)) \in Seq(Cells)
      OBVIOUS
  <2>1. Bytes(m) \in Seq(Byte) /\ Shade(m) \in Colors
      BY MessageTypes, Zenon
  <2>2. 0 \in 0..Len(Bytes(m))
      BY <2>1
  <2> QED BY <2>1, <2>2, CellsOfType, Zenon
<1>3. \A k \in 1..Len(p) : CellsOf(Bytes(p[k]), Shade(p[k])) \in Seq(Cells)
    BY <1>1, <1>2, Zenon
<1>4. Texts(p) \in Seq(Seq(Cells))
    BY <1>1, <1>3, IsASeq DEF Texts
<1>5. Len(p) - n \in Nat /\ \A k \in 1..(Len(p) - n) : n + k \in 1..Len(p)
    BY <1>1
<1>6. \A k \in 1..(Len(p) - n) : Bytes(p[n + k]) \in Seq(Byte)
    BY <1>1, <1>2, <1>5, Zenon
<1>7. Strings(p, n) \in Seq(Seq(Byte))
    BY <1>5, <1>6, IsASeq DEF Strings
<1> QED BY <1>4, <1>7, Zenon

(* The text with one message more. *)
LEMMA TextsAppend ==
    ASSUME NEW p \in Seq(Messages), NEW m \in Messages
    PROVE  Flatten(Texts(Append(p, m))) = Flatten(Texts(p)) \o CellsOf(Bytes(m), Shade(m))
<1> DEFINE q == Append(p, m)
           n == Len(p)
           x == CellsOf(Bytes(m), Shade(m))
<1>1. /\ q \in Seq(Messages) /\ n \in Nat /\ Len(q) = n + 1 /\ q[n + 1] = m
      /\ 0 \in 0..Len(p) /\ 0 \in 0..Len(q) /\ \A k \in 1..n : q[k] = p[k]
    OBVIOUS
<1> HIDE DEF q, x
<1>2. Texts(p) \in Seq(Seq(Cells)) /\ Texts(q) \in Seq(Seq(Cells))
    BY <1>1, TextsType, Zenon
<1>3. x \in Seq(Cells)
  <2>1. Bytes(m) \in Seq(Byte) /\ Shade(m) \in Colors
      BY MessageTypes, Zenon
  <2>2. 0 \in 0..Len(Bytes(m))
      BY <2>1
  <2> QED BY <2>1, <2>2, CellsOfType, Zenon DEF x
<1>4. /\ Len(Texts(p)) = n /\ Len(Texts(q)) = n + 1
      /\ \A k \in 1..n : Texts(p)[k] = CellsOf(Bytes(p[k]), Shade(p[k]))
      /\ \A k \in 1..(n + 1) : Texts(q)[k] = CellsOf(Bytes(q[k]), Shade(q[k]))
    BY <1>1 DEF Texts
<1> HIDE DEF n
<1>5. \A k \in 1..(n + 1) : k \in 1..n \/ k = n + 1
    BY <1>1
<1>6. \A k \in 1..n : k \in 1..(n + 1)
    BY <1>1
<1>7. n + 1 \in 1..(n + 1)
    BY <1>1
<1>8. Texts(q) = Append(Texts(p), x)
  <2> DEFINE a == Texts(p)
             b == Texts(q)
  <2>1. /\ Append(a, x) \in Seq(Seq(Cells)) /\ Len(Append(a, x)) = n + 1 /\ Append(a, x)[n + 1] = x
        /\ \A k \in 1..n : Append(a, x)[k] = a[k]
    <3> HIDE DEF a
    <3>1. a \in Seq(Seq(Cells)) /\ Len(a) = n
        BY <1>2, <1>4, Zenon DEF a
    <3> QED BY <1>1, <1>3, <3>1
  <2>2. b[n + 1] = x
      BY <1>1, <1>4, <1>7, Zenon DEF x
  <2>3. \A k \in 1..n : b[k] = a[k]
      BY <1>1, <1>4, <1>6, Zenon
  <2>4. \A k \in 1..(n + 1) : b[k] = Append(a, x)[k]
      BY <1>5, <2>1, <2>2, <2>3, Zenon
  <2> HIDE DEF a, b
  <2>5. b \in Seq(Seq(Cells)) /\ Len(b) = n + 1
      BY <1>2, <1>4, Zenon DEF b
  <2>6. b = Append(a, x)
      BY <2>1, <2>4, <2>5, SeqEqual
  <2> QED BY <2>6, Zenon DEF a, b
<1>10. Flatten(Append(Texts(p), x)) = Flatten(Texts(p)) \o x
    BY <1>2, <1>3, FlattenAppend, Zenon
<1> QED BY <1>8, <1>10, Zenon DEF q, x

(* The bytes of the messages after the first e, with one message more. *)
LEMMA StringsAppend ==
    ASSUME NEW p \in Seq(Messages), NEW m \in Messages, NEW e \in 0..Len(p)
    PROVE  Flatten(Strings(Append(p, m), e)) = Flatten(Strings(p, e)) \o Bytes(m)
<1> DEFINE q == Append(p, m)
           n == Len(p) - e
           a == Strings(p, e)
           b == Strings(q, e)
           y == Bytes(m)
<1>1. /\ q \in Seq(Messages) /\ n \in Nat /\ Len(q) - e = n + 1 /\ q[e + (n + 1)] = m
      /\ e \in 0..Len(q) /\ \A k \in 1..n : q[e + k] = p[e + k]
    OBVIOUS
<1>2. a \in Seq(Seq(Byte)) /\ b \in Seq(Seq(Byte)) /\ y \in Seq(Byte)
    BY <1>1, TextsType, MessageTypes, Zenon
<1> HIDE DEF q
<1>3. /\ Len(a) = n /\ Len(b) = n + 1
      /\ \A k \in 1..n : a[k] = Bytes(p[e + k])
      /\ \A k \in 1..(n + 1) : b[k] = Bytes(q[e + k])
    BY <1>1 DEF Strings
<1> HIDE DEF n
<1>4. \A k \in 1..(n + 1) : k \in 1..n \/ k = n + 1
    BY <1>1
<1>5. n + 1 \in 1..(n + 1) /\ \A k \in 1..n : k \in 1..(n + 1)
    BY <1>1
<1>6. b[n + 1] = y
    BY <1>1, <1>3, <1>5, Zenon
<1>7. \A k \in 1..n : b[k] = a[k]
    BY <1>1, <1>3, <1>5, Zenon
<1> HIDE DEF a, b, y
<1>8. /\ Append(a, y) \in Seq(Seq(Byte)) /\ Len(Append(a, y)) = n + 1 /\ Append(a, y)[n + 1] = y
      /\ \A k \in 1..n : Append(a, y)[k] = a[k]
  <2>1. a \in Seq(Seq(Byte)) /\ Len(a) = n /\ y \in Seq(Byte)
      BY <1>2, <1>3, Zenon
  <2> QED BY <2>1
<1>9. \A k \in 1..(n + 1) : b[k] = Append(a, y)[k]
    BY <1>4, <1>6, <1>7, <1>8, Zenon
<1>10. b = Append(a, y)
    BY <1>2, <1>3, <1>8, <1>9, SeqEqual
<1>11. Flatten(Append(a, y)) = Flatten(a) \o y
    BY <1>2, FlattenAppend, Zenon
<1> QED BY <1>10, <1>11, Zenon DEF a, b, q, y
-----------------------------------------------------------------------------
(* The invariant *)

\* What the CPU that holds VGA_WRITER has still to write.
Pending == IF owner = "none" THEN <<>> ELSE Flatten(rest[owner])

\* The writer w shows the part D of the text T, and the bytes s are the rest.
ShowsPart(T, D, c, w, s) == OnScreen(D, c, w) /\ T = D \o CellsOf(s, c)
ShowsSome(T, c, w, s) == \E i \in 0..Len(T) : ShowsPart(T, SubSeq(T, 1, i), c, w, s)

VgaTypes ==
    /\ owner \in Cpus \cup {"none"} /\ pc \in [Cpus -> {"idle", "writing"}]
    /\ rest \in [Cpus -> Seq(Seq(Byte))] /\ printed \in Seq(Messages) /\ uart \in Seq(Byte)
    /\ is_uart \in BOOLEAN /\ uart_done \in BOOLEAN /\ early \in 0..Len(printed)

\* Before uart::init only the boot CPU prints.
Holds ==
    /\ ~uart_done => \A c \in Cpus \ {Bsp} : pc[c] = "idle"
    /\ \A c \in Cpus : pc[c] = "writing" <=> owner = c
    /\ owner = "none" => color = "White"
    /\ owner # "none" => Len(printed) # 0 /\ color = Shade(printed[Len(printed)])

SerialInv ==
    /\ is_uart => uart_done /\ uart \o Pending = Announcement \o Late
    /\ ~is_uart => uart = <<>>
ScreenInv == ShowsSome(Text, color, Writer, Pending)

VgaInv == VgaTypes /\ Holds /\ SerialInv /\ ScreenInv
(* What is shown is a prefix of the text. *)
LEMMA PartExists ==
    ASSUME NEW T, NEW D, NEW c \in Colors, NEW w, NEW s \in Seq(Byte), ShowsPart(T, D, c, w, s)
    PROVE  ShowsSome(T, c, w, s)
<1>1. D \in Seq(Cells) /\ T = D \o CellsOf(s, c)
    BY Zenon DEF ShowsPart, OnScreen
<1>2. CellsOf(s, c) \in Seq(Cells)
  <2>1. 0 \in 0..Len(s)
      OBVIOUS
  <2> QED BY <2>1, CellsOfType, Zenon
<1>3. Len(D) \in 0..Len(T) /\ SubSeq(T, 1, Len(D)) = D
    BY <1>1, <1>2, PrefixOf, Zenon
<1> QED BY <1>3, Zenon DEF ShowsSome

(* When nothing is pending, all of the text is shown. *)
LEMMA AllShown ==
    ASSUME NEW T, NEW c, NEW w, ShowsSome(T, c, w, <<>>)
    PROVE  OnScreen(T, c, w)
<1>1. PICK D : ShowsPart(T, D, c, w, <<>>)
    BY Zenon DEF ShowsSome
<1>2. OnScreen(D, c, w) /\ T = D \o <<>> /\ D \in Seq(Cells)
    BY <1>1, CellsOfEmpty, Zenon DEF ShowsPart, OnScreen
<1>3. D \o <<>> = D
    BY <1>2
<1> QED BY <1>2, <1>3, Zenon

(* And conversely. *)
LEMMA ShownAll ==
    ASSUME NEW T, NEW c \in Colors, NEW w, OnScreen(T, c, w)
    PROVE  ShowsSome(T, c, w, <<>>)
<1>1. T \in Seq(Cells)
    BY Zenon DEF OnScreen
<1>2. T \o <<>> = T /\ <<>> \in Seq(Byte)
    BY <1>1
<1>3. ShowsPart(T, T, c, w, <<>>)
    BY <1>2, CellsOfEmpty, Zenon DEF ShowsPart
<1> QED BY <1>2, <1>3, PartExists, Zenon

(* A message is locked: nothing of it shows yet. *)
LEMMA LockShows ==
    ASSUME NEW T, NEW c, NEW w, NEW c1 \in Colors, NEW s \in Seq(Byte), ShowsSome(T, c, w, <<>>)
    PROVE  ShowsSome(T \o CellsOf(s, c1), c1, Recolored(w, c1), s)
<1>1. OnScreen(T, c, w)
    BY AllShown, Zenon
<1>2. OnScreen(T, c1, Recolored(w, c1))
    BY <1>1, Recolor, Zenon
<1>3. ShowsPart(T \o CellsOf(s, c1), T, c1, Recolored(w, c1), s)
    BY <1>2, Zenon DEF ShowsPart
<1> QED BY <1>3, PartExists, Zenon

(* A string is written. *)
LEMMA WriteShows ==
    ASSUME NEW T, NEW c \in Colors, NEW w, NEW a \in Seq(Byte), NEW b \in Seq(Byte),
           ShowsSome(T, c, w, a \o b)
    PROVE  ShowsSome(T, c, WriteString(w, a), b)
<1>1. PICK D : ShowsPart(T, D, c, w, a \o b)
    BY Zenon DEF ShowsSome
<1>2. OnScreen(D, c, w) /\ T = D \o CellsOf(a \o b, c) /\ D \in Seq(Cells)
    BY <1>1, Zenon DEF ShowsPart, OnScreen
<1>3. CellsOf(a \o b, c) = CellsOf(a, c) \o CellsOf(b, c)
    BY CellsOfConcat, Zenon
<1>4. CellsOf(a, c) \in Seq(Cells) /\ CellsOf(b, c) \in Seq(Cells)
  <2>1. 0 \in 0..Len(a) /\ 0 \in 0..Len(b)
      OBVIOUS
  <2> QED BY <2>1, CellsOfType, Zenon
<1>5. Associates(D, CellsOf(a, c), CellsOf(b, c))
    BY <1>2, <1>4, Associative, Zenon
<1>6. T = (D \o CellsOf(a, c)) \o CellsOf(b, c)
    BY <1>2, <1>3, <1>5, Zenon DEF Associates
<1>7. OnScreen(D \o CellsOf(a, c), c, WriteString(w, a))
    BY <1>2, WriteStringShows, Zenon
<1>8. ShowsPart(T, D \o CellsOf(a, c), c, WriteString(w, a), b)
    BY <1>6, <1>7, Zenon DEF ShowsPart
<1> QED BY <1>8, PartExists, Zenon

(* The lock is released: the colour may change. *)
LEMMA UnlockShows ==
    ASSUME NEW T, NEW c, NEW w, NEW c1 \in Colors, ShowsSome(T, c, w, <<>>)
    PROVE  ShowsSome(T, c1, Recolored(w, c1), <<>>)
<1>1. OnScreen(T, c, w)
    BY AllShown, Zenon
<1>2. OnScreen(T, c1, Recolored(w, c1))
    BY <1>1, Recolor, Zenon
<1> QED BY <1>2, ShownAll, Zenon

(* The text and the bytes by the messages. *)
LEMMA TextIs == Text = Flatten(Texts(printed)) /\ Late = Flatten(Strings(printed, early))
BY Zenon DEF Text, Texts, Late, Strings

(* Types of the state: the writer's is part of what it shows. *)
LEMMA StateTypes ==
    ASSUME VgaInv
    PROVE  /\ color \in Colors /\ Pending \in Seq(Byte) /\ Writer \in Writers
           /\ Writer = Rec(row, col, color, cells, cursor)
           /\ "White" \in Colors
<1>1. PICK i : ShowsPart(Text, SubSeq(Text, 1, i), color, Writer, Pending)
    BY Zenon DEF VgaInv, ScreenInv, ShowsSome
<1>2. Writer \in Writers
    BY <1>1, Zenon DEF ShowsPart, OnScreen, Shows
<1>3. Writer = Rec(row, col, color, cells, cursor)
    BY Zenon DEF Writer, Rec
<1>4. color \in Colors
  <2>1. Writer.color = color
      BY DEF Writer
  <2> QED BY <1>2, <2>1, WriterFields, Zenon
<1>5. Pending \in Seq(Byte)
  <2>1. CASE owner = "none"
      BY <2>1 DEF Pending
  <2>2. CASE owner # "none"
    <3>1. rest[owner] \in Seq(Seq(Byte))
        BY <2>2 DEF VgaInv, VgaTypes
    <3> QED BY <2>2, <3>1, FlattenType, Zenon DEF Pending
  <2> QED BY <2>1, <2>2, Zenon
<1> QED BY <1>2, <1>3, <1>4, <1>5, Zenon DEF Colors
(* The screen at the start. *)
LEMMA InitShows ==
    ASSUME Init
    PROVE  OnScreen(<<>>, color, Writer)
<1> DEFINE L == << <<>> >>
           g == [p \in Grid |-> Cell(" ", "White")]
<1>1. LinesOf(<<>>) = L
    BY LinesEmpty
<1>2. "White" \in Colors
    BY DEF Colors
<1>3. Writer = Rec(0, 0, "White", g, cursor)
    BY Zenon DEF Init, Writer, Rec, Grid
<1>5. g \in [Grid -> Cells]
  <2>1. Cell(" ", "White") \in Cells
      BY <1>2 DEF Cell, Cells, Ascii
  <2> QED BY <2>1, Zenon
<1>6. cursor \in Cursors
    BY BootAssumption, Zenon DEF Init, Cursors
<1>7. 0 \in 0..(Height - 1) /\ 0 \in 0..Width
    BY Sizes
<1> DEFINE w == Rec(0, 0, "White", g, cursor)
<1> HIDE DEF g
<1>8. w \in Writers
    BY <1>2, <1>5, <1>6, <1>7, RecType, Zenon
<1>9. w.row = 0 /\ w.col = 0 /\ w.color = "White" /\ w.cells = g
    BY RecFields
<1>10. /\ L \in Seq(Seq(Cells)) /\ Len(L) = 1 /\ L[1] = <<>> /\ Len(L[1]) = 0
    OBVIOUS
<1> HIDE DEF L, w
<1>11. LinesType(L)
  <2>1. \A i \in 1..1 : i = 1
      OBVIOUS
  <2> QED BY <1>7, <1>10, <2>1 DEF LinesType
<1>12. w.row = Rows(L) - 1 /\ w.col = Len(L[Len(L)])
    BY <1>9, <1>10, Sizes DEF Rows
<1>13. ShowsLines(L, g)
  <2> SUFFICES ASSUME NEW r \in 0..(Height - 1), NEW k \in 0..(Width - 1)
               PROVE  ShowsAt(L, g, r, k)
      BY DEF ShowsLines
  <2>1. Skip(L) = 0
      BY <1>10, Sizes DEF Skip
  <2>2. ~At(L, r, k)
    <3>1. CASE r = 0
        BY <1>10, <2>1, <3>1 DEF At
    <3>2. CASE r # 0
        BY <1>10, <2>1, <3>2 DEF At
    <3> QED BY <3>1, <3>2, Zenon
  <2>3. <<r, k>> \in Grid
      BY Zenon DEF Grid
  <2>4. g[<<r, k>>].ascii = " "
    <3>1. g[<<r, k>>] = Cell(" ", "White")
        BY <2>3, Zenon DEF g
    <3>2. Cell(" ", "White").ascii = " "
        BY DEF Cell
    <3> QED BY <3>1, <3>2, Zenon
  <2> QED BY <2>2, <2>4, Zenon DEF ShowsAt
<1>14. Shows(L, w)
    BY <1>8, <1>9, <1>11, <1>12, <1>13, Zenon DEF Shows, L
<1>15. <<>> \in Seq(Cells)
    OBVIOUS
<1>16. color = "White"
    BY Zenon DEF Init
<1> QED BY <1>1, <1>3, <1>9, <1>14, <1>15, <1>16, Zenon DEF OnScreen, w

(* No CPU is called "none". *)
LEMMA NoneNotCpu == "none" \notin Cpus
BY VgaAssumption

(* The invariant holds at the start. *)
LEMMA InvInit == Init => VgaInv
<1> SUFFICES ASSUME Init PROVE VgaInv
    OBVIOUS
<1>1. /\ owner = "none" /\ pc = [c \in Cpus |-> "idle"] /\ rest = [c \in Cpus |-> <<>>]
      /\ color = "White" /\ ~is_uart /\ is_uart \in BOOLEAN /\ uart = <<>> /\ printed = <<>>
      /\ ~uart_done /\ uart_done \in BOOLEAN /\ early = 0
    BY Zenon DEF Init
<1>2. VgaTypes
  <2>1. <<>> \in Seq(Seq(Byte)) /\ <<>> \in Seq(Messages) /\ <<>> \in Seq(Byte)
      OBVIOUS
  <2>2. 0 \in 0..Len(<<>>)
      OBVIOUS
  <2> QED BY <1>1, <2>1, <2>2, Zenon DEF VgaTypes
<1>3. Holds
  <2>1. \A c \in Cpus : pc[c] # "writing" /\ pc[c] = "idle" /\ owner # c
      BY <1>1, NoneNotCpu, Zenon
  <2> QED BY <1>1, <2>1, Zenon DEF Holds
<1>4. Texts(printed) = <<>>
  <2>1. Texts(<<>>) = <<>>
      BY DEF Texts
  <2> QED BY <1>1, <2>1, Zenon
<1>5. Text = <<>> /\ Pending = <<>>
    BY <1>1, <1>4, TextIs, FlattenEmpty, Zenon DEF Pending
<1>6. SerialInv
    BY <1>1, Zenon DEF SerialInv
<1>7. ScreenInv
  <2>1. color \in Colors
      BY <1>1, Zenon DEF Colors
  <2> QED BY <1>5, <2>1, InitShows, ShownAll, Zenon DEF ScreenInv
<1> QED BY <1>2, <1>3, <1>6, <1>7, Zenon DEF VgaInv

(* The serial port is found, or not. *)
LEMMA InvUartInit ==
    ASSUME VgaInv, UartInit
    PROVE  VgaInv'
<1>1. VgaTypes /\ Holds /\ SerialInv /\ ScreenInv
    BY Zenon DEF VgaInv
<1>2. /\ pc[Bsp] = "idle" /\ ~uart_done /\ uart_done' /\ uart_done' \in BOOLEAN
      /\ is_uart' \in BOOLEAN /\ early' = Len(printed)
      /\ uart' = (IF is_uart' THEN uart \o Announcement ELSE uart)
      /\ owner' = owner /\ pc' = pc /\ rest' = rest /\ row' = row /\ col' = col /\ color' = color
      /\ cells' = cells /\ cursor' = cursor /\ printed' = printed
    BY Zenon DEF UartInit
<1>3. owner = "none"
    BY <1>1, <1>2, BootAssumption, Zenon DEF Holds, VgaTypes
<1>4. Pending' = <<>> /\ Pending' = Pending /\ Text' = Text /\ Writer' = Writer
    BY <1>2, <1>3, Zenon DEF Pending, Text, Writer
<1>5. uart = <<>> /\ <<>> \o Announcement = Announcement /\ Announcement \in Seq(Byte)
      /\ Announcement \o <<>> = Announcement
  <2>1. Announcement \in Seq(Byte)
      BY MessagesAssumption, Zenon
  <2>2. uart = <<>>
      BY <1>1, <1>2, Zenon DEF SerialInv
  <2> QED BY <2>1, <2>2
<1>6. Late' = <<>>
  <2>1. Late' = Flatten(Strings(printed, Len(printed)))
      BY <1>2, Zenon DEF Late, Strings
  <2>2. printed \in Seq(Messages)
      BY <1>1, Zenon DEF VgaTypes
  <2>3. Strings(printed, Len(printed)) = <<>>
      BY <2>2 DEF Strings
  <2> QED BY <2>1, <2>3, FlattenEmpty, Zenon
<1>7. SerialInv'
    BY <1>2, <1>4, <1>5, <1>6, Zenon DEF SerialInv
<1>8. VgaTypes'
  <2>1. uart' \in Seq(Byte)
      BY <1>1, <1>2, <1>5, Zenon DEF VgaTypes
  <2>2. Len(printed) \in 0..Len(printed)
      BY <1>1 DEF VgaTypes
  <2> QED BY <1>1, <1>2, <2>1, <2>2, Zenon DEF VgaTypes
<1>9. Holds'
    BY <1>1, <1>2, Zenon DEF Holds
<1>10. ScreenInv'
    BY <1>1, <1>2, <1>4, Zenon DEF ScreenInv
<1> QED BY <1>7, <1>8, <1>9, <1>10, Zenon DEF VgaInv

(* Taking the lock and the message. *)
LEMMA InvLock ==
    ASSUME VgaInv, NEW c \in Cpus, Lock(c)
    PROVE  VgaInv'
<1>1. VgaTypes /\ Holds /\ SerialInv /\ ScreenInv
    BY Zenon DEF VgaInv
<1>2. /\ pc[c] = "idle" /\ owner = "none" /\ owner' = c /\ pc' = [pc EXCEPT ![c] = "writing"]
      /\ row' = row /\ col' = col /\ cells' = cells /\ cursor' = cursor /\ is_uart' = is_uart /\ uart' = uart
      /\ (c = Bsp \/ uart_done) /\ uart_done' = uart_done /\ early' = early
    BY Zenon DEF Lock
<1>3. PICK m \in Messages : /\ rest' = [rest EXCEPT ![c] = m.strings]
                            /\ color' = IF m.color = "None" THEN color ELSE m.color
                            /\ printed' = Append(printed, m)
    BY Zenon DEF Lock
<1>4. /\ m.strings \in Seq(Seq(Byte)) /\ Bytes(m) \in Seq(Byte) /\ Shade(m) \in Colors
    BY MessageTypes, Zenon
<1>5. c # "none"
    BY NoneNotCpu, Zenon
<1>6. VgaTypes'
  <2>1. printed' \in Seq(Messages) /\ early' \in 0..Len(printed')
      BY <1>1, <1>2, <1>3 DEF VgaTypes
  <2> QED BY <1>1, <1>2, <1>3, <1>4, <2>1, Zenon DEF VgaTypes
<1>7. color' = Shade(m)
    BY <1>1, <1>2, <1>3, Zenon DEF Holds, Shade
<1>8. printed \in Seq(Messages) /\ Len(printed') = Len(printed) + 1 /\ printed'[Len(printed')] = m
      /\ Len(printed) \in Nat
    BY <1>1, <1>3 DEF VgaTypes
<1>9. Holds'
  <2>1. \A d \in Cpus : pc'[d] = "writing" <=> owner' = d
    <3> SUFFICES ASSUME NEW d \in Cpus PROVE pc'[d] = "writing" <=> owner' = d
        OBVIOUS
    <3>1. pc'[d] = IF d = c THEN "writing" ELSE pc[d]
        BY <1>1, <1>2, Zenon DEF VgaTypes
    <3>2. pc[d] # "writing"
        BY <1>1, <1>2, NoneNotCpu, Zenon DEF Holds
    <3> QED BY <1>2, <3>1, <3>2, Zenon
  <2>2. Len(printed') # 0
      BY <1>8
  <2>3. ~uart_done' => \A d \in Cpus \ {Bsp} : pc'[d] = "idle"
      BY <1>1, <1>2, Zenon DEF Holds, VgaTypes
  <2> QED BY <1>2, <1>5, <1>7, <1>8, <2>1, <2>2, <2>3, Zenon DEF Holds
<1>10. Pending = <<>> /\ Pending' = Bytes(m)
  <2>1. rest'[c] = m.strings
      BY <1>1, <1>3 DEF VgaTypes
  <2> QED BY <1>2, <1>5, <2>1, Zenon DEF Pending, Bytes
<1>11. Text' = Text \o CellsOf(Bytes(m), Shade(m)) /\ Late' = Late \o Bytes(m)
  <2>1. Text' = Flatten(Texts(printed')) /\ Late' = Flatten(Strings(printed', early))
      BY <1>2, Zenon DEF Text, Texts, Late, Strings
  <2>2. early \in 0..Len(printed)
      BY <1>1, Zenon DEF VgaTypes
  <2> QED BY <1>3, <1>8, <2>1, <2>2, TextIs, TextsAppend, StringsAppend, Zenon
<1>12. SerialInv'
  <2>1. uart \o <<>> = uart
      BY <1>1 DEF VgaTypes
  <2>2. Announcement \in Seq(Byte) /\ Late \in Seq(Byte)
    <3>1. Strings(printed, early) \in Seq(Seq(Byte))
        BY <1>1, TextsType, Zenon DEF VgaTypes
    <3> QED BY <3>1, TextIs, FlattenType, MessagesAssumption, Zenon
  <2>3. Associates(Announcement, Late, Bytes(m))
      BY <1>4, <2>2, Associative, Zenon
  <2>4. is_uart => uart' \o Pending' = Announcement \o Late'
      BY <1>1, <1>2, <1>10, <1>11, <2>1, <2>3, Zenon DEF SerialInv, Associates
  <2> QED BY <1>1, <1>2, <2>4, Zenon DEF SerialInv
<1>13. ScreenInv'
  <2>1. Writer' = Rec(row, col, Shade(m), cells, cursor)
      BY <1>2, <1>7, Zenon DEF Writer, Rec
  <2>2. Writer = Rec(row, col, color, cells, cursor)
      BY Zenon DEF Writer, Rec
  <2>3. Writer.row = row /\ Writer.col = col /\ Writer.cells = cells /\ Writer.cursor = cursor
      BY <2>2, RecFields
  <2>4. ShowsSome(Text, color, Writer, <<>>)
      BY <1>1, <1>10, Zenon DEF ScreenInv
  <2>5. Writer' = Recolored(Writer, Shade(m))
      BY <2>1, <2>3, Zenon DEF Recolored
  <2>6. ShowsSome(Text \o CellsOf(Bytes(m), Shade(m)), Shade(m), Recolored(Writer, Shade(m)), Bytes(m))
      BY <1>4, <2>4, LockShows, Zenon
  <2> QED BY <1>7, <1>10, <1>11, <2>5, <2>6, Zenon DEF ScreenInv
<1> QED BY <1>6, <1>9, <1>12, <1>13, Zenon DEF VgaInv

(* Writing a string. *)
LEMMA InvWriteStr ==
    ASSUME VgaInv, NEW c \in Cpus, WriteStr(c)
    PROVE  VgaInv'
<1>1. VgaTypes /\ Holds /\ SerialInv /\ ScreenInv
    BY Zenon DEF VgaInv
<1> DEFINE a == Head(rest[c])
           ss == Tail(rest[c])
           b == Flatten(ss)
           w == WriteString(Writer, a)
<1>2. /\ pc[c] = "writing" /\ rest[c] # <<>> /\ uart' = IF is_uart THEN uart \o a ELSE uart
      /\ rest' = [rest EXCEPT ![c] = ss]
      /\ owner' = owner /\ pc' = pc /\ is_uart' = is_uart /\ printed' = printed
      /\ uart_done' = uart_done /\ early' = early
    BY Zenon DEF WriteStr
<1>3. row' = w.row /\ col' = w.col /\ color' = w.color /\ cells' = w.cells /\ cursor' = w.cursor
    BY Zenon DEF WriteStr, SetWriter
<1>4. owner = c /\ c # "none"
    BY <1>1, <1>2, NoneNotCpu DEF Holds
<1>5. rest[c] \in Seq(Seq(Byte))
    BY <1>1 DEF VgaTypes
<1>6. a \in Seq(Byte) /\ ss \in Seq(Seq(Byte))
    BY <1>2, <1>5
<1>7. Flatten(rest[c]) = a \o b
    BY <1>2, <1>5, FlattenHead, Zenon
<1>8. b \in Seq(Byte)
    BY <1>6, FlattenType, Zenon
<1> HIDE DEF a, ss, w
<1>9. Pending = a \o b /\ Pending' = b
  <2>1. rest'[c] = ss
      BY <1>1, <1>2 DEF VgaTypes
  <2> QED BY <1>2, <1>4, <1>7, <2>1, Zenon DEF Pending
<1> HIDE DEF b
<1>10. Text' = Text /\ Late' = Late
    BY <1>2, Zenon DEF Text, Late
<1>11. color \in Colors
    BY StateTypes
<1>12. ShowsSome(Text, color, w, b)
  <2>1. ShowsSome(Text, color, Writer, a \o b)
      BY <1>1, <1>9, Zenon DEF ScreenInv
  <2> QED BY <1>6, <1>8, <1>11, <2>1, WriteShows, Zenon DEF w
<1>13. w \in Writers /\ w.color = color
    BY <1>12, Zenon DEF ShowsSome, ShowsPart, OnScreen, Shows
<1>14. Writer' = w /\ color' = color
  <2>1. Writer' = Rec(w.row, w.col, w.color, w.cells, w.cursor)
      BY <1>3, Zenon DEF Writer, Rec
  <2> QED BY <1>3, <1>13, <2>1, WriterFields, Zenon
<1>15. ScreenInv'
    BY <1>9, <1>10, <1>12, <1>14, Zenon DEF ScreenInv
<1>16. SerialInv'
  <2> SUFFICES ASSUME is_uart PROVE uart' \o b = Announcement \o Late
      BY <1>1, <1>2, <1>9, <1>10, Zenon DEF SerialInv
  <2>1. uart' = uart \o a /\ uart \in Seq(Byte)
      BY <1>1, <1>2, Zenon DEF VgaTypes
  <2>2. Associates(uart, a, b)
      BY <1>6, <1>8, <2>1, Associative, Zenon
  <2> QED BY <1>1, <1>9, <2>1, <2>2, Zenon DEF SerialInv, Associates
<1>17. VgaTypes'
  <2>1. uart' \in Seq(Byte)
      BY <1>1, <1>2, <1>6 DEF VgaTypes
  <2> QED BY <1>1, <1>2, <1>6, <2>1 DEF VgaTypes
<1>18. Holds'
    BY <1>1, <1>2, <1>14, Zenon DEF Holds
<1> QED BY <1>15, <1>16, <1>17, <1>18, Zenon DEF VgaInv

(* Releasing the lock. *)
LEMMA InvUnlock ==
    ASSUME VgaInv, NEW c \in Cpus, Unlock(c)
    PROVE  VgaInv'
<1>1. VgaTypes /\ Holds /\ SerialInv /\ ScreenInv
    BY Zenon DEF VgaInv
<1>2. /\ pc[c] = "writing" /\ rest[c] = <<>> /\ pc' = [pc EXCEPT ![c] = "idle"] /\ owner' = "none"
      /\ color' = (IF printed[Len(printed)].color = "None" THEN color ELSE "White")
      /\ rest' = rest /\ row' = row /\ col' = col /\ cells' = cells /\ cursor' = cursor
      /\ is_uart' = is_uart /\ uart' = uart /\ printed' = printed
      /\ uart_done' = uart_done /\ early' = early
    BY Zenon DEF Unlock
<1>3. owner = c /\ c # "none"
    BY <1>1, <1>2, NoneNotCpu DEF Holds
<1>4. color' = "White"
    BY <1>1, <1>2, <1>3, Zenon DEF Holds, Shade
<1>5. Pending = <<>> /\ Pending' = <<>>
    BY <1>2, <1>3, FlattenEmpty, Zenon DEF Pending
<1>6. Text' = Text /\ Late' = Late
    BY <1>2, Zenon DEF Text, Late
<1>7. VgaTypes'
    BY <1>1, <1>2 DEF VgaTypes
<1>8. Holds'
  <2>1. \A d \in Cpus : pc'[d] = "writing" <=> owner' = d
      BY <1>1, <1>2, <1>3, NoneNotCpu DEF Holds, VgaTypes
  <2>2. ~uart_done' => \A d \in Cpus \ {Bsp} : pc'[d] = "idle"
      BY <1>1, <1>2, Zenon DEF Holds, VgaTypes
  <2> QED BY <1>2, <1>4, <2>1, <2>2, Zenon DEF Holds
<1>9. SerialInv'
    BY <1>1, <1>2, <1>5, <1>6, Zenon DEF SerialInv
<1>10. ScreenInv'
  <2>1. Writer' = Rec(row, col, "White", cells, cursor)
      BY <1>2, <1>4, Zenon DEF Writer, Rec
  <2>2. Writer = Rec(row, col, color, cells, cursor) /\ "White" \in Colors
      BY StateTypes, Zenon
  <2>3. Writer.row = row /\ Writer.col = col /\ Writer.cells = cells /\ Writer.cursor = cursor
      BY <2>2, RecFields
  <2>4. ShowsSome(Text, color, Writer, <<>>)
      BY <1>1, <1>5, Zenon DEF ScreenInv
  <2>5. Writer' = Recolored(Writer, "White")
      BY <2>1, <2>3, Zenon DEF Recolored
  <2>6. ShowsSome(Text, "White", Recolored(Writer, "White"), <<>>)
      BY <2>2, <2>4, UnlockShows, Zenon
  <2> QED BY <1>4, <1>5, <1>6, <2>5, <2>6, Zenon DEF ScreenInv
<1> QED BY <1>7, <1>8, <1>9, <1>10, Zenon DEF VgaInv
(* The invariant over a step that changes nothing. *)
LEMMA InvStutter == VgaInv /\ vars' = vars => VgaInv'
<1> SUFFICES ASSUME VgaInv, vars' = vars PROVE VgaInv'
    OBVIOUS
<1>1. /\ owner' = owner /\ pc' = pc /\ rest' = rest /\ row' = row /\ col' = col /\ color' = color
      /\ cells' = cells /\ cursor' = cursor /\ is_uart' = is_uart /\ uart' = uart /\ printed' = printed
      /\ uart_done' = uart_done /\ early' = early
    BY Zenon DEF vars
<1>2. Pending' = Pending /\ Late' = Late /\ Text' = Text /\ Writer' = Writer
    BY <1>1, Zenon DEF Pending, Late, Text, Writer
<1>3. SerialInv' /\ ScreenInv'
    BY <1>1, <1>2, Zenon DEF VgaInv, SerialInv, ScreenInv
<1>4. VgaTypes' /\ Holds'
    BY <1>1, Zenon DEF VgaInv, VgaTypes, Holds
<1> QED BY <1>3, <1>4, Zenon DEF VgaInv

(* The screen shows what has been written of the text of all messages, in   *)
(* the order of their locks, and the holder of VGA_WRITER has the rest; the *)
(* serial port, once found, has the announcement and the messages since.    *)
THEOREM ConsoleInvariant == Spec => []VgaInv
<1>1. Init => VgaInv
    BY InvInit
<1>2. VgaInv /\ [Next]_vars => VgaInv'
  <2> SUFFICES ASSUME VgaInv, [Next]_vars PROVE VgaInv'
      OBVIOUS
  <2>1. CASE \E c \in Cpus : Lock(c) \/ WriteStr(c) \/ Unlock(c)
      BY <2>1, InvLock, InvWriteStr, InvUnlock, Zenon
  <2>2. CASE vars' = vars
      BY <2>2, InvStutter, Zenon
  <2>3. CASE UartInit
      BY <2>3, InvUartInit, Zenon
  <2> QED BY <2>1, <2>2, <2>3, Zenon DEF Next
<1> QED BY <1>1, <1>2, PTL DEF Spec

(* When no CPU is printing, all of the text is shown. *)
LEMMA QuietShows ==
    ASSUME VgaInv, Quiet
    PROVE  Shows(Lines, Writer) /\ Pending = <<>>
<1>1. VgaTypes /\ Holds /\ ScreenInv
    BY Zenon DEF VgaInv
<1>2. owner = "none"
    BY <1>1 DEF VgaTypes, Holds, Quiet
<1>3. Pending = <<>>
    BY <1>2, Zenon DEF Pending
<1>4. OnScreen(Text, color, Writer)
    BY <1>1, <1>3, AllShown, Zenon DEF ScreenInv
<1> QED BY <1>3, <1>4, Zenon DEF OnScreen, Lines

(* The writer stays inside the buffer, whose write_cell indexes it.         *)
THEOREM TypeCorrect == Spec => []TypeOK
<1>1. VgaInv => TypeOK
  <2> SUFFICES ASSUME VgaInv PROVE TypeOK
      OBVIOUS
  <2>1. Writer \in Writers /\ Writer = Rec(row, col, color, cells, cursor)
      BY StateTypes, Zenon
  <2>2. /\ Writer.row = row /\ Writer.col = col /\ Writer.color = color
        /\ Writer.cells = cells /\ Writer.cursor = cursor
      BY <2>1, RecFields
  <2>3. /\ row \in 0..(Height - 1) /\ col \in 0..Width /\ color \in Colors
        /\ cells \in [Grid -> Cells] /\ cursor \in Cursors
    <3>1. /\ Writer.row \in 0..(Height - 1) /\ Writer.col \in 0..Width /\ Writer.color \in Colors
          /\ Writer.cells \in [Grid -> Cells] /\ Writer.cursor \in Cursors
        BY <2>1, WriterFields, Zenon
    <3> QED BY <2>2, <3>1, Zenon
  <2>4. DOMAIN cells = (0..(Height - 1)) \X (0..(Width - 1))
      BY <2>3, Zenon DEF Grid
  <2>5. cursor.hi \in 0..255 /\ cursor.lo \in 0..255
      BY <2>3 DEF Cursors
  <2>6. owner \in Cpus \cup {"none"} /\ pc \in [Cpus -> {"idle", "writing"}]
      BY Zenon DEF VgaInv, VgaTypes
  <2> QED BY <2>3, <2>4, <2>5, <2>6, Zenon DEF TypeOK
<1> QED BY <1>1, ConsoleInvariant, PTL

(* The screen shows the last lines of all that was printed: new_line and    *)
(* write_byte, taken over any number of strings and messages of any CPUs,   *)
(* do to the buffer what the reference does to the text.                    *)
THEOREM ScreenRight == Spec => []ScreenShowsTail
<1>1. VgaInv => ScreenShowsTail
  <2> SUFFICES ASSUME VgaInv, Quiet PROVE ScreenShowsTail
      BY Zenon DEF ScreenShowsTail
  <2>1. ShowsLines(Lines, Writer.cells)
      BY QuietShows, Zenon DEF Shows
  <2>2. Writer.cells = cells
      BY DEF Writer
  <2>3. ShowsLines(Lines, cells)
      BY <2>1, <2>2, Zenon
  <2> QED BY <2>3, Zenon DEF ScreenShowsTail, ShowsLines, ShowsAt, At, Skip
<1> QED BY <1>1, ConsoleInvariant, PTL

\* A position from its two bytes.
Fits(x) == x < 256 * 256
Joined(x) == ((x \div 256) % 256) * 256 + (x % 256)

(* Two bytes hold a position of 16 bits. *)
LEMMA TwoBytes ==
    ASSUME NEW x \in Nat, Fits(x)
    PROVE  Joined(x) = x
<1> DEFINE q == x \div 256
           m == x % 256
<1>1. q \in Nat /\ m \in 0..255 /\ x = 256 * q + m
    OBVIOUS
<1> HIDE DEF q, m
<1>2. q < 256
    BY <1>1 DEF Fits
<1>3. q % 256 = q
    BY <1>1, <1>2
<1>4. (q % 256) * 256 + m = x
    BY <1>1, <1>3
<1> QED BY <1>4 DEF Joined, q, m

(* The positions of the screen fit. *)
LEMMA Position ==
    ASSUME NEW r \in 0..(Height - 1), NEW k \in 0..Width
    PROVE  r * Width + k \in Nat /\ Fits(r * Width + k)
<1>1. Height \in Nat /\ Width \in Nat /\ Height * Width < 256 * 256
    BY VgaAssumption
<1>2. r \in Nat /\ k \in Nat /\ r + 1 <= Height /\ k <= Width
    BY <1>1
<1>3. (r + 1) * Width <= Height * Width
    BY <1>1, <1>2
<1>4. (r + 1) * Width = r * Width + Width /\ r * Width \in Nat
    BY <1>1, <1>2
<1> DEFINE a == r * Width
           b == Height * Width
<1>5. b \in Nat
    BY <1>1
<1>6. a \in Nat /\ b < 256 * 256 /\ a + Width <= b
    BY <1>1, <1>3, <1>4, <1>5
<1> HIDE DEF a, b
<1>7. a + k \in Nat /\ a + k < 256 * 256
    BY <1>1, <1>2, <1>5, <1>6
<1> QED BY <1>7 DEF a, Fits

(* The two bytes update_cursor writes are the position after the last       *)
(* character, from the first one on.                                        *)
THEOREM CursorRight == Spec => []CursorAtEnd
<1>1. VgaInv => CursorAtEnd
  <2> SUFFICES ASSUME VgaInv, Quiet, Lines # << <<>> >> PROVE CursorAtEnd
      BY Zenon DEF CursorAtEnd
  <2> DEFINE r == Rows(Lines) - 1
             k == Len(Lines[Len(Lines)])
             x == r * Width + k
  <2>1. Writer \in Writers /\ Writer.row = r /\ Writer.col = k /\ Writer.cursor = CursorAt(Writer.row, Writer.col)
      BY QuietShows, Zenon DEF Shows
  <2>2. Writer.cursor = cursor
      BY DEF Writer
  <2>3. cursor = CursorAt(r, k)
      BY <2>1, <2>2, Zenon
  <2>4. r \in 0..(Height - 1) /\ k \in 0..Width
      BY <2>1, WriterFields, Zenon
  <2> HIDE DEF r, k
  <2>5. x \in Nat /\ Fits(x)
      BY <2>4, Position, Zenon
  <2>6. cursor.hi = (x \div 256) % 256 /\ cursor.lo = x % 256
      BY <2>3 DEF CursorAt
  <2> HIDE DEF x
  <2>7. cursor.hi * 256 + cursor.lo = x
    <3>1. Joined(x) = x
        BY <2>5, TwoBytes, Zenon
    <3> QED BY <2>6, <3>1 DEF Joined
  <2> QED BY <2>7 DEF CursorAtEnd, x, r, k, Rows
<1> QED BY <1>1, ConsoleInvariant, PTL

(* What was sent on COM1 is the announcement and then the messages printed  *)
(* since, one after the other; nothing where there is no port.              *)
THEOREM SerialRight == Spec => []MessagesWhole
<1>1. VgaInv => MessagesWhole
  <2> SUFFICES ASSUME VgaInv, Quiet PROVE MessagesWhole
      BY Zenon DEF MessagesWhole
  <2>1. Pending = <<>> /\ uart \in Seq(Byte) /\ SerialInv
      BY QuietShows, Zenon DEF VgaInv, VgaTypes
  <2>2. uart \o <<>> = uart
      BY <2>1
  <2> QED BY <2>1, <2>2, Zenon DEF SerialInv, MessagesWhole
<1> QED BY <1>1, ConsoleInvariant, PTL
=============================================================================
