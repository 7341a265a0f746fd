--------------------------------- MODULE Vga ---------------------------------
(***************************************************************************)
(* The console (kernel/src/console.rs, uart.rs): print! from several CPUs  *)
(* to the VGA text buffer and the serial port, under the VGA_WRITER lock.  *)
(* A message is what format_args! yields, a sequence of strings each given *)
(* to write_str; a string is a sequence of byte classes: "\n", "a", "b"    *)
(* (printable) and "x" (not printable). main() prints before it has set up *)
(* the serial port, and starts the other CPUs after that.                  *)
(***************************************************************************)
EXTENDS Integers, Sequences

CONSTANTS Cpus, Height, Width, Messages,
          Bsp,          \* the CPU that runs main()
          BiosCursor,   \* what the BIOS may leave in the cursor registers
          Announcement, \* the bytes of "xv6...\n"
          MaxPrints     \* bound on the number of messages

\* update_cursor writes 16 bits of the cursor's position; the buffer is 25 x 80.
ASSUME VgaAssumption ==
    /\ Height \in Nat \ {0} /\ Width \in Nat \ {0} /\ Height * Width < 256 * 256
    /\ MaxPrints \in Nat /\ "none" \notin Cpus

ASSUME BootAssumption == Bsp \in Cpus /\ BiosCursor \subseteq [hi : 0..255, lo : 0..255]

Byte == {"\n", "a", "b", "x"}
ASSUME MessagesAssumption ==
    /\ \A m \in Messages : m.strings \in Seq(Seq(Byte))
    /\ Announcement \in Seq(Byte)

VARIABLES
    owner,             \* of VGA_WRITER, "none" when free
    pc, rest,          \* per CPU: program point, strings still to write
    row, col, color,   \* Writer
    cells,             \* the VGA buffer
    cursor,            \* CRT registers 0x0E and 0x0F, high and low byte
    is_uart, uart,     \* IS_UART; the bytes sent on COM1
    uart_done,         \* main() is past uart::init
    printed, early     \* history: the messages in the order of their locks, and
                       \* how many of them came before uart::init

vars == <<owner, pc, rest, row, col, color, cells, cursor, is_uart, uart, uart_done, printed,
          early>>

Cell(ch, clr) == [ascii |-> ch, color |-> clr]

\* The state of Writer and of the devices, as a value that methods transform.
Writer == [row |-> row, col |-> col, color |-> color, cells |-> cells, cursor |-> cursor]

-----------------------------------------------------------------------------
(* Methods of Writer, as functions of its value w *)

ClearRow(w, r) ==
    [w EXCEPT !.cells = [p \in DOMAIN @ |-> IF p[1] = r THEN Cell(" ", w.color) ELSE @[p]]]

UpdateCursor(w) ==
    LET pos == w.row * Width + w.col
    IN [w EXCEPT !.cursor = [hi |-> (pos \div 256) % 256, lo |-> pos % 256]]

\* Mutant of NewLine: the last row is taken for row Height.
NewLineOffByOne(w) ==
    UpdateCursor([IF w.row = Height THEN ClearRow(w, Height - 1) ELSE [w EXCEPT !.row = @ + 1]
                  EXCEPT !.col = 0])

\* new_line: scroll the rows up on the last row, else go down.
NewLine(w) ==
    LET scrolled == [w EXCEPT !.cells = [p \in DOMAIN @ |->
                        IF p[1] < Height - 1 THEN @[<<p[1] + 1, p[2]>>] ELSE @[p]]]
        next == IF w.row = Height - 1 THEN ClearRow(scrolled, Height - 1)
                ELSE [w EXCEPT !.row = @ + 1]
    IN UpdateCursor([next EXCEPT !.col = 0])

\* Mutant of WriteByte: the line is ended when it is full, not before the next
\* byte.
WriteByteEager(w, byte) ==
    IF byte = "\n" THEN NewLine(w)
    ELSE LET v == [w EXCEPT !.cells[<<w.row, w.col>>] = Cell(byte, w.color), !.col = @ + 1]
         IN IF v.col >= Width THEN NewLine(v) ELSE UpdateCursor(v)

WriteByte(w, byte) ==
    IF byte = "\n" THEN NewLine(w)
    ELSE LET v == IF w.col >= Width THEN NewLine(w) ELSE w
         IN UpdateCursor([v EXCEPT !.cells[<<v.row, v.col>>] = Cell(byte, v.color), !.col = @ + 1])

\* write_string: what is neither printable nor a newline is written as 0xFE.
Shown(byte) == IF byte = "x" THEN "0xFE" ELSE byte
WriteString(w, s) ==
    LET upto[i \in 0..Len(s)] == IF i = 0 THEN w ELSE WriteByte(upto[i - 1], Shown(s[i]))
    IN upto[Len(s)]

SetWriter(w) ==
    /\ row' = w.row /\ col' = w.col /\ color' = w.color
    /\ cells' = w.cells /\ cursor' = w.cursor

-----------------------------------------------------------------------------
\* After clear_screen(), which does not set the cursor.
Init ==
    /\ owner = "none"
    /\ pc = [c \in Cpus |-> "idle"] /\ rest = [c \in Cpus |-> <<>>]
    /\ row = 0 /\ col = 0 /\ color = "White"
    /\ cells = [p \in (0..(Height - 1)) \X (0..(Width - 1)) |-> Cell(" ", "White")]
    /\ cursor \in BiosCursor
    /\ is_uart = FALSE /\ uart = <<>> /\ uart_done = FALSE
    /\ printed = <<>> /\ early = 0

\* uart::init, which finds the port or not, and the announcement main() sends.
UartInit ==
    /\ pc[Bsp] = "idle"
    /\ ~uart_done /\ uart_done' = TRUE
    /\ is_uart' \in BOOLEAN
    /\ uart' = IF is_uart' THEN uart \o Announcement ELSE uart
    /\ early' = Len(printed)
    /\ UNCHANGED <<owner, pc, rest, row, col, color, cells, cursor, printed>>

\* Mutant of Lock: VGA_WRITER is not locked.
LockNot(c) ==
    /\ pc[c] = "idle" /\ (c = Bsp \/ uart_done) /\ Len(printed) < MaxPrints
    /\ \E m \in Messages :
          /\ rest' = [rest EXCEPT ![c] = m.strings]
          /\ color' = IF m.color = "None" THEN color ELSE m.color
          /\ printed' = Append(printed, m)
    /\ pc' = [pc EXCEPT ![c] = "writing"]
    /\ UNCHANGED <<owner, row, col, cells, cursor, is_uart, uart, uart_done, early>>

\* _print (m.color is "None") or _print_with_color, up to write_fmt. Until
\* start_others() only the boot CPU runs.
Lock(c) ==
    /\ pc[c] = "idle" /\ (c = Bsp \/ uart_done) /\ Len(printed) < MaxPrints
    /\ owner = "none" /\ owner' = c
    /\ \E m \in Messages :
          /\ rest' = [rest EXCEPT ![c] = m.strings]
          /\ color' = IF m.color = "None" THEN color ELSE m.color
          /\ printed' = Append(printed, m)
    /\ pc' = [pc EXCEPT ![c] = "writing"]
    /\ UNCHANGED <<row, col, cells, cursor, is_uart, uart, uart_done, early>>

\* write_str: the string goes to the serial port, then to the screen.
WriteStr(c) ==
    /\ pc[c] = "writing" /\ rest[c] # <<>>
    /\ uart' = IF is_uart THEN uart \o Head(rest[c]) ELSE uart
    /\ SetWriter(WriteString(Writer, Head(rest[c])))
    /\ rest' = [rest EXCEPT ![c] = Tail(@)]
    /\ UNCHANGED <<owner, pc, is_uart, uart_done, printed, early>>

\* Mutant of Unlock: the colour is not reset.
UnlockNoReset(c) ==
    /\ pc[c] = "writing" /\ rest[c] = <<>>
    /\ pc' = [pc EXCEPT ![c] = "idle"]
    /\ owner' = "none"
    /\ UNCHANGED <<rest, row, col, color, cells, cursor, is_uart, uart, uart_done, printed,
                   early>>

\* _print_with_color resets the colour; _print had left it alone. The guard is
\* dropped.
Unlock(c) ==
    /\ pc[c] = "writing" /\ rest[c] = <<>>
    /\ pc' = [pc EXCEPT ![c] = "idle"]
    /\ color' = IF printed[Len(printed)].color = "None" THEN color ELSE "White"
    /\ owner' = "none"
    /\ UNCHANGED <<rest, row, col, cells, cursor, is_uart, uart, uart_done, printed, early>>

Next == UartInit \/ \E c \in Cpus : Lock(c) \/ WriteStr(c) \/ Unlock(c)

Spec == Init /\ [][Next]_vars
-----------------------------------------------------------------------------
(* Properties *)

Colors == {"White"} \cup {m.color : m \in Messages}

\* The writer's position stays inside the buffer, where write_cell indexes it
\* without a bounds panic; the column may be one past the end.
TypeOK ==
    /\ row \in 0..(Height - 1) /\ col \in 0..Width /\ color \in Colors
    /\ DOMAIN cells = (0..(Height - 1)) \X (0..(Width - 1))
    /\ owner \in Cpus \cup {"none"} /\ pc \in [Cpus -> {"idle", "writing"}]
    /\ cursor.hi \in 0..255 /\ cursor.lo \in 0..255

Quiet == \A c \in Cpus : pc[c] = "idle"

Flatten(ss) ==
    LET upto[i \in 0..Len(ss)] == IF i = 0 THEN <<>> ELSE upto[i - 1] \o ss[i]
    IN upto[Len(ss)]
Bytes(m) == Flatten(m.strings)

\* The reference: all the text ever printed, ...
CellsOf(bytes, clr) == [i \in 1..Len(bytes) |-> Cell(Shown(bytes[i]), clr)]
Shade(m) == IF m.color = "None" THEN "White" ELSE m.color
Text == Flatten([k \in 1..Len(printed) |-> CellsOf(Bytes(printed[k]), Shade(printed[k]))])

\* ... as lines of at most Width cells.
AddCell(lines, cell) ==
    IF cell.ascii = "\n" THEN Append(lines, <<>>)
    ELSE IF Len(lines[Len(lines)]) = Width THEN Append(lines, <<cell>>)
    ELSE [lines EXCEPT ![Len(lines)] = Append(@, cell)]
LinesOf(text) ==
    LET upto[i \in 0..Len(text)] == IF i = 0 THEN << <<>> >> ELSE AddCell(upto[i - 1], text[i])
    IN upto[Len(text)]
Lines == LinesOf(Text)

\* Whenever no CPU is printing, the screen shows the last Height lines of all
\* that was printed, each character in the colour of its own message.
ScreenShowsTail == Quiet =>
    LET skip == IF Len(Lines) > Height THEN Len(Lines) - Height ELSE 0
        at(r, k) == skip + r + 1 <= Len(Lines) /\ k + 1 <= Len(Lines[skip + r + 1])
    IN \A r \in 0..(Height - 1), k \in 0..(Width - 1) :
          IF at(r, k) THEN cells[<<r, k>>] = Lines[skip + r + 1][k + 1]
          ELSE cells[<<r, k>>].ascii = " "

\* ... and, once there was something to show, the hardware cursor is right after
\* the last character, wherever the BIOS had left it.
CursorAtEnd == Quiet /\ Lines # << <<>> >> =>
    LET shown == IF Len(Lines) > Height THEN Height ELSE Len(Lines)
    IN cursor.hi * 256 + cursor.lo = (shown - 1) * Width + Len(Lines[Len(Lines)])

\* Messages of different CPUs never mix on the serial line: what was sent is the
\* announcement, then every message printed since the port was found, one after
\* the other in the order of their locks. Without a port nothing is sent.
Late == Flatten([k \in 1..(Len(printed) - early) |-> Bytes(printed[early + k])])
MessagesWhole == Quiet => uart = IF is_uart THEN Announcement \o Late ELSE <<>>
==============================================================================
