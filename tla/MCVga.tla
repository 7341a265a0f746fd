------------------------------- MODULE MCVga -------------------------------
(***************************************************************************)
(* A 3 x 2 screen and messages that fill a row exactly, wrap, scroll and   *)
(* contain bytes that are not printable. The BIOS has left the cursor at   *)
(* the start of the screen, or on a line of its own messages.              *)
(***************************************************************************)
EXTENDS Vga

Msg(clr, strings) == [color |-> clr, strings |-> strings]

MCMessages == {
    Msg("None", << <<"a">>, <<"\n">> >>),
    Msg("None", << <<"a", "b">> >>),
    Msg("Cyan", << <<"b", "x", "a">>, <<"\n">> >>),
    Msg("Cyan", << <<"\n", "\n", "b">> >>)}

MCBiosCursor == {[hi |-> 0, lo |-> 0], [hi |-> 1, lo |-> 64]}
MCAnnouncement == <<"x", "\n">>
=============================================================================
