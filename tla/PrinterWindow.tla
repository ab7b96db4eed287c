--------------------------- MODULE PrinterWindow ---------------------------
(***************************************************************************)
(* The cursor arithmetic of printer_send, source/emulated/emulated_printers.c: *)
(* a window of Columns x Rows cells, the cursor relative to its corner.    *)
(* printer_send compares absolute coordinates; both sides carry the same   *)
(* terminal_starting_coordinates, which are left out here.                 *)
(***************************************************************************)
EXTENDS Naturals

CONSTANTS Columns, Rows   \* WIDTH / 9, and HEIGHT / 16 less one in the lower row

\* The cursor that wraps onto a margin advances to the second column.
ASSUME WindowNat == Columns \in Nat /\ Rows \in Nat /\ Columns >= 2 /\ Rows >= 1

\* The characters printer_send tells apart.
Chars == {"CR", "LF", "glyph"}

Cursors == [x : Nat, y : Nat]

Bug_AtBottom_late(c) == c.y >= Rows

\* The cursor is at the right end of its line; it is on the last line.
AtMargin(c) == c.x + 1 >= Columns
AtBottom(c) == c.y + 1 >= Rows

Wraps(cur, c) == c # "CR" /\ (AtMargin(cur) \/ c = "LF")

NewLine(cur) == [x |-> 0, y |-> IF AtBottom(cur) THEN 0 ELSE cur.y + 1]

\* A glyph that wraps is drawn on the new line only if that is at its margin
\* already: x was set to the window's first column before it is tested again.
DrawnAfterWrap(cur, c) == Wraps(cur, c) /\ c # "LF" /\ AtMargin(NewLine(cur))

\* Where printer_send leaves the cursor.
printer_send(cur, c) ==
    IF c = "CR" THEN [cur EXCEPT !.x = 0]
    ELSE IF DrawnAfterWrap(cur, c) THEN [NewLine(cur) EXCEPT !.x = 1]
    ELSE IF Wraps(cur, c) THEN NewLine(cur)
    ELSE [cur EXCEPT !.x = @ + 1]

\* The cells printer_send hands to lfb_send, as positions in the window.
Drawn(cur, c) ==
    IF c = "CR" THEN {}
    ELSE IF c = "LF" THEN {[x |-> i, y |-> cur.y] : i \in cur.x .. (Columns - 1)}
    ELSE IF DrawnAfterWrap(cur, c) THEN {NewLine(cur)}
    ELSE IF Wraps(cur, c) THEN {}
    ELSE {cur}
=============================================================================
