------------------------------ MODULE Terminals ------------------------------
(***************************************************************************)
(* The four windows of the printers on the display: printer_send with the  *)
(* starting coordinates of source/emulated/emulated_printers.c, and the    *)
(* pixels that lfb_send of source/emulated/lfb.c writes for a cell.        *)
(***************************************************************************)
EXTENDS Naturals, FiniteSets

CONSTANTS
    WIDTH, HEIGHT,         \* half of the requested resolution
    FontWidth, FontHeight  \* of a glyph; res/font.bin has 8 by 16

\* Every window has room for a cell and its successor.
ASSUME DisplayTyped ==
    /\ {WIDTH, HEIGHT, FontWidth, FontHeight} \subseteq Nat \ {0}
    /\ WIDTH \div 9 >= 2 /\ HEIGHT \div 16 >= 2

Printers == 0..3

\* A printer's window: a row less at the bottom of the screen.
Window(num) == INSTANCE PrinterWindow WITH
                   Columns <- WIDTH \div 9,
                   Rows <- IF num > 1 THEN HEIGHT \div 16 - 1 ELSE HEIGHT \div 16

VARIABLES
    cursor,   \* terminal_coordinates
    sent,     \* the printer and character of the last printer_send
    drawn     \* the cells it handed to lfb_send

vars == <<cursor, sent, drawn>>

Bug_Start_overlapping(num) == [x |-> IF num \in {1, 3} THEN WIDTH \div 9 - 1 ELSE 0,
                               y |-> IF num > 1 THEN HEIGHT \div 16 + 1 ELSE 0]

\* terminal_starting_coordinates
Start(num) == [x |-> IF num \in {1, 3} THEN WIDTH \div 9 + 1 ELSE 0,
               y |-> IF num > 1 THEN HEIGHT \div 16 + 1 ELSE 0]

Init == /\ cursor = [num \in Printers |-> [x |-> 0, y |-> 0]]
        /\ sent = [num |-> 0, char |-> "CR"]
        /\ drawn = {}

Send(num, c) ==
    /\ cursor' = [cursor EXCEPT ![num] = Window(num)!printer_send(@, c)]
    /\ sent' = [num |-> num, char |-> c]
    /\ drawn' = {[x |-> Start(num).x + cell.x, y |-> Start(num).y + cell.y] :
                     cell \in Window(num)!Drawn(cursor[num], c)}

Next == \E num \in Printers : \E c \in Window(num)!Chars : Send(num, c)

Spec == Init /\ [][Next]_vars

-----------------------------------------------------------------------------
\* lfb_send writes the pixels of a cell, which is one pixel wider than a glyph, at
\* y * pitch + x * 4: what passes the right edge of the screen is at the left of
\* the next scan line.
Columns(cell) == cell.x * (FontWidth + 1) .. cell.x * (FontWidth + 1) + FontWidth - 1
Lines(cell) == cell.y * FontHeight .. (cell.y + 1) * FontHeight - 1
XOf(column) == column % (2 * WIDTH)
YOf(column, line) == line + column \div (2 * WIDTH)

\* The cell is on printer num's side of the grid that terminal_grid drew between
\* the windows, off the grid itself.
InQuarter(num, cell) ==
    \A column \in Columns(cell) :
        /\ IF num \in {1, 3} THEN XOf(column) > WIDTH ELSE XOf(column) < WIDTH
        /\ \A line \in Lines(cell) : IF num > 1 THEN YOf(column, line) > HEIGHT
                                               ELSE YOf(column, line) < HEIGHT

\* A line feed in a right window blanks one cell more than glyphs are drawn in.
LastBlank(cell) == /\ sent.char = "LF" /\ sent.num \in {1, 3}
                   /\ cell.x = 2 * (WIDTH \div 9)

\* No printer draws over the grid or into another's window, blanks of the last
\* column of a right window excepted.
PrintersApart == \A cell \in drawn : InQuarter(sent.num, cell) \/ LastBlank(cell)

\* Without the exception ("fake terminal devices (represented as 4 "windows" on
\* the display)", README.md): the terminals have windows of their own.
OwnQuarter == \A cell \in drawn : InQuarter(sent.num, cell)

\* Each printer's cursor stays in its window, whose last row depends on the
\* half of the screen, so that what it prints next starts there.
CursorsInWindows ==
    \A num \in Printers :
        /\ cursor[num].x < WIDTH \div 9
        /\ cursor[num].y < HEIGHT \div 16 - (IF num > 1 THEN 1 ELSE 0)

\* A character sent to a printer appears ("Sends a character to the specified
\* printer", emulated_printers.c).
GlyphShown == sent.char = "glyph" => drawn # {}
=============================================================================
