-------------------------- MODULE TerminalsProofs --------------------------
(***************************************************************************)
(* Proofs about Terminals: the windows of the printers on a display of any *)
(* resolution.                                                             *)
(***************************************************************************)
EXTENDS Terminals, TLAPS

\* The size of a printer's window, as Window(num) is given it.
Width == WIDTH \div 9
Height(num) == IF num > 1 THEN HEIGHT \div 16 - 1 ELSE HEIGHT \div 16

\* The cells of a printer's window on the display.
InOwnWindow(num, cell) ==
    /\ cell \in [x : Nat, y : Nat]
    /\ Start(num).x <= cell.x /\ cell.x < Start(num).x + Width
    /\ Start(num).y <= cell.y /\ cell.y < Start(num).y + Height(num)

\* Only blanks are drawn in the last column of a window.
GlyphInside(cell) == sent.char # "LF" => cell.x < Start(sent.num).x + Width - 1

\* The inductive invariant.
TerminalsInv ==
    /\ cursor \in [Printers -> [x : Nat, y : Nat]]
    /\ CursorsInWindows
    /\ sent \in [num : Printers, char : {"CR", "LF", "glyph"}]
    /\ \A cell \in drawn : InOwnWindow(sent.num, cell) /\ GlyphInside(cell)

-----------------------------------------------------------------------------
\* The sizes are numbers, and a window has two columns and a row at least.
LEMMA WindowSizes ==
    /\ WIDTH \in Nat /\ HEIGHT \in Nat
    /\ Width \in Nat /\ Width >= 2
    /\ \A num \in Printers : Height(num) \in Nat /\ Height(num) >= 1
<1>1. WIDTH \in Nat /\ HEIGHT \in Nat  BY DisplayTyped
<1>2. WIDTH \div 9 \in Nat /\ HEIGHT \div 16 \in Nat  BY <1>1
<1> QED  BY <1>1, <1>2, DisplayTyped DEF Width, Height, Printers

\* From a cursor inside of its window printer_send leads to one inside of it.
LEMMA CursorStays ==
    ASSUME NEW num \in Printers, NEW c \in {"CR", "LF", "glyph"},
           NEW cur \in [x : Nat, y : Nat], cur.x < Width, cur.y < Height(num)
    PROVE  /\ Window(num)!printer_send(cur, c) \in [x : Nat, y : Nat]
           /\ Window(num)!printer_send(cur, c).x < Width
           /\ Window(num)!printer_send(cur, c).y < Height(num)
BY WindowSizes
DEF Width, Height, Window!printer_send, Window!DrawnAfterWrap, Window!Wraps, Window!NewLine,
    Window!AtMargin, Window!AtBottom

\* What it draws is inside of the window.
LEMMA DrawnInside ==
    ASSUME NEW num \in Printers, NEW c \in {"CR", "LF", "glyph"},
           NEW cur \in [x : Nat, y : Nat], cur.x < Width, cur.y < Height(num),
           NEW cell \in Window(num)!Drawn(cur, c)
    PROVE  /\ cell \in [x : Nat, y : Nat]
           /\ cell.x < Width
           /\ cell.y < Height(num)
           /\ c # "LF" => cell.x < Width - 1
BY WindowSizes
DEF Width, Height, Window!Drawn, Window!DrawnAfterWrap, Window!Wraps, Window!NewLine,
    Window!AtMargin, Window!AtBottom

-----------------------------------------------------------------------------
LEMMA TerminalsInitially == Init => TerminalsInv
<1> SUFFICES ASSUME Init PROVE TerminalsInv  OBVIOUS
<1>1. CursorsInWindows  BY WindowSizes DEF Init, CursorsInWindows, Width, Height
<1> QED  BY <1>1 DEF Init, TerminalsInv, Printers

LEMMA TerminalsStep == TerminalsInv /\ [Next]_vars => TerminalsInv'
<1> SUFFICES ASSUME TerminalsInv, [Next]_vars PROVE TerminalsInv'  OBVIOUS
<1>1. CASE UNCHANGED vars
  BY <1>1 DEF TerminalsInv, CursorsInWindows, InOwnWindow, GlyphInside, vars
<1>2. ASSUME NEW num \in Printers, NEW c \in {"CR", "LF", "glyph"}, Send(num, c)
      PROVE  TerminalsInv'
  <2> DEFINE cur == cursor[num]
  <2>1. cur \in [x : Nat, y : Nat] /\ cur.x < Width /\ cur.y < Height(num)
    BY WindowSizes DEF TerminalsInv, CursorsInWindows, Width, Height
  <2>2. cursor' = [cursor EXCEPT ![num] = Window(num)!printer_send(cur, c)]
    BY <1>2 DEF Send
  <2> HIDE DEF cur
  <2>3. /\ Window(num)!printer_send(cur, c) \in [x : Nat, y : Nat]
        /\ Window(num)!printer_send(cur, c).x < Width
        /\ Window(num)!printer_send(cur, c).y < Height(num)
    BY <2>1, CursorStays
  <2>4. cursor' \in [Printers -> [x : Nat, y : Nat]] /\ CursorsInWindows'
    BY <2>2, <2>3, WindowSizes DEF TerminalsInv, CursorsInWindows, Width, Height
  <2>5. sent' = [num |-> num, char |-> c]  BY <1>2 DEF Send
  <2>6. ASSUME NEW cell \in drawn' PROVE InOwnWindow(num, cell) /\ GlyphInside(cell)'
    <3>1. PICK inside \in Window(num)!Drawn(cur, c) :
             cell = [x |-> Start(num).x + inside.x, y |-> Start(num).y + inside.y]
      BY <1>2, <2>6 DEF Send, cur
    <3>2. inside \in [x : Nat, y : Nat] /\ inside.x < Width /\ inside.y < Height(num)
          /\ (c # "LF" => inside.x < Width - 1)
      BY <2>1, DrawnInside
    <3>3. Start(num) \in [x : Nat, y : Nat]  BY WindowSizes DEF Start, Width, Height
    <3> QED  BY <2>5, <3>1, <3>2, <3>3, WindowSizes DEF InOwnWindow, GlyphInside
  <2> QED  BY <2>4, <2>5, <2>6 DEF TerminalsInv
<1> QED  BY <1>1, <1>2 DEF Next, Window!Chars

\* Columns up to the right edge of the screen are where lfb_send draws them.
LEMMA NoWrap ==
    ASSUME NEW column \in Nat, column < 2 * WIDTH, NEW line \in Nat
    PROVE  XOf(column) = column /\ YOf(column, line) = line
<1> DEFINE width == 2 * WIDTH
<1>1. width \in Nat \ {0} /\ column < width  BY DisplayTyped
<1> HIDE DEF width
<1>2. column % width = column /\ column \div width = 0  BY <1>1
<1> QED  BY <1>2 DEF XOf, YOf, width

\* Cells of a window are on its side of both lines of the grid, but for those of
\* the last column of a right window, the only ones that may pass the right edge.
LEMMA WindowInQuarter ==
    ASSUME FontWidth = 8, FontHeight = 16, NEW num \in Printers, NEW cell,
           InOwnWindow(num, cell), num \in {1, 3} => cell.x < 2 * Width
    PROVE  InQuarter(num, cell)
<1>1. cell.x \in Nat /\ cell.y \in Nat  BY DEF InOwnWindow
<1>2. 9 * Width <= WIDTH /\ WIDTH < 9 * Width + 9
  BY WindowSizes DEF Width
<1>3. /\ HEIGHT \div 16 \in Nat
      /\ 16 * (HEIGHT \div 16) <= HEIGHT /\ HEIGHT < 16 * (HEIGHT \div 16) + 16
  BY WindowSizes
<1> SUFFICES ASSUME NEW column \in Columns(cell), NEW line \in Lines(cell)
             PROVE  /\ IF num \in {1, 3} THEN XOf(column) > WIDTH ELSE XOf(column) < WIDTH
                    /\ IF num > 1 THEN YOf(column, line) > HEIGHT ELSE YOf(column, line) < HEIGHT
  <2>1. cell.y * 16 \in Lines(cell)  BY <1>1 DEF Lines
  <2> QED  BY <2>1 DEF InQuarter
<1>4. /\ column \in Nat /\ column < 2 * WIDTH
      /\ IF num \in {1, 3} THEN column > WIDTH ELSE column < WIDTH
  <2>1. column \in cell.x * 9 .. cell.x * 9 + 7  BY <1>1 DEF Columns
  <2>2. IF num \in {1, 3} THEN cell.x >= Width + 1 /\ cell.x < 2 * Width ELSE cell.x < Width
    BY <1>1, WindowSizes DEF InOwnWindow, Start, Width
  <2> QED  BY <1>1, <1>2, <2>1, <2>2, WindowSizes
<1>5. line \in Nat /\ IF num > 1 THEN line > HEIGHT ELSE line < HEIGHT
  <2>1. line \in cell.y * 16 .. (cell.y + 1) * 16 - 1  BY <1>1 DEF Lines
  <2>2. IF num > 1 THEN cell.y >= HEIGHT \div 16 + 1 ELSE cell.y < HEIGHT \div 16
    BY <1>1, <1>3 DEF InOwnWindow, Start, Height
  <2> QED  BY <1>1, <1>3, <2>1, <2>2, WindowSizes DEF Printers
<1> QED  BY <1>4, <1>5, NoWrap

-----------------------------------------------------------------------------
\* Each cursor stays in its window (printer_send), at every resolution with
\* room for two columns and two rows in a quarter.
THEOREM CursorsStayInWindows == Spec => []CursorsInWindows
<1>1. TerminalsInv => CursorsInWindows  BY DEF TerminalsInv
<1> QED  BY <1>1, TerminalsInitially, TerminalsStep, PTL DEF Spec

\* With the font of the code (lfb.h), at every resolution, also where 9 and 16 do
\* not divide it, no printer draws over the grid or beyond it (lfb_send), but for
\* the blanks that a line feed leaves in the last column of a right window.
THEOREM PrintersKeepApart ==
    FontWidth = 8 /\ FontHeight = 16 => (Spec => []PrintersApart)
<1> SUFFICES ASSUME FontWidth = 8, FontHeight = 16 PROVE Spec => []PrintersApart  OBVIOUS
<1>1. TerminalsInv => PrintersApart
  <2> SUFFICES ASSUME TerminalsInv, NEW cell \in drawn
               PROVE  InQuarter(sent.num, cell) \/ LastBlank(cell)
    BY DEF PrintersApart
  <2>1. sent.num \in Printers /\ InOwnWindow(sent.num, cell) /\ GlyphInside(cell)
    BY DEF TerminalsInv
  <2>2. sent.num \in {1, 3} => cell.x < 2 * Width \/ LastBlank(cell)
    BY <2>1, WindowSizes DEF InOwnWindow, GlyphInside, LastBlank, Start, Width
  <2> QED  BY <2>1, <2>2, WindowInQuarter
<1> QED  BY <1>1, TerminalsInitially, TerminalsStep, PTL DEF Spec
=============================================================================
