------------------------------ MODULE Console ------------------------------
(***************************************************************************)
(* The cursor of the text renderer (src/src/kernel/renderer.c): where      *)
(* render_putc draws a character and where it leaves the cursor, in        *)
(* pixels.  Only a glyph moves the cursor back to the top or to the next   *)
(* line when it comes to an edge; the control characters look at none but  *)
(* the left one.  Glyphs are drawn over what is there.                     *)
(***************************************************************************)
EXTENDS Integers, Sequences

CONSTANTS
  Margin,       \* of the first column and row, and the width of a tab: 32
  FontWidth,    \* font_width, at most 8
  FontHeight,   \* font_height
  Spacing,      \* font_spacing, between columns and between rows
  Width,        \* of the frame buffer
  Height        \* of the frame buffer

\* The screen has room for two columns and two rows.
ASSUME ConsoleAssumption ==
  /\ {Margin, FontWidth, FontHeight, Spacing, Width, Height} \subseteq Nat
  /\ FontWidth > 0 /\ FontHeight > 0
  /\ Margin + 2 * FontWidth + Spacing < Width
  /\ Margin + 2 * FontHeight + Spacing < Height

\* The control characters render_putc knows; all others have a glyph.
NL  == "nl"
CR  == "cr"
TAB == "tab"
BS  == "bs"

Column == FontWidth + Spacing
Row    == FontHeight + Spacing

Home == [x |-> Margin, y |-> Margin]

\* A glyph drawn at c is on the screen as a whole.
Visible(c) == c.x + FontWidth <= Width /\ c.y + FontHeight <= Height

\* Mutant: the cursor is not moved back to the top.
NoScroll(c) == c

\* At the bottom the cursor goes back to the top.
Scroll(c) == IF c.y + FontHeight >= Height THEN [c EXCEPT !.y = Margin] ELSE c

\* The cursor after a glyph.
Advance(c) ==
  Scroll(IF c.x + Column + FontWidth >= Width
           THEN [x |-> Margin, y |-> c.y + Row]
           ELSE [c EXCEPT !.x = @ + Column])

\* Whether there is a character to the left to take back.
CanErase(c) == c.x >= Margin + Column

\* The cursor after the character ch.
After(c, ch) ==
  CASE ch = NL  -> [x |-> Margin, y |-> c.y + Row]
    [] ch = CR  -> [c EXCEPT !.x = Margin]
    [] ch = TAB -> [c EXCEPT !.x = @ + Margin]
    [] ch = BS  -> IF CanErase(c) THEN [c EXCEPT !.x = @ - Column] ELSE c
    [] OTHER    -> Advance(c)

\* The cursor after each of the characters of text.
Path(c, text) ==
  LET at[i \in 0 .. Len(text)] == IF i = 0 THEN c ELSE After(at[i - 1], text[i])
  IN  at

\* The rows that have ink once the cursor has gone along a path: those it has
\* left.
LeftRows(path) == {path[i].y : i \in {j \in DOMAIN path : \E k \in DOMAIN path :
                                        k > j /\ path[k].y # path[j].y}}

\* The rows on which a path went back to the left, over what was drawn there.
BackRows(path) == {path[i].y : i \in {j \in DOMAIN path : \E k \in DOMAIN path :
                                        /\ k > j /\ path[k].y = path[j].y
                                        /\ path[k].x < path[j].x}}
=============================================================================
