------------------------------ MODULE Picture ------------------------------
(***************************************************************************)
(* What the desktop of the kernel looks like: layers laid one over the     *)
(* other, each described by what a pixel must satisfy to be in it, on      *)
(* whatever the screen has shown before.                                   *)
(***************************************************************************)
EXTENDS Integers, Sequences

CONSTANTS
  BarHeight, ButtonPart, IconX, IconUp, IconSize,   \* main.cc:98-105
  CursorX, CursorY, CursorShape,                    \* main.cc:23-48, 122-130
  GlyphWidth, GlyphHeight,
  Shape(_),   \* the dots of a character
  Text        \* the lines on the console, from its first row on

VARIABLES
  screen,     \* [width, height]
  picture,    \* the colour of each pixel
  done        \* the number of layers that have been laid

vars == <<screen, picture, done>>

Pixel == (0 .. screen.width - 1) \X (0 .. screen.height - 1)

RGB(r, g, b) == [r |-> r, g |-> g, b |-> b]

Colour == [r : 0 .. 255, g : 0 .. 255, b : 0 .. 255]

InBar(p)    == p[2] >= screen.height - BarHeight
InButton(p) == InBar(p) /\ p[1] < screen.width \div ButtonPart

\* The edge of a square whose upper left corner is IconUp above the lower edge.
OnIcon(p) ==
  LET dx == p[1] - IconX
      dy == p[2] - (screen.height - IconUp)
  IN  /\ dx \in 0 .. IconSize - 1 /\ dy \in 0 .. IconSize - 1
      /\ dx \in {0, IconSize - 1} \/ dy \in {0, IconSize - 1}

\* A pixel belongs to one cell of the console, and is a dot of its character.
OnLine(row, p) ==
  LET column == p[1] \div GlyphWidth
  IN  /\ p[2] \div GlyphHeight = row /\ column < Len(Text[row + 1])
      /\ <<p[1] % GlyphWidth, p[2] % GlyphHeight>> \in Shape(Text[row + 1][column + 1])

InCursor(p, mark) ==
  LET d == <<p[1] - CursorX, p[2] - CursorY>>
  IN  d \in DOMAIN CursorShape /\ CursorShape[d] = mark

\* The colour layer n gives a pixel that had a colour before it.
Layer(n, p, before) ==
  CASE n = 1 -> IF InBar(p) THEN before ELSE RGB(45, 118, 237)
    [] n = 2 -> IF InBar(p) THEN RGB(1, 8, 17) ELSE before
    [] n = 3 -> IF InButton(p) THEN RGB(80, 80, 80) ELSE before
    [] n = 4 -> IF OnIcon(p) THEN RGB(160, 160, 160) ELSE before
    [] n = 5 -> IF OnLine(0, p) THEN RGB(0, 0, 0) ELSE before
    [] n = 6 -> IF InCursor(p, "@") THEN RGB(0, 0, 0)
                ELSE IF InCursor(p, ".") THEN RGB(255, 255, 255) ELSE before
    [] OTHER -> IF OnLine(n - 6, p) THEN RGB(0, 0, 0) ELSE before

Init ==
  /\ screen \in [width : Nat, height : Nat]
  /\ picture \in [Pixel -> Colour]
  /\ done = 0

\* What is on the screen before the kernel draws may change: the loader fills it, and
\* the firmware writes its text on it.
Before ==
  /\ done = 0
  /\ picture' \in [Pixel -> Colour]
  /\ UNCHANGED <<screen, done>>

Lay ==
  /\ done < 5 + Len(Text)
  /\ done' = done + 1
  /\ picture' = [p \in Pixel |-> Layer(done + 1, p, picture[p])]
  /\ UNCHANGED screen

Next == Before \/ Lay

Spec == Init /\ [][Next]_vars
=============================================================================
