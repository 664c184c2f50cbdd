------------------------------ MODULE FontFile ------------------------------
(***************************************************************************)
(* From the font file to the screen: the build turns the file into the     *)
(* table (makefont.py, objcopy), then the kernel draws characters.  What   *)
(* it draws is to be the picture in the file.                              *)
(***************************************************************************)
EXTENDS Font

CONSTANTS
  Pictures,   \* the fonts: sequences of pictures, sequences of lines of dots
  Characters  \* the values a char has

\* A picture has as many lines as a glyph, of one dot or more.
ASSUME FontPictures == Pictures \subseteq Seq([1 .. GlyphHeight -> Seq(Dots) \ {<<>>}])

\* The indexes of the negative characters are past the end of the table, whatever the
\* font (256 characters of 16 bytes, and an unsigned int of 32 bits).
ASSUME FontCharacters ==
  \A char \in Characters :
    /\ char \in Int /\ GlyphHeight * char < IndexModulus
    /\ char < 0 => \A pictures \in Pictures :
                     GlyphHeight * Len(pictures) < IndexModulus + GlyphHeight * char

VARIABLES
  font,     \* the pictures in the file
  table,    \* _binary_hankaku_bin_start and what follows
  c,        \* the character drawn last
  drawn,    \* its pixels, relative to its place
  pc

vars == <<font, table, c, drawn, pc>>

\* hankaku.txt has a line with its code before each picture, and an empty one after.
Source(pictures) ==
  [n \in 1 .. (GlyphHeight + 2) * Len(pictures) |->
     LET picture == pictures[(n - 1) \div (GlyphHeight + 2) + 1]
         line    == (n - 1) % (GlyphHeight + 2)
     IN  CASE line = 0               -> <<"0", "x">>
           [] line = GlyphHeight + 1 -> <<>>
           [] OTHER                  -> picture[line]]

Init ==
  /\ font \in Pictures
  /\ table = <<>> /\ c = 0 /\ drawn = {} /\ pc = "Build"

\* makefont.py:34-37.  The output is opened, and so emptied, before the font is read.
Build ==
  /\ pc = "Build"
  /\ IF Compiles(Source(font)) THEN table' = compile(Source(font)) /\ pc' = "Draw"
                               ELSE table' = <<>> /\ pc' = "Failed"
  /\ UNCHANGED <<font, c, drawn>>

\* Makefile:41-45.  The empty output is newer than the font, and make does not delete
\* what a failed command leaves: called again, it links the empty table.
MakeAgain ==
  /\ pc = "Failed" /\ pc' = "Draw"
  /\ UNCHANGED <<font, table, c, drawn>>

Draw(char) ==
  /\ pc \in {"Draw", "Drawn"}
  /\ c' = char /\ drawn' = WriteAscii(table, 0, 0, char)
  /\ pc' = "Drawn"
  /\ UNCHANGED <<font, table>>

Next == Build \/ MakeAgain \/ \E char \in Characters : Draw(char)

Spec == Init /\ [][Next]_vars

-----------------------------------------------------------------------------
\* The pixels of a picture.
Shown(picture) ==
  {d \in (0 .. GlyphWidth - 1) \X (0 .. GlyphHeight - 1) : picture[d[2] + 1][d[1] + 1] # "."}

\* hankaku.txt has GlyphWidth dots in each line of a picture.  (makefont.py notices a
\* longer one only if its value does not fit the byte.)
Regular == \A k \in DOMAIN font : \A row \in DOMAIN font[k] : Len(font[k][row]) = GlyphWidth

\* A character from 0 on is drawn as its picture in the file, dot for dot; one above
\* 0x7f (negative, as a char) is not drawn, although the file has a picture for it.
DrawsPicture ==
  pc = "Drawn" /\ Regular =>
    drawn = IF c >= 0 /\ c < Len(font) THEN Shown(font[c + 1]) ELSE {}

TooWide == \E k \in DOMAIN font : \E row \in DOMAIN font[k] : Len(font[k][row]) > GlyphWidth

\* Each line of a picture makes one row of the table, so every glyph is whole; the build
\* fails only for a line wider than a glyph, and only then can a kernel be linked with a
\* table that is not whole: an empty one, after make has been called again.
TableWhole ==
  /\ pc \in {"Draw", "Drawn"} =>
       Len(table) = GlyphHeight * Len(font) \/ (table = <<>> /\ TooWide)
  /\ pc = "Failed" => TooWide
=============================================================================
