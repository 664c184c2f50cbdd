-------------------------------- MODULE Font --------------------------------
(***************************************************************************)
(* The glyphs: tools/makefont.py packs the pictures of kernel/hankaku.txt  *)
(* into bytes, one for each line of a picture, and kernel/font.cc finds    *)
(* the sixteen bytes of a character and unpacks them.                      *)
(*                                                                         *)
(* A font file is a sequence of lines, a line a sequence of characters.    *)
(***************************************************************************)
EXTENDS Integers, Sequences

CONSTANTS
  GlyphWidth,     \* 8
  GlyphHeight,    \* 16
  IndexModulus    \* 2^32

ASSUME FontSizes ==
  GlyphWidth \in Nat \ {0} /\ GlyphHeight \in Nat \ {0} /\ IndexModulus \in Nat \ {0}

\* 2 ^ n, as a function that proofs can unfold.
PowerOfTwo[n \in Nat] == IF n = 0 THEN 1 ELSE 2 * PowerOfTwo[n - 1]

ByteModulus == PowerOfTwo[GlyphWidth]

-----------------------------------------------------------------------------
(***************************************************************************)
(* makefont.py                                                             *)
(***************************************************************************)
Dots == {".", "*", "@"}

\* The part of a line that BITMAP_PATTERN matches: its longest prefix of dots.
Matched(line) ==
  SubSeq(line, 1, CHOOSE n \in 0 .. Len(line) :
                    /\ \A k \in 1 .. n : line[k] \in Dots
                    /\ n < Len(line) => line[n + 1] \notin Dots)

\* bits[n - 1], which is 0 or 1.
Bit(dots, n) == IF dots[n] = "." THEN 0 ELSE 1

\* Mutant: the first dot is the lowest bit.
PackedReverse(dots) ==
  LET value[n \in 0 .. Len(dots)] ==
        IF n = 0 THEN 0 ELSE value[n - 1] + PowerOfTwo[n - 1] * Bit(dots, n)
  IN  value[Len(dots)]

\* The reduction over the bits; value[n] is its accumulator after n of them.
Packed(dots) ==
  LET value[n \in 0 .. Len(dots)] ==
        IF n = 0 THEN 0 ELSE 2 * value[n - 1] + Bit(dots, n)
  IN  value[Len(dots)]

\* Mutant: only lines that begin with a dot count.
IsBitmapDot(line) == line # <<>> /\ line[1] = "."

IsBitmap(line) == Matched(line) # <<>>

\* A row that does not fit a byte makes to_bytes fail, and the build with it.
Compiles(src) ==
  \A k \in DOMAIN src : IsBitmap(src[k]) => Packed(Matched(src[k])) < ByteModulus

\* The bytes of a file; result[n] is the list after n lines.  (lstrip takes away the empty
\* lines before the first one, which are no pictures.)
compile(src) ==
  LET result[n \in 0 .. Len(src)] ==
        IF n = 0 THEN <<>>
        ELSE IF IsBitmap(src[n]) THEN Append(result[n - 1], Packed(Matched(src[n])))
        ELSE result[n - 1]
  IN  result[Len(src)]

-----------------------------------------------------------------------------
(***************************************************************************)
(* font.cc                                                                 *)
(***************************************************************************)

\* A char is signed: the ones above 0x7f are negative, and their index is far past
\* the end of the table.
Index(c) == (GlyphHeight * (c % IndexModulus)) % IndexModulus

\* GetFont returns a span, not nullopt.
HasFont(table, c) == Index(c) < Len(table)

\* Row dy of the span.
FontRow(table, c, dy) == table[Index(c) + dy + 1]

\* (row << dx) & 0x80
BitShown(row, dx) == (row * PowerOfTwo[dx]) % ByteModulus >= PowerOfTwo[GlyphWidth - 1]

\* The pixels WriteAscii writes.
WriteAscii(table, x, y, c) ==
  {<<x + d[1], y + d[2]>> :
     d \in {d \in (0 .. GlyphWidth - 1) \X (0 .. GlyphHeight - 1) :
              HasFont(table, c) /\ BitShown(FontRow(table, c, d[2]), d[1])}}
=============================================================================
