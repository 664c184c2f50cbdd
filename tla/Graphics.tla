------------------------------ MODULE Graphics ------------------------------
(***************************************************************************)
(* kernel/graphics.h and graphics.cc: where a pixel is in the frame        *)
(* buffer, the order of its bytes, and the pixels of the two rectangles.   *)
(*                                                                         *)
(* The bytes from the start of the frame buffer on are a function from     *)
(* their offsets.  Nothing keeps a write inside the buffer: an offset      *)
(* outside of it, once written, is in the function's domain too.           *)
(***************************************************************************)
EXTENDS Integers

CONSTANTS
  IntModulus,   \* 2^32
  Wraps         \* does the build wrap a product of ints that is too large, or widen it?

ASSUME GraphicsModulus == IntModulus \in Nat \ {0} /\ IntModulus % 4 = 0
ASSUME GraphicsBuild == Wraps \in BOOLEAN

\* FrameBufferConfig, without the address of the buffer.
FrameBufferConfig ==
  [pixels_per_scan_line : Nat \ {0}, horizontal_resolution : Nat, vertical_resolution : Nat,
   pixel_format : STRING]

PixelColor == [r : 0 .. 255, g : 0 .. 255, b : 0 .. 255]

\* An int made of an unsigned number.
Signed(n) ==
  LET m == n % IntModulus IN IF 2 * m < IntModulus THEN m ELSE m - IntModulus

\* The offset that is four times the int n, again an int.  Its overflow is undefined:
\* the builds there are keep the low bits, or multiply in the width of an address.
FourTimes(n) == IF Wraps THEN Signed(4 * n) ELSE 4 * n

\* Mutant: the visible width is taken for the length of a line.
PixelAtVisible(config, x, y) == FourTimes(Signed(config.horizontal_resolution * y + x))

\* The offset of the first of a pixel's four bytes (graphics.h:24-28).
PixelAt(config, x, y) == FourTimes(Signed(config.pixels_per_scan_line * y + x))

\* The offsets inside a frame buffer.
FrameBuffer(config) == 0 .. 4 * (config.pixels_per_scan_line * config.vertical_resolution) - 1

\* Mutant: both writers write red first.
WriteOrderRGB == [RGB |-> <<"r", "g", "b">>, BGR |-> <<"r", "g", "b">>]

\* The parts of a colour in the order in which each writer puts them into the
\* first three bytes; the fourth one is not written (graphics.cc:3-17).
WriteOrder == [RGB |-> <<"r", "g", "b">>, BGR |-> <<"b", "g", "r">>]

\* The offsets of the bytes of some pixels, and what Write, called for all of them
\* with one colour, leaves in them.
BytesOf(config, pixels) == {PixelAt(config, p[1], p[2]) + k : p \in pixels, k \in 0 .. 2}
Write(bytes, writer, config, pixels, color) ==
  LET written == BytesOf(config, pixels)
  IN  [a \in DOMAIN bytes \union written |->
         IF a \in written THEN color[WriteOrder[writer][(a % 4) + 1]] ELSE bytes[a]]

\* Mutant: the loop leaves out the last line.
DrawFillRectangleShort(x, y, w, h) ==
  {<<x + dx, y + dy>> : dx \in 0 .. w - 1, dy \in 0 .. h - 2}

\* The pixels the calls write (graphics.cc:32-39, 19-30).
DrawFillRectangle(x, y, w, h) == {<<x + dx, y + dy>> : dx \in 0 .. w - 1, dy \in 0 .. h - 1}
DrawStrokeRectangle(x, y, w, h) ==
  {<<x + dx, y + dy>> : dx \in 0 .. w - 1, dy \in {0, h - 1}} \union
  {<<x + dx, y + dy>> : dx \in {0, w - 1}, dy \in 0 .. h - 1}
=============================================================================
