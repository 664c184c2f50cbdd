------------------------------ MODULE Desktop ------------------------------
(***************************************************************************)
(* What KernelMain (kernel/main.cc) draws: it chooses the pixel writer,    *)
(* draws the desktop, a first line of text, the mouse cursor, and further  *)
(* lines.  The text is what the console puts on the screen before it       *)
(* scrolls, a line per step; the scan in between draws nothing.            *)
(***************************************************************************)
EXTENDS Graphics, Font

CONSTANTS
  Configs,                                          \* frame buffers
  BarHeight, ButtonPart, IconX, IconUp, IconSize,   \* 50, 5, 10, 40, 30
  CursorX, CursorY, CursorWidth, CursorHeight,      \* 200, 100, 15, 24
  CursorShape,                                      \* mouse_cursor_shape
  Rows, Columns,                                    \* Console::kRows, kColumns
  Table,                                            \* the font's rows
  Text                                              \* the lines printk writes

VARIABLES
  config,         \* frame_buffer_config
  pixel_writer,   \* the format of the writer in pixel_writer_buf, or "null"
  bytes,          \* what is in the frame buffer, and written outside of it
  main,           \* the next statement of KernelMain
  row             \* the next row of the console

vars == <<config, pixel_writer, bytes, main, row>>

Color(r, g, b) == [r |-> r, g |-> g, b |-> b]

\* The position after the last one of a rectangle whose lower right corner is right and
\* down from the screen's upper left one.  Past the end of a line the next one begins.
End(f, right, down) == f.pixels_per_scan_line * (down - 1) + right

\* Nothing in the code tests that what KernelMain draws is inside the frame buffer.  It
\* is when this holds: the screen is high enough for what is placed from its lower edge,
\* whatever is placed from the upper one ends before the buffer does, and no offset
\* overflows.
InBuffer(f) ==
  LET size == f.pixels_per_scan_line * f.vertical_resolution
  IN  /\ f.horizontal_resolution <= f.pixels_per_scan_line
      /\ BarHeight <= f.vertical_resolution /\ IconUp <= f.vertical_resolution
      /\ End(f, Columns * GlyphWidth, Rows * GlyphHeight) <= size
      /\ End(f, CursorX + CursorWidth, CursorY + CursorHeight) <= size
      /\ End(f, IconX + IconSize, f.vertical_resolution - IconUp + IconSize) <= size
      /\ 8 * size <= IntModulus

\* Everything is on the screen when, moreover, no line of it is too long.  640 by 480
\* pixels, the least UEFI machines offer, are enough.
Fits(f) ==
  /\ InBuffer(f)
  /\ Columns * GlyphWidth <= f.horizontal_resolution
  /\ Rows * GlyphHeight <= f.vertical_resolution
  /\ CursorX + CursorWidth <= f.horizontal_resolution
  /\ CursorY + CursorHeight <= f.vertical_resolution
  /\ IconX + IconSize <= f.horizontal_resolution

ASSUME DesktopConfigs == Configs \subseteq FrameBufferConfig
ASSUME DesktopSizes ==
  /\ {BarHeight, ButtonPart, IconX, IconUp, IconSize, CursorX, CursorY, CursorWidth,
      CursorHeight, Rows, Columns} \subseteq Nat \ {0}
  /\ IconSize <= IconUp
  /\ CursorShape \in [(0 .. CursorWidth - 1) \X (0 .. CursorHeight - 1) -> {"@", ".", " "}]
ASSUME DesktopText ==
  /\ Text \in Seq(Seq(Int)) /\ Len(Text) \in 1 .. Rows - 1
  /\ \A k \in DOMAIN Text : Len(Text[k]) < Columns

Init ==
  /\ config \in Configs
  /\ bytes \in [FrameBuffer(config) -> 0 .. 255]
  /\ pixel_writer = "null" /\ main = "ChooseWriter" /\ row = 0

\* Mutant: the case of one format is missing.
ChooseWriterRGB ==
  /\ main = "ChooseWriter" /\ main' = "Background"
  /\ pixel_writer' = IF config.pixel_format = "RGB" THEN "RGB" ELSE pixel_writer
  /\ UNCHANGED <<config, bytes, row>>

\* main.cc:78-89.  There is no default.
ChooseWriter ==
  /\ main = "ChooseWriter" /\ main' = "Background"
  /\ pixel_writer' = IF config.pixel_format \in DOMAIN WriteOrder
                       THEN config.pixel_format ELSE pixel_writer
  /\ UNCHANGED <<config, bytes, row>>

\* At at, pixels are drawn; next is next.  A call through a null pixel_writer has no
\* defined effect: the model ends there.
Draw(at, pixels, color, next) ==
  /\ main = at /\ main' = next
  /\ pixel_writer \in DOMAIN WriteOrder
  /\ bytes' = Write(bytes, pixel_writer, config, pixels, color)
  /\ UNCHANGED <<config, pixel_writer>>

\* main.cc:91-92
kFrameWidth  == Signed(config.horizontal_resolution)
kFrameHeight == Signed(config.vertical_resolution)

\* main.cc:98-105.  kFrameHeight - BarHeight may be negative; the loop is empty then.
Background ==
  /\ Draw("Background", DrawFillRectangle(0, 0, kFrameWidth, kFrameHeight - BarHeight),
          Color(45, 118, 237), "Bar")
  /\ UNCHANGED row
Bar ==
  /\ Draw("Bar", DrawFillRectangle(0, kFrameHeight - BarHeight, kFrameWidth, BarHeight),
          Color(1, 8, 17), "Button")
  /\ UNCHANGED row
Button ==
  /\ Draw("Button",
          DrawFillRectangle(0, kFrameHeight - BarHeight, kFrameWidth \div ButtonPart, BarHeight),
          Color(80, 80, 80), "Icon")
  /\ UNCHANGED row
Icon ==
  /\ Draw("Icon", DrawStrokeRectangle(IconX, kFrameHeight - IconUp, IconSize, IconSize),
          Color(160, 160, 160), "Welcome")
  /\ UNCHANGED row

\* The pixels of a line (console.cc:21-22).
LinePixels(r) ==
  UNION {WriteAscii(Table, GlyphWidth * (k - 1), GlyphHeight * r, Text[r + 1][k]) :
           k \in 1 .. Len(Text[r + 1])}

\* main.cc:116
Welcome ==
  /\ Draw("Welcome", LinePixels(0), Color(0, 0, 0), "Cursor")
  /\ row' = 1

CursorPixels(mark) ==
  {<<CursorX + d[1], CursorY + d[2]>> : d \in {d \in DOMAIN CursorShape : CursorShape[d] = mark}}

\* main.cc:122-130
Cursor ==
  /\ main = "Cursor" /\ main' = "Lines"
  /\ pixel_writer \in DOMAIN WriteOrder
  /\ bytes' = Write(Write(bytes, pixel_writer, config, CursorPixels("@"), Color(0, 0, 0)),
                    pixel_writer, config, CursorPixels("."), Color(255, 255, 255))
  /\ UNCHANGED <<config, pixel_writer, row>>

\* main.cc:138, 145
Line ==
  /\ row < Len(Text)
  /\ Draw("Lines", LinePixels(row), Color(0, 0, 0), "Lines")
  /\ row' = row + 1

Next == ChooseWriter \/ Background \/ Bar \/ Button \/ Icon \/ Welcome \/ Cursor \/ Line

Spec == Init /\ [][Next]_vars

-----------------------------------------------------------------------------
TypeOK ==
  /\ config \in Configs
  /\ pixel_writer \in {"null", "RGB", "BGR"}
  /\ pixel_writer = "null" /\ config.pixel_format \in DOMAIN WriteOrder => main = "ChooseWriter"
  /\ \A a \in DOMAIN bytes : bytes[a] \in 0 .. 255
  /\ main \in {"ChooseWriter", "Background", "Bar", "Button", "Icon", "Welcome", "Cursor", "Lines"}
  /\ row \in 0 .. Rows

\* A byte that a pixel of the screen shows: not in the padding at the end of a line, and
\* not the one the pixel format reserves.
Visible(a) ==
  /\ a % 4 # 3
  /\ (a \div 4) % config.pixels_per_scan_line < config.horizontal_resolution

\* What KernelMain draws is inside the frame buffer, also when lines are too long for the
\* screen; and when everything fits, only pixels that can be seen are drawn, and the rest
\* stays as the loader and the firmware have left it.
DrawsInside ==
  main # "ChooseWriter" =>
    /\ InBuffer(config) => DOMAIN bytes' = FrameBuffer(config)
    /\ Fits(config) => \A a \in FrameBuffer(config) : Visible(a) \/ bytes'[a] = bytes[a]
OnScreen == [][DrawsInside]_vars

\* How a screen of some format shows a pixel of a frame buffer with these bytes.
Order(pixel_format) == IF pixel_format = "RGB" THEN [r |-> 0, g |-> 1, b |-> 2]
                                               ELSE [r |-> 2, g |-> 1, b |-> 0]
Shows(pixel_format, buffer, p) ==
  LET at == 4 * (config.pixels_per_scan_line * p[2] + p[1])
  IN  [part \in {"r", "g", "b"} |-> buffer[at + Order(pixel_format)[part]]]

LayersDrawn ==
  CASE main = "ChooseWriter" -> 0 [] main = "Background" -> 0 [] main = "Bar" -> 1
    [] main = "Button" -> 2 [] main = "Icon" -> 3 [] main = "Welcome" -> 4
    [] main = "Cursor" -> 5 [] main = "Lines" -> 5 + row

Glyph(c) == WriteAscii(Table, 0, 0, c)

\* On a screen that everything fits on, the bytes in the frame buffer are those of the
\* desktop, layer by layer, over what was there before.
Screen == INSTANCE Picture WITH
  Shape <- Glyph,
  screen <- [width |-> config.horizontal_resolution, height |-> config.vertical_resolution],
  picture <- [p \in (0 .. config.horizontal_resolution - 1)
                      \X (0 .. config.vertical_resolution - 1)
                |-> Shows(config.pixel_format, bytes, p)],
  done <- LayersDrawn
ShowsDesktop ==
  (Fits(config) => Screen!Init) /\ [][Fits(config) => Screen!Next]_(Screen!vars)
=============================================================================
