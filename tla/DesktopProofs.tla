--------------------------- MODULE DesktopProofs ---------------------------
(***************************************************************************)
(* The desktop, for every screen, cursor, font and text: the bytes that    *)
(* KernelMain writes are bytes of the frame buffer when it is large enough *)
(* for them, and when everything fits on the screen they show the layers   *)
(* of Picture.                                                             *)
(*                                                                         *)
(* The heart of it is that PixelAt is injective and stays inside the frame *)
(* buffer, so that drawing some pixels changes what these show and nothing *)
(* else (Drawing); the rest says which pixels each drawing call takes.     *)
(* The last part puts the loader before KernelMain (Boot).                 *)
(***************************************************************************)
EXTENDS Boot, TLAPS

Wide   == config.horizontal_resolution
High   == config.vertical_resolution
Stride == config.pixels_per_scan_line

Box(right, down) == (0 .. right - 1) \X (0 .. down - 1)
Pixels == Box(Wide, High)

\* The writer is the one of the screen's format as soon as there is one.
Writer == pixel_writer = "null" \/ (pixel_writer = config.pixel_format
                                    /\ pixel_writer \in DOMAIN WriteOrder)

\* Where KernelMain is in its text.
Progress ==
  /\ main = "Cursor" => row = 1
  /\ main = "Lines" => row \in 1 .. Len(Text)

\* Nothing is known outside the frame buffer, if all is drawn inside.
Inside == InBuffer(config) => DOMAIN bytes = FrameBuffer(config)

IInv == TypeOK /\ Writer /\ Progress /\ Inside

-----------------------------------------------------------------------------
(***************************************************************************)
(* Arithmetic                                                              *)
(***************************************************************************)
LEMMA Quotients ==
  ASSUME NEW n \in Nat, NEW m \in Nat \ {0}
  PROVE  /\ n = m * (n \div m) + (n % m)
         /\ n \div m \in Nat /\ n % m \in 0 .. m - 1
         /\ n \div m <= n
OBVIOUS

LEMMA QuotientOf ==
  ASSUME NEW m \in Nat \ {0}, NEW q \in Nat, NEW r \in 0 .. m - 1
  PROVE  (m * q + r) \div m = q /\ (m * q + r) % m = r
<1>1. (m * q + r) % m = r
  OBVIOUS
<1>2. (m * q + r) \div m = q
  OBVIOUS
<1> QED BY <1>1, <1>2

LEMMA Bytes4 ==
  ASSUME NEW q \in Int, NEW k \in 0 .. 3
  PROVE  (4 * q + k) \div 4 = q /\ (4 * q + k) % 4 = k
<1>1. (4 * q + k) % 4 = k
  OBVIOUS
<1>2. (4 * q + k) \div 4 = q
  OBVIOUS
<1> QED BY <1>1, <1>2

LEMMA Within ==
  ASSUME NEW n \in Nat, NEW m \in Nat, n < m
  PROVE  n % m = n
OBVIOUS

\* The last pixel of a box has the largest position.
LEMMA BoxEnd ==
  ASSUME NEW s \in Nat, NEW right \in Int, NEW down \in Int, NEW size \in Int,
         s * (down - 1) + right <= size,
         NEW x \in 0 .. right - 1, NEW y \in 0 .. down - 1
  PROVE  s * y + x \in 0 .. size - 1
<1>1. s * y <= s * (down - 1)
  OBVIOUS
<1>2. s * y \in Nat /\ s * (down - 1) \in Int
  OBVIOUS
<1> DEFINE l == s * (down - 1)
           n == s * y
<1>3. n \in Nat /\ l \in Int /\ n <= l /\ l + right <= size
  BY <1>1, <1>2
<1> HIDE DEF l, n
<1>4. n + x \in 0 .. size - 1
  BY <1>3
<1> QED BY <1>4 DEF n

-----------------------------------------------------------------------------
(***************************************************************************)
(* Ints                                                                    *)
(***************************************************************************)
LEMMA SignedInt ==
  ASSUME NEW n \in Int
  PROVE  Signed(n) \in Int
<1>1. n % IntModulus \in Int /\ IntModulus \in Int
  BY GraphicsModulus
<1> QED BY <1>1 DEF Signed

\* A number that is not negative and small enough stays what it is.
LEMMA SignedSmall ==
  ASSUME NEW n \in Nat, 2 * n < IntModulus
  PROVE  Signed(n) = n
<1>1. n < IntModulus /\ IntModulus \in Nat
  BY GraphicsModulus
<1>2. n % IntModulus = n
  BY <1>1, Within
<1> QED BY <1>2 DEF Signed

\* Whether it wraps or not, four times an int is a multiple of four.
LEMMA Multiple ==
  ASSUME NEW n \in Int
  PROVE  \E q \in Int : FourTimes(n) = 4 * q
<1>1. PICK d \in Int : IntModulus = 4 * d
  <2>1. IntModulus = 4 * (IntModulus \div 4) /\ IntModulus \div 4 \in Int
    BY GraphicsModulus
  <2> QED BY <2>1
<1>2. IntModulus \in Nat \ {0}
  BY GraphicsModulus
<1> DEFINE m == (4 * n) % IntModulus
           e == (4 * n) \div IntModulus
<1>3. 4 * n = IntModulus * e + m /\ m \in Int /\ e \in Int
  BY <1>2
<1> HIDE DEF m, e
<1> DEFINE t == d * e
<1>4. IntModulus * e = 4 * t /\ t \in Int
  BY <1>1, <1>3
<1> HIDE DEF t
<1>5. m = 4 * (n - t) /\ m - IntModulus = 4 * (n - t - d)
  BY <1>1, <1>3, <1>4
<1>6. FourTimes(n) \in {4 * n, m, m - IntModulus}
  BY DEF FourTimes, Signed, m
<1>7. n \in Int /\ n - t \in Int /\ n - t - d \in Int
  BY <1>1, <1>4
<1> QED BY <1>5, <1>6, <1>7

-----------------------------------------------------------------------------
(***************************************************************************)
(* Pixels in the frame buffer                                              *)
(***************************************************************************)

\* A frame buffer that is large enough.
LEMMA BufferSizes ==
  ASSUME config \in Configs, InBuffer(config)
  PROVE  /\ Wide \in Nat /\ High \in Nat /\ Stride \in Nat \ {0} /\ Wide <= Stride
         /\ BarHeight <= High /\ IconUp <= High
         /\ Stride * High \in Nat /\ 8 * (Stride * High) <= IntModulus
         /\ Stride * (Rows * GlyphHeight - 1) + Columns * GlyphWidth <= Stride * High
         /\ Stride * ((CursorY + CursorHeight) - 1) + (CursorX + CursorWidth) <= Stride * High
         /\ Stride * ((High - IconUp + IconSize) - 1) + (IconX + IconSize) <= Stride * High
<1>1. Wide \in Nat /\ High \in Nat /\ Stride \in Nat \ {0}
  BY DesktopConfigs DEF FrameBufferConfig, Wide, High, Stride
<1>2. Stride * High \in Nat
  BY <1>1
<1>3. /\ Wide <= Stride /\ BarHeight <= High /\ IconUp <= High
      /\ 8 * (Stride * High) <= IntModulus
      /\ End(config, Columns * GlyphWidth, Rows * GlyphHeight) <= Stride * High
      /\ End(config, CursorX + CursorWidth, CursorY + CursorHeight) <= Stride * High
      /\ End(config, IconX + IconSize, High - IconUp + IconSize) <= Stride * High
  BY Zenon DEF InBuffer, Wide, High, Stride
<1>4. \A right, down : End(config, right, down) = Stride * (down - 1) + right
  BY Zenon DEF End, Stride
<1>5. Stride * (Rows * GlyphHeight - 1) + Columns * GlyphWidth <= Stride * High
  BY Zenon, <1>3, <1>4
<1>6. Stride * ((CursorY + CursorHeight) - 1) + (CursorX + CursorWidth) <= Stride * High
  BY Zenon, <1>3, <1>4
<1>7. Stride * ((High - IconUp + IconSize) - 1) + (IconX + IconSize) <= Stride * High
  BY Zenon, <1>3, <1>4
<1> QED BY ONLY <1>1, <1>2, <1>3, <1>5, <1>6, <1>7, Zenon

\* A screen that everything fits on.
LEMMA Sizes ==
  ASSUME config \in Configs, Fits(config)
  PROVE  /\ InBuffer(config)
         /\ Columns * GlyphWidth <= Wide /\ Rows * GlyphHeight <= High
         /\ CursorX + CursorWidth <= Wide /\ CursorY + CursorHeight <= High
         /\ IconX + IconSize <= Wide
BY DEF Fits, Wide, High

\* The offset of a position inside the buffer does not overflow.
LEMMA PositionAt ==
  ASSUME config \in Configs, InBuffer(config), NEW x, NEW y,
         Stride * y + x \in 0 .. Stride * High - 1
  PROVE  PixelAt(config, x, y) = 4 * (Stride * y + x)
<1> DEFINE n == Stride * y + x
           size == Stride * High
<1>0. size \in Nat /\ 8 * size <= IntModulus /\ IntModulus \in Nat
  BY BufferSizes, GraphicsModulus
<1>1. PixelAt(config, x, y) = FourTimes(Signed(n)) /\ n \in 0 .. size - 1
  BY DEF PixelAt, Stride
<1> HIDE DEF n, size
<1>2. n \in Nat /\ 4 * n \in Nat /\ 2 * n < IntModulus /\ 2 * (4 * n) < IntModulus
  BY <1>0, <1>1
<1>3. Signed(n) = n /\ Signed(4 * n) = 4 * n
  BY <1>2, SignedSmall
<1> QED BY <1>1, <1>3 DEF FourTimes, n

LEMMA Position ==
  ASSUME config \in Configs, InBuffer(config), NEW x \in 0 .. Wide - 1, NEW y \in 0 .. High - 1
  PROVE  /\ PixelAt(config, x, y) = 4 * (Stride * y + x)
         /\ Stride * y + x \in 0 .. Stride * High - 1
         /\ x \in 0 .. Stride - 1
<1>0. Wide \in Nat /\ High \in Nat /\ Stride \in Nat /\ Wide <= Stride /\ Stride * High \in Nat
  BY BufferSizes
<1>1. x \in 0 .. Stride - 1
  BY <1>0
<1>2. Stride * (High - 1) + Stride <= Stride * High
  BY <1>0
<1>3. Stride * y + x \in 0 .. Stride * High - 1
  BY <1>0, <1>1, <1>2, BoxEnd
<1> QED BY <1>1, <1>3, PositionAt

\* Two pixels of the screen share no byte.
LEMMA Distinct ==
  ASSUME config \in Configs, InBuffer(config),
         NEW x \in 0 .. Wide - 1, NEW y \in 0 .. High - 1, NEW k \in 0 .. 2,
         NEW u \in 0 .. Wide - 1, NEW v \in 0 .. High - 1, NEW l \in 0 .. 2,
         PixelAt(config, x, y) + k = PixelAt(config, u, v) + l
  PROVE  x = u /\ y = v /\ k = l
<1>1. Wide \in Nat /\ High \in Nat /\ Stride \in Nat \ {0}
  BY BufferSizes
<1>2. PixelAt(config, x, y) = 4 * (Stride * y + x) /\ x \in 0 .. Stride - 1
  BY Position
<1>3. PixelAt(config, u, v) = 4 * (Stride * v + u) /\ u \in 0 .. Stride - 1
  BY Position
<1> DEFINE n == Stride * y + x
           m == Stride * v + u
<1>4. n \in Nat /\ m \in Nat
  BY <1>1, <1>2, <1>3
<1>5. 4 * n + k = 4 * m + l
  BY <1>2, <1>3
<1>6. n = m /\ k = l
  <2> HIDE DEF n, m
  <2> QED BY <1>4, <1>5
<1>7. y \in Nat /\ v \in Nat
  BY <1>1
<1>8. n \div Stride = y /\ n % Stride = x
  BY <1>1, <1>2, <1>7, QuotientOf
<1>9. m \div Stride = v /\ m % Stride = u
  BY <1>1, <1>3, <1>7, QuotientOf
<1> HIDE DEF n, m
<1> QED BY <1>6, <1>8, <1>9

\* The three bytes that are written of a pixel are visible ones, in the buffer.
LEMMA ByteVisible ==
  ASSUME config \in Configs, InBuffer(config),
         NEW x \in 0 .. Wide - 1, NEW y \in 0 .. High - 1, NEW k \in 0 .. 2
  PROVE  /\ Visible(PixelAt(config, x, y) + k)
         /\ PixelAt(config, x, y) + k \in FrameBuffer(config)
<1>1. Wide \in Nat /\ High \in Nat /\ Stride \in Nat \ {0}
  BY BufferSizes
<1> DEFINE n == Stride * y + x
           m == Stride * High
<1>2. PixelAt(config, x, y) = 4 * n /\ n \in 0 .. m - 1 /\ x \in 0 .. Stride - 1
  BY Position
<1>3. n % Stride = x
  <2>1. y \in Nat
    BY <1>1
  <2> QED BY <1>1, <1>2, <2>1, QuotientOf
<1>4. m \in Nat
  BY <1>1
<1> HIDE DEF n, m
<1>5. (4 * n + k) \div 4 = n /\ (4 * n + k) % 4 = k
  BY <1>2, <1>4, Bytes4
<1>6. 4 * n + k \in 0 .. 4 * m - 1
  BY <1>2, <1>4
<1>7. n % Stride < Wide
  BY <1>1, <1>3
<1> DEFINE a == 4 * n + k
<1>8. a \in 0 .. 4 * m - 1 /\ a % 4 # 3
  BY <1>5, <1>6
<1>9. (a \div 4) % Stride < Wide
  BY <1>5, <1>7
<1> HIDE DEF a
<1>10. Visible(a) /\ a \in FrameBuffer(config)
  BY <1>8, <1>9 DEF Visible, FrameBuffer, m, Stride, High, Wide
<1> QED BY <1>2, <1>10 DEF a

-----------------------------------------------------------------------------
(***************************************************************************)
(* Drawing                                                                 *)
(***************************************************************************)

\* Placed(P): pixels that keep inside the buffer or the screen when these are large enough.
Placed(P) ==
  /\ P \subseteq Int \X Int
  /\ InBuffer(config) => \A p \in P : Stride * p[2] + p[1] \in 0 .. Stride * High - 1
  /\ Fits(config) => P \subseteq Pixels

\* What is written has an offset that is no multiple of four plus three.
LEMMA WrittenOffset ==
  ASSUME NEW P \in SUBSET (Int \X Int), config \in Configs, NEW a \in BytesOf(config, P)
  PROVE  a \in Int /\ a % 4 \in 0 .. 2
<1>1. PICK p \in P, k \in 0 .. 2 : a = PixelAt(config, p[1], p[2]) + k
  BY DEF BytesOf
<1>2. p[1] \in Int /\ p[2] \in Int /\ Stride \in Nat
  BY DesktopConfigs DEF FrameBufferConfig, Stride
<1> DEFINE n == Stride * p[2] + p[1]
<1>3. n \in Int
  BY <1>2
<1>4. PixelAt(config, p[1], p[2]) = FourTimes(Signed(n))
  BY DEF PixelAt, Stride
<1> HIDE DEF n
<1>5. PICK q \in Int : FourTimes(Signed(n)) = 4 * q
  BY <1>3, SignedInt, Multiple
<1>6. a = 4 * q + k
  BY <1>1, <1>4, <1>5
<1> QED BY <1>6, Bytes4

\* In a buffer that is large enough, only bytes of the buffer are written.
LEMMA WrittenInside ==
  ASSUME config \in Configs, InBuffer(config), NEW P, Placed(P), NEW a \in BytesOf(config, P)
  PROVE  a \in FrameBuffer(config)
<1>1. PICK p \in P, k \in 0 .. 2 : a = PixelAt(config, p[1], p[2]) + k
  BY DEF BytesOf
<1> DEFINE n == Stride * p[2] + p[1]
           m == Stride * High
<1>2. n \in 0 .. m - 1
  BY DEF Placed
<1>3. PixelAt(config, p[1], p[2]) = 4 * n
  BY <1>2, PositionAt
<1>4. m \in Nat
  BY BufferSizes
<1> HIDE DEF n, m
<1>5. a \in 0 .. 4 * m - 1
  BY <1>1, <1>2, <1>3, <1>4
<1> QED BY <1>5 DEF FrameBuffer, m, Stride, High

\* Only visible bytes are written of pixels of the screen.
LEMMA WrittenVisible ==
  ASSUME config \in Configs, InBuffer(config), NEW P \in SUBSET Pixels, NEW a \in BytesOf(config, P)
  PROVE  Visible(a)
<1>1. PICK p \in P, k \in 0 .. 2 : a = PixelAt(config, p[1], p[2]) + k
  BY DEF BytesOf
<1>2. p[1] \in 0 .. Wide - 1 /\ p[2] \in 0 .. High - 1
  BY DEF Pixels, Box
<1> QED BY <1>1, <1>2, ByteVisible

\* A byte of a pixel is written just when the pixel is drawn.
LEMMA ByteOf ==
  ASSUME config \in Configs, InBuffer(config), NEW P \in SUBSET Pixels,
         NEW x \in 0 .. Wide - 1, NEW y \in 0 .. High - 1, NEW k \in 0 .. 2
  PROVE  PixelAt(config, x, y) + k \in BytesOf(config, P) <=> <<x, y>> \in P
<1>1. ASSUME <<x, y>> \in P PROVE PixelAt(config, x, y) + k \in BytesOf(config, P)
  BY <1>1 DEF BytesOf
<1>2. ASSUME PixelAt(config, x, y) + k \in BytesOf(config, P) PROVE <<x, y>> \in P
  <2>1. PICK p \in P, l \in 0 .. 2 :
          PixelAt(config, x, y) + k = PixelAt(config, p[1], p[2]) + l
    BY <1>2 DEF BytesOf
  <2>2. p[1] \in 0 .. Wide - 1 /\ p[2] \in 0 .. High - 1 /\ p = <<p[1], p[2]>>
    BY DEF Pixels, Box
  <2>3. x = p[1] /\ y = p[2]
    BY <2>1, <2>2, Distinct
  <2> QED BY <2>2, <2>3
<1> QED BY <1>1, <1>2

Kinds == {"RGB", "BGR"}

LEMMA WriteParts ==
  ASSUME NEW kind \in Kinds, NEW k \in 0 .. 2
  PROVE  WriteOrder[kind][k + 1] \in {"r", "g", "b"}
<1>1. k + 1 \in {1, 2, 3}
  OBVIOUS
<1>2. CASE kind = "RGB"
  BY <1>1, <1>2 DEF WriteOrder
<1>3. CASE kind = "BGR"
  BY <1>1, <1>3 DEF WriteOrder
<1> QED BY <1>2, <1>3 DEF Kinds

\* What a call of Write leaves in a byte it writes: the part of the colour that a
\* screen of the writer's format shows there.
LEMMA ByteValue ==
  ASSUME config \in Configs, InBuffer(config), NEW kind \in Kinds,
         NEW x \in 0 .. Wide - 1, NEW y \in 0 .. High - 1, NEW part \in {"r", "g", "b"}
  PROVE  LET a == PixelAt(config, x, y) + Order(kind)[part]
         IN  Order(kind)[part] \in 0 .. 2 /\ WriteOrder[kind][(a % 4) + 1] = part
<1> DEFINE n == Stride * y + x
           k == Order(kind)[part]
<1>1. PixelAt(config, x, y) = 4 * n /\ n \in Int
  BY Position
<1>2. k \in 0 .. 2
  BY DEF Order, Kinds
<1>3. WriteOrder[kind][k + 1] = part
  <2>1. CASE kind = "RGB"
    BY <2>1 DEF Order, WriteOrder
  <2>2. CASE kind = "BGR"
    BY <2>2 DEF Order, WriteOrder
  <2> QED BY <2>1, <2>2 DEF Kinds
<1> HIDE DEF n, k
<1>4. (4 * n + k) % 4 = k
  BY <1>1, <1>2, Bytes4
<1> QED BY <1>1, <1>2, <1>3, <1>4 DEF k

\* A drawing changes what the pixels that are drawn show, and of no other pixel.
LEMMA Drawing ==
  ASSUME config \in Configs, InBuffer(config), NEW kind \in Kinds, NEW P \in SUBSET Pixels,
         NEW before, FrameBuffer(config) \subseteq DOMAIN before,
         NEW color \in [{"r", "g", "b"} -> Int], NEW p \in Pixels
  PROVE  Shows(kind, Write(before, kind, config, P, color), p) =
           IF p \in P THEN color ELSE Shows(kind, before, p)
<1> DEFINE at == PixelAt(config, p[1], p[2])
           after == Write(before, kind, config, P, color)
           written == BytesOf(config, P)
<1>1. p[1] \in 0 .. Wide - 1 /\ p[2] \in 0 .. High - 1 /\ p = <<p[1], p[2]>>
  BY DEF Pixels, Box
<1>2. at = 4 * (Stride * p[2] + p[1])
  BY <1>1, Position
<1>3. after = [a \in DOMAIN before \union written |->
                 IF a \in written THEN color[WriteOrder[kind][(a % 4) + 1]] ELSE before[a]]
  BY DEF Write
<1>4. ASSUME NEW k \in 0 .. 2 PROVE (at + k \in written <=> p \in P) /\ at + k \in DOMAIN before
  <2>1. at + k \in written <=> p \in P
    BY <1>1, ByteOf
  <2>2. at + k \in FrameBuffer(config)
    BY <1>1, ByteVisible
  <2> QED BY <2>1, <2>2
<1>5. ASSUME NEW b
      PROVE  Shows(kind, b, p) = [part \in {"r", "g", "b"} |-> b[at + Order(kind)[part]]]
  BY <1>2 DEF Shows, Stride
<1>6. ASSUME NEW part \in {"r", "g", "b"}
      PROVE  Order(kind)[part] \in 0 .. 2 /\ WriteOrder[kind][((at + Order(kind)[part]) % 4) + 1] = part
  BY <1>1, ByteValue
<1> HIDE DEF at, after, written
<1>7. ASSUME NEW part \in {"r", "g", "b"}
      PROVE  after[at + Order(kind)[part]] =
               IF p \in P THEN color[part] ELSE before[at + Order(kind)[part]]
  <2> DEFINE a == at + Order(kind)[part]
  <2>1. (a \in written <=> p \in P) /\ a \in DOMAIN before
    BY <1>4, <1>6
  <2>2. WriteOrder[kind][(a % 4) + 1] = part
    BY <1>6
  <2> HIDE DEF a
  <2>3. after[a] = IF p \in P THEN color[part] ELSE before[a]
    BY <1>3, <2>1, <2>2
  <2> QED BY <2>3 DEF a
<1>8. CASE p \in P
  <2>1. Shows(kind, after, p) = [part \in {"r", "g", "b"} |-> color[part]]
    BY <1>5, <1>7, <1>8
  <2>2. color = [part \in {"r", "g", "b"} |-> color[part]]
    OBVIOUS
  <2> QED BY <1>8, <2>1, <2>2 DEF after
<1>9. CASE p \notin P
  <2>1. Shows(kind, after, p) = Shows(kind, before, p)
    BY <1>5, <1>7, <1>9
  <2> QED BY <1>9, <2>1 DEF after
<1> QED BY <1>8, <1>9

-----------------------------------------------------------------------------
(***************************************************************************)
(* The pixels of the drawing calls                                         *)
(***************************************************************************)
LEMMA Rectangle ==
  ASSUME NEW x \in Int, NEW y \in Int, NEW w \in Int, NEW h \in Int, NEW p \in Int \X Int
  PROVE  p \in DrawFillRectangle(x, y, w, h) <=> p[1] \in x .. x + w - 1 /\ p[2] \in y .. y + h - 1
<1>1. ASSUME p[1] \in x .. x + w - 1, p[2] \in y .. y + h - 1
      PROVE  p \in DrawFillRectangle(x, y, w, h)
  <2> DEFINE dx == p[1] - x
             dy == p[2] - y
  <2>1. dx \in 0 .. w - 1 /\ dy \in 0 .. h - 1
    BY <1>1
  <2>2. p = <<x + dx, y + dy>>
    OBVIOUS
  <2> HIDE DEF dx, dy
  <2> QED BY <2>1, <2>2 DEF DrawFillRectangle
<1>2. ASSUME p \in DrawFillRectangle(x, y, w, h)
      PROVE  p[1] \in x .. x + w - 1 /\ p[2] \in y .. y + h - 1
  BY <1>2 DEF DrawFillRectangle
<1> QED BY <1>1, <1>2

LEMMA Stroke ==
  ASSUME NEW x \in Int, NEW y \in Int, NEW w \in Nat \ {0}, NEW p \in Int \X Int
  PROVE  p \in DrawStrokeRectangle(x, y, w, w) <=>
           /\ p[1] - x \in 0 .. w - 1 /\ p[2] - y \in 0 .. w - 1
           /\ p[1] - x \in {0, w - 1} \/ p[2] - y \in {0, w - 1}
<1> DEFINE dx == p[1] - x
           dy == p[2] - y
<1>1. p = <<x + dx, y + dy>> /\ dx \in Int /\ dy \in Int
  OBVIOUS
<1>2. ASSUME dx \in 0 .. w - 1, dy \in {0, w - 1} PROVE p \in DrawStrokeRectangle(x, y, w, w)
  <2> HIDE DEF dx, dy
  <2> QED BY <1>1, <1>2 DEF DrawStrokeRectangle
<1>3. ASSUME dx \in {0, w - 1}, dy \in 0 .. w - 1 PROVE p \in DrawStrokeRectangle(x, y, w, w)
  <2> HIDE DEF dx, dy
  <2> QED BY <1>1, <1>3 DEF DrawStrokeRectangle
<1>4. ASSUME p \in DrawStrokeRectangle(x, y, w, w)
      PROVE  \/ dx \in 0 .. w - 1 /\ dy \in {0, w - 1}
             \/ dx \in {0, w - 1} /\ dy \in 0 .. w - 1
  BY <1>4 DEF DrawStrokeRectangle
<1>5. {0, w - 1} \subseteq 0 .. w - 1
  OBVIOUS
<1> HIDE DEF dx, dy
<1>6. p \in DrawStrokeRectangle(x, y, w, w) <=>
        /\ dx \in 0 .. w - 1 /\ dy \in 0 .. w - 1
        /\ dx \in {0, w - 1} \/ dy \in {0, w - 1}
  BY <1>2, <1>3, <1>4, <1>5
<1> QED BY <1>6 DEF dx, dy

LEMMA StrokePairs ==
  ASSUME NEW x \in Int, NEW y \in Int, NEW w \in Nat \ {0},
         NEW p \in DrawStrokeRectangle(x, y, w, w)
  PROVE  p \in Int \X Int
BY DEF DrawStrokeRectangle

\* The dots of a glyph are drawn where WriteAscii is told to, and inside its cell.
LEMMA Dotted ==
  ASSUME NEW x \in Int, NEW y \in Int, NEW ch, NEW p
  PROVE  /\ p \in WriteAscii(Table, x, y, ch) <=>
              /\ p \in Int \X Int
              /\ <<p[1] - x, p[2] - y>> \in Glyph(ch)
         /\ <<p[1] - x, p[2] - y>> \in Glyph(ch) =>
              p[1] - x \in 0 .. GlyphWidth - 1 /\ p[2] - y \in 0 .. GlyphHeight - 1
<1> DEFINE D == {d \in (0 .. GlyphWidth - 1) \X (0 .. GlyphHeight - 1) :
                   HasFont(Table, ch) /\ BitShown(FontRow(Table, ch, d[2]), d[1])}
<1>0. D \subseteq (0 .. GlyphWidth - 1) \X (0 .. GlyphHeight - 1)
  OBVIOUS
<1>1. \A u, v : WriteAscii(Table, u, v, ch) = {<<u + d[1], v + d[2]>> : d \in D}
  BY DEF WriteAscii
<1> HIDE DEF D
<1>2. Glyph(ch) = D
  <2>1. Glyph(ch) = {<<0 + d[1], 0 + d[2]>> : d \in D}
    BY <1>1 DEF Glyph
  <2>2. \A d \in D : <<0 + d[1], 0 + d[2]>> = d
    BY <1>0
  <2> QED BY <2>1, <2>2
<1>3. ASSUME p \in WriteAscii(Table, x, y, ch)
      PROVE  p \in Int \X Int /\ <<p[1] - x, p[2] - y>> \in D
  <2>1. PICK d \in D : p = <<x + d[1], y + d[2]>>
    BY <1>1, <1>3
  <2>2. d[1] \in Int /\ d[2] \in Int /\ d = <<d[1], d[2]>>
    BY <1>0
  <2>3. p[1] - x = d[1] /\ p[2] - y = d[2]
    BY <2>1, <2>2
  <2> QED BY <2>1, <2>2, <2>3
<1>4. ASSUME p \in Int \X Int, <<p[1] - x, p[2] - y>> \in D
      PROVE  p \in WriteAscii(Table, x, y, ch)
  <2> DEFINE d == <<p[1] - x, p[2] - y>>
  <2>1. d \in D /\ p = <<x + d[1], y + d[2]>>
    BY <1>4
  <2> QED BY <1>1, <2>1
<1> QED BY <1>0, <1>2, <1>3, <1>4

\* The rows of the text.
LEMMA TextRows ==
  ASSUME NEW r \in 0 .. Len(Text) - 1
  PROVE  /\ Len(Text[r + 1]) \in Nat /\ Len(Text[r + 1]) < Columns
         /\ r \in 0 .. Rows - 1 /\ Rows \in Nat /\ Columns \in Nat /\ Len(Text) \in 1 .. Rows - 1
<1>1. Text \in Seq(Seq(Int)) /\ Len(Text) \in 1 .. Rows - 1 /\ Rows \in Nat /\ Columns \in Nat
  BY DesktopText, DesktopSizes
<1>2. r + 1 \in DOMAIN Text
  BY <1>1
<1>3. Text[r + 1] \in Seq(Int)
  BY <1>1, <1>2
<1> QED BY <1>1, <1>2, <1>3, DesktopText

LEMMA InLine ==
  ASSUME NEW m \in Nat, NEW n \in Nat, NEW y \in 0 .. n - 1, NEW x \in 0 .. m - 1
  PROVE  m * y + x \in 0 .. m * n - 1 /\ m * n \in Nat
<1>1. m * y + m <= m * n
  OBVIOUS
<1>2. m * y \in Nat /\ m * n \in Nat
  OBVIOUS
<1> QED BY <1>1, <1>2

LEMMA ConfigSizes ==
  ASSUME config \in Configs
  PROVE  Wide \in Nat /\ High \in Nat /\ Stride \in Nat \ {0}
BY DesktopConfigs DEF FrameBufferConfig, Wide, High, Stride

\* The line the console writes on a row is inside the console's cells, and consists of
\* the dots Picture gives to that row.
LEMMA LineDrawn ==
  ASSUME config \in Configs, NEW r \in 0 .. Len(Text) - 1
  PROVE  /\ LinePixels(r) \subseteq Box(Columns * GlyphWidth, Rows * GlyphHeight)
         /\ \A p \in Pixels : p \in LinePixels(r) <=> Screen!OnLine(r, p)
<1> DEFINE line == Text[r + 1]
           gw == GlyphWidth
           gh == GlyphHeight
<1>0. /\ gw \in Nat \ {0} /\ gh \in Nat \ {0}
      /\ Wide \in Nat /\ High \in Nat
      /\ Len(line) \in Nat /\ Len(line) < Columns /\ r \in 0 .. Rows - 1
      /\ Rows \in Nat /\ Columns \in Nat /\ r \in Nat
  BY FontSizes, ConfigSizes, TextRows
<1>1. LinePixels(r) = UNION {WriteAscii(Table, gw * (k - 1), gh * r, line[k]) : k \in 1 .. Len(line)}
  BY DEF LinePixels
<1>2. gh * r \in Int /\ \A k \in 1 .. Len(line) : gw * (k - 1) \in Int
  BY <1>0
<1> HIDE DEF line, gw, gh
<1>3. ASSUME NEW p \in LinePixels(r)
      PROVE  \E k \in 1 .. Len(line) :
               /\ p \in Int \X Int
               /\ <<p[1] - gw * (k - 1), p[2] - gh * r>> \in Glyph(line[k])
               /\ p[1] - gw * (k - 1) \in 0 .. gw - 1 /\ p[2] - gh * r \in 0 .. gh - 1
  <2>1. PICK k \in 1 .. Len(line) : p \in WriteAscii(Table, gw * (k - 1), gh * r, line[k])
    BY <1>1, <1>3
  <2>2. p \in Int \X Int /\ <<p[1] - gw * (k - 1), p[2] - gh * r>> \in Glyph(line[k])
    BY <1>2, <2>1, Dotted
  <2>3. p[1] - gw * (k - 1) \in 0 .. gw - 1 /\ p[2] - gh * r \in 0 .. gh - 1
    BY <1>2, <2>2, Dotted DEF gw, gh
  <2> QED BY <2>2, <2>3
<1>4. ASSUME NEW k \in 1 .. Len(line), NEW dx \in 0 .. gw - 1, NEW dy \in 0 .. gh - 1
      PROVE  /\ gw * (k - 1) + dx \in 0 .. Columns * gw - 1 /\ gh * r + dy \in 0 .. Rows * gh - 1
             /\ (gw * (k - 1) + dx) \div gw = k - 1 /\ (gw * (k - 1) + dx) % gw = dx
             /\ (gh * r + dy) \div gh = r /\ (gh * r + dy) % gh = dy
  <2>1. k - 1 \in 0 .. Columns - 1 /\ k - 1 \in Nat
    BY <1>0
  <2>2. gw * (k - 1) + dx \in 0 .. gw * Columns - 1 /\ gh * r + dy \in 0 .. gh * Rows - 1
    BY <1>0, <2>1, InLine
  <2>3. gw * Columns = Columns * gw /\ gh * Rows = Rows * gh
        /\ gw * Columns \in Nat /\ gh * Rows \in Nat
    BY <1>0
  <2>4. (gw * (k - 1) + dx) \div gw = k - 1 /\ (gw * (k - 1) + dx) % gw = dx
    BY <1>0, <2>1, QuotientOf
  <2>5. (gh * r + dy) \div gh = r /\ (gh * r + dy) % gh = dy
    BY <1>0, QuotientOf
  <2>6. gw * (k - 1) + dx \in 0 .. Columns * gw - 1 /\ gh * r + dy \in 0 .. Rows * gh - 1
    BY <1>0, <2>2, <2>3
  <2> QED BY <2>4, <2>5, <2>6
<1>5. ASSUME NEW p \in LinePixels(r) PROVE p \in Box(Columns * gw, Rows * gh) /\ Screen!OnLine(r, p)
  <2>1. PICK k \in 1 .. Len(line) :
          /\ p \in Int \X Int
          /\ <<p[1] - gw * (k - 1), p[2] - gh * r>> \in Glyph(line[k])
          /\ p[1] - gw * (k - 1) \in 0 .. gw - 1 /\ p[2] - gh * r \in 0 .. gh - 1
    BY <1>3
  <2> DEFINE dx == p[1] - gw * (k - 1)
             dy == p[2] - gh * r
  <2>2. /\ gw * (k - 1) + dx \in 0 .. Columns * gw - 1 /\ gh * r + dy \in 0 .. Rows * gh - 1
        /\ (gw * (k - 1) + dx) \div gw = k - 1 /\ (gw * (k - 1) + dx) % gw = dx
        /\ (gh * r + dy) \div gh = r /\ (gh * r + dy) % gh = dy
    <3>1. dx \in 0 .. gw - 1 /\ dy \in 0 .. gh - 1
      BY <2>1
    <3> HIDE DEF dx, dy
    <3> QED BY <1>4, <3>1
  <2>3. p[1] = gw * (k - 1) + dx /\ p[2] = gh * r + dy /\ p = <<p[1], p[2]>>
    BY <1>2, <2>1
  <2>4. <<dx, dy>> \in Glyph(line[k])
    BY <2>1
  <2> HIDE DEF dx, dy
  <2>5. p \in Box(Columns * gw, Rows * gh)
    BY <2>2, <2>3 DEF Box
  <2>6. /\ p[1] \div gw = k - 1 /\ p[1] % gw = dx
        /\ p[2] \div gh = r /\ p[2] % gh = dy
    BY <2>2, <2>3
  <2>7. p[1] \div gw < Len(line) /\ (p[1] \div gw) + 1 = k
    BY <1>0, <2>6
  <2> QED BY <2>4, <2>5, <2>6, <2>7 DEF Screen!OnLine, gw, gh, line
<1>6. ASSUME NEW p \in Pixels, Screen!OnLine(r, p) PROVE p \in LinePixels(r)
  <2> DEFINE j == p[1] \div gw
  <2>1. /\ p[2] \div gh = r /\ j < Len(line)
        /\ <<p[1] % gw, p[2] % gh>> \in Glyph(line[j + 1])
    BY <1>6 DEF Screen!OnLine, gw, gh, line
  <2>2. p[1] \in Nat /\ p[2] \in Nat /\ p \in Int \X Int
    BY <1>0 DEF Pixels, Box
  <2> DEFINE u == p[1]
             v == p[2]
  <2>3. p[1] = gw * j + (p[1] % gw) /\ j \in Nat /\ p[1] % gw \in Int
    <3> HIDE DEF u
    <3>1. u = gw * (u \div gw) + (u % gw) /\ u \div gw \in Nat /\ u % gw \in 0 .. gw - 1
      BY <1>0, <2>2, Quotients DEF u
    <3> QED BY <1>0, <3>1 DEF u
  <2>4. p[2] = gh * r + (p[2] % gh) /\ p[2] % gh \in Int
    <3> HIDE DEF v
    <3>1. v = gh * (v \div gh) + (v % gh) /\ v % gh \in 0 .. gh - 1
      BY <1>0, <2>2, Quotients DEF v
    <3> QED BY <1>0, <2>1, <3>1 DEF v
  <2> HIDE DEF j
  <2>5. j + 1 \in 1 .. Len(line) /\ (j + 1) - 1 = j /\ gw * j \in Int
    BY <1>0, <2>1, <2>3
  <2>6. p[1] - gw * j = p[1] % gw /\ p[2] - gh * r = p[2] % gh
    BY <1>2, <2>3, <2>4, <2>5
  <2>7. p \in WriteAscii(Table, gw * j, gh * r, line[j + 1])
    BY <1>2, <2>1, <2>2, <2>5, <2>6, Dotted
  <2> QED BY <1>1, <2>5, <2>7
<1> QED BY <1>5, <1>6 DEF gw, gh

\* The dots of the mouse cursor.
LEMMA CursorDrawn ==
  ASSUME config \in Configs, NEW mark
  PROVE  /\ CursorPixels(mark) \subseteq Box(CursorX + CursorWidth, CursorY + CursorHeight)
         /\ \A p \in Pixels : p \in CursorPixels(mark) <=> Screen!InCursor(p, mark)
<1>0. /\ {CursorX, CursorY, CursorWidth, CursorHeight} \subseteq Nat
      /\ DOMAIN CursorShape = (0 .. CursorWidth - 1) \X (0 .. CursorHeight - 1)
      /\ Wide \in Nat /\ High \in Nat
  BY ConfigSizes, DesktopSizes
<1>1. ASSUME NEW p \in CursorPixels(mark)
      PROVE  p \in Box(CursorX + CursorWidth, CursorY + CursorHeight) /\ Screen!InCursor(p, mark)
  <2>1. PICK d \in DOMAIN CursorShape :
          CursorShape[d] = mark /\ p = <<CursorX + d[1], CursorY + d[2]>>
    BY DEF CursorPixels
  <2>2. d[1] \in 0 .. CursorWidth - 1 /\ d[2] \in 0 .. CursorHeight - 1 /\ d = <<d[1], d[2]>>
    BY <1>0
  <2>3. p \in Box(CursorX + CursorWidth, CursorY + CursorHeight)
    BY <1>0, <2>1, <2>2 DEF Box
  <2>4. p[1] - CursorX = d[1] /\ p[2] - CursorY = d[2]
    BY <1>0, <2>1, <2>2
  <2> QED BY <2>1, <2>2, <2>3, <2>4 DEF Screen!InCursor
<1>2. ASSUME NEW p \in Pixels, Screen!InCursor(p, mark) PROVE p \in CursorPixels(mark)
  <2> DEFINE d == <<p[1] - CursorX, p[2] - CursorY>>
  <2>1. d \in DOMAIN CursorShape /\ CursorShape[d] = mark
    BY <1>2 DEF Screen!InCursor
  <2>2. p = <<CursorX + d[1], CursorY + d[2]>>
    BY <1>0 DEF Pixels, Box
  <2> QED BY <2>1, <2>2 DEF CursorPixels
<1> QED BY <1>1, <1>2

\* Boxes that end inside a buffer that is large enough, and inside the screen.
LEMMA BoxPlaced ==
  ASSUME config \in Configs, NEW right \in Nat, NEW down \in Nat, NEW P \in SUBSET Box(right, down),
         InBuffer(config) => Stride * (down - 1) + right <= Stride * High,
         Fits(config) => right <= Wide /\ down <= High
  PROVE  Placed(P)
<1>1. P \subseteq Int \X Int
  BY DEF Box
<1>2. ASSUME InBuffer(config), NEW p \in P PROVE Stride * p[2] + p[1] \in 0 .. Stride * High - 1
  <2> DEFINE size == Stride * High
  <2>1. Stride \in Nat /\ size \in Int /\ Stride * (down - 1) + right <= size
    BY <1>2, BufferSizes
  <2>2. p[1] \in 0 .. right - 1 /\ p[2] \in 0 .. down - 1
    BY DEF Box
  <2> HIDE DEF size
  <2>3. Stride * p[2] + p[1] \in 0 .. size - 1
    BY <2>1, <2>2, BoxEnd
  <2> QED BY <2>3 DEF size
<1>3. ASSUME Fits(config) PROVE P \subseteq Pixels
  BY <1>3, ConfigSizes DEF Pixels, Box
<1> QED BY <1>1, <1>2, <1>3 DEF Placed

-----------------------------------------------------------------------------
(***************************************************************************)
(* Steps that draw                                                         *)
(***************************************************************************)
Colors == [{"r", "g", "b"} -> 0 .. 255]

\* Changed(P, color): what the pixels of the screen show after a drawing.
Changed(P, color) ==
  \A p \in Pixels :
    Shows(config.pixel_format, bytes', p) =
      IF p \in P THEN color ELSE Shows(config.pixel_format, bytes, p)

\* What a buffer holds: bytes, and only offsets of the frame buffer if all is drawn inside.
Sound(buffer) ==
  /\ \A a \in DOMAIN buffer : buffer[a] \in 0 .. 255
  /\ InBuffer(config) => DOMAIN buffer = FrameBuffer(config)

\* After a call of Write the buffer is sound, and the same where nothing is shown.
LEMMA WriteRight ==
  ASSUME config \in Configs, NEW kind \in Kinds, NEW P, Placed(P), NEW color \in Colors,
         NEW before, Sound(before)
  PROVE  /\ Sound(Write(before, kind, config, P, color))
         /\ Fits(config) => \A a \in FrameBuffer(config) :
              Visible(a) \/ Write(before, kind, config, P, color)[a] = before[a]
<1> DEFINE after == Write(before, kind, config, P, color)
           written == BytesOf(config, P)
<1>1. after = [a \in DOMAIN before \union written |->
                 IF a \in written THEN color[WriteOrder[kind][(a % 4) + 1]] ELSE before[a]]
  BY DEF Write
<1>2. P \in SUBSET (Int \X Int)
  BY DEF Placed
<1>3. ASSUME NEW a \in written PROVE color[WriteOrder[kind][(a % 4) + 1]] \in 0 .. 255
  <2>1. a % 4 \in 0 .. 2
    BY <1>2, WrittenOffset
  <2>2. WriteOrder[kind][(a % 4) + 1] \in {"r", "g", "b"}
    BY <2>1, WriteParts
  <2> QED BY <2>2 DEF Colors
<1>4. ASSUME InBuffer(config) PROVE written \subseteq FrameBuffer(config)
  BY <1>4, WrittenInside
<1>5. ASSUME Fits(config), NEW a \in written PROVE Visible(a)
  <2>1. InBuffer(config) /\ P \in SUBSET Pixels
    BY <1>5 DEF Fits, Placed
  <2> QED BY <2>1, WrittenVisible
<1> HIDE DEF after, written
<1>6. ASSUME NEW a \in DOMAIN after PROVE after[a] \in 0 .. 255
  <2>1. CASE a \in written
    BY <1>1, <1>3, <2>1
  <2>2. CASE a \notin written
    BY <1>1, <2>2 DEF Sound
  <2> QED BY <2>1, <2>2
<1>7. ASSUME InBuffer(config) PROVE DOMAIN after = FrameBuffer(config)
  BY <1>1, <1>4, <1>7 DEF Sound
<1>8. ASSUME Fits(config), NEW a \in FrameBuffer(config) PROVE Visible(a) \/ after[a] = before[a]
  <2>1. DOMAIN before = FrameBuffer(config)
    BY <1>8 DEF Fits, Sound
  <2> QED BY <1>1, <1>5, <1>8, <2>1
<1> QED BY <1>6, <1>7, <1>8 DEF Sound, after

\* When there is a writer, it is the screen's.
LEMMA WriterKind ==
  ASSUME IInv, pixel_writer \in DOMAIN WriteOrder
  PROVE  pixel_writer \in Kinds /\ config.pixel_format = pixel_writer /\ config \in Configs
BY DEF IInv, TypeOK, Writer, WriteOrder, Kinds

LEMMA IsSound == ASSUME IInv PROVE config \in Configs /\ Sound(bytes)
BY DEF IInv, TypeOK, Inside, Sound

\* Drawn: what a step that draws leaves in the frame buffer, and of the rest.
Drawn ==
  /\ Sound(bytes') /\ DrawsInside
  /\ UNCHANGED <<config, pixel_writer>> /\ pixel_writer \in Kinds

LEMMA DrawRight ==
  ASSUME IInv, NEW P, Placed(P), NEW color \in Colors, NEW at, NEW next,
         Draw(at, P, color, next)
  PROVE  /\ Drawn
         /\ Fits(config) => Changed(P, color)
         /\ main = at /\ main' = next
<1>1. pixel_writer \in Kinds /\ config.pixel_format = pixel_writer /\ config \in Configs
  BY WriterKind DEF Draw
<1>2. bytes' = Write(bytes, pixel_writer, config, P, color)
  BY DEF Draw
<1>3. Sound(bytes)
  BY IsSound
<1>4. /\ Sound(bytes')
      /\ Fits(config) => \A a \in FrameBuffer(config) : Visible(a) \/ bytes'[a] = bytes[a]
  BY <1>1, <1>2, <1>3, WriteRight
<1>5. DrawsInside
  BY <1>4 DEF Sound, DrawsInside
<1>6. ASSUME Fits(config) PROVE Changed(P, color)
  <2>1. color \in [{"r", "g", "b"} -> Int]
    BY DEF Colors
  <2>2. InBuffer(config) /\ P \in SUBSET Pixels /\ FrameBuffer(config) \subseteq DOMAIN bytes
    BY <1>3, <1>6 DEF Fits, Placed, Sound
  <2> QED BY <1>1, <1>2, <2>1, <2>2, Drawing DEF Changed
<1> QED BY <1>1, <1>4, <1>5, <1>6 DEF Draw, Drawn

\* What keeps the invariant, said of a step.
LEMMA StepRight ==
  ASSUME IInv, Drawn,
         main' \in {"Bar", "Button", "Icon", "Welcome", "Cursor", "Lines"}, row' \in 0 .. Rows,
         main' = "Cursor" => row' = 1, main' = "Lines" => row' \in 1 .. Len(Text)
  PROVE  IInv'
<1>1. Inside'
  BY DEF Drawn, Sound, Inside
<1>2. TypeOK'
  BY DEF IInv, TypeOK, Kinds, Drawn, Sound
<1>3. Writer'
  BY DEF IInv, Writer, Drawn
<1>4. Progress'
  BY DEF Progress
<1> QED BY <1>1, <1>2, <1>3, <1>4 DEF IInv

\* A step that lays layer LayersDrawn + 1 is a step of Picture.
LEMMA LayStep ==
  ASSUME UNCHANGED config, LayersDrawn' = LayersDrawn + 1, LayersDrawn < 5 + Len(Text),
         \A p \in Pixels :
           Shows(config.pixel_format, bytes', p) =
             Screen!Layer(LayersDrawn + 1, p, Shows(config.pixel_format, bytes, p))
  PROVE  Screen!Lay
<1> DEFINE now == [p \in Pixels |-> Shows(config.pixel_format, bytes, p)]
<1>1. [p \in Pixels |-> Shows(config.pixel_format, bytes, p)]' =
        [p \in Pixels |-> Screen!Layer(LayersDrawn + 1, p, now[p])]
  BY DEF Shows, Pixels, Box, Wide, High
<1>2. Screen!Pixel = Pixels
  BY DEF Screen!Pixel, Pixels, Box, Wide, High
<1> QED BY <1>1, <1>2 DEF Screen!Lay, Pixels, Box, Wide, High

-----------------------------------------------------------------------------
(***************************************************************************)
(* The layers, one by one: each keeps the invariant, is drawn inside, and  *)
(* is laid if it fits                                                      *)
(***************************************************************************)
Laid == IInv' /\ DrawsInside /\ (Fits(config) => Screen!Lay)

\* Facts about the sizes that all steps use.
LEMMA TextSizes ==
  /\ BarHeight \in Nat \ {0} /\ ButtonPart \in Nat \ {0}
  /\ IconX \in Nat /\ IconUp \in Nat /\ IconSize \in Nat \ {0} /\ IconSize <= IconUp
  /\ Len(Text) \in 1 .. Rows - 1 /\ Rows \in Nat \ {0}
BY DesktopSizes, DesktopText

LEMMA CellSizes ==
  /\ Rows \in Nat /\ Columns \in Nat
  /\ CursorX \in Nat /\ CursorY \in Nat /\ CursorWidth \in Nat /\ CursorHeight \in Nat
BY DesktopSizes

LEMMA FrameSizes ==
  ASSUME config \in Configs
  PROVE  /\ kFrameWidth \in Int /\ kFrameHeight \in Int /\ kFrameWidth \div ButtonPart \in Int
         /\ InBuffer(config) =>
              /\ kFrameWidth = Wide /\ kFrameHeight = High
              /\ Wide \div ButtonPart \in Nat /\ Wide \div ButtonPart <= Wide
<1>1. Wide \in Nat /\ High \in Nat /\ Stride \in Nat \ {0} /\ ButtonPart \in Nat \ {0}
  BY ConfigSizes, TextSizes
<1>2. kFrameWidth = Signed(Wide) /\ kFrameHeight = Signed(High)
  BY DEF kFrameWidth, kFrameHeight, Wide, High
<1>3. kFrameWidth \in Int /\ kFrameHeight \in Int
  BY <1>1, <1>2, SignedInt
<1>4. kFrameWidth \div ButtonPart \in Int
  BY <1>1, <1>3
<1>5. ASSUME InBuffer(config) PROVE 2 * Wide < IntModulus /\ 2 * High < IntModulus
  <2>1. Wide <= Stride /\ BarHeight <= High /\ 8 * (Stride * High) <= IntModulus
        /\ BarHeight \in Nat \ {0} /\ IntModulus \in Nat
    BY <1>5, BufferSizes, TextSizes, GraphicsModulus
  <2>2. High \in Nat \ {0}
    BY <1>1, <2>1
  <2>3. Stride <= Stride * High /\ High <= Stride * High /\ Stride * High \in Nat
    BY <1>1, <2>2
  <2> DEFINE size == Stride * High
  <2>4. Stride <= size /\ High <= size /\ size \in Nat /\ 8 * size <= IntModulus
    BY <2>1, <2>3
  <2> HIDE DEF size
  <2> QED BY <1>1, <2>1, <2>2, <2>4
<1>6. ASSUME InBuffer(config)
      PROVE  kFrameWidth = Wide /\ kFrameHeight = High
  BY <1>1, <1>2, <1>5, <1>6, SignedSmall
<1>7. Wide \div ButtonPart \in Nat /\ Wide \div ButtonPart <= Wide
  BY <1>1, Quotients
<1> QED BY <1>3, <1>4, <1>6, <1>7

LEMMA PixelPairs ==
  ASSUME config \in Configs, NEW p \in Pixels
  PROVE  p \in Int \X Int /\ p[1] \in 0 .. Wide - 1 /\ p[2] \in 0 .. High - 1
BY ConfigSizes DEF Pixels, Box

\* A filled rectangle inside the screen, which is inside a buffer that is large enough.
LEMMA RectangleDrawn ==
  ASSUME NEW x \in Int, NEW y \in Int, NEW w \in Int, NEW h \in Int, config \in Configs,
         InBuffer(config) => x >= 0 /\ y >= 0 /\ x + w <= Wide /\ y + h <= High
  PROVE  Placed(DrawFillRectangle(x, y, w, h))
<1> DEFINE P == DrawFillRectangle(x, y, w, h)
<1>1. P \subseteq Int \X Int
  BY DEF DrawFillRectangle
<1>2. ASSUME InBuffer(config) PROVE Placed(P)
  <2>1. Wide \in Nat /\ High \in Nat /\ Stride \in Nat /\ Wide <= Stride
    BY <1>2, BufferSizes
  <2>2. ASSUME NEW p \in P PROVE p \in Box(Wide, High)
    <3>1. p \in Int \X Int
      BY <1>1
    <3>2. p[1] \in x .. x + w - 1 /\ p[2] \in y .. y + h - 1
      BY <3>1, Rectangle
    <3>3. p[1] \in 0 .. Wide - 1 /\ p[2] \in 0 .. High - 1
      BY <1>2, <2>1, <3>1, <3>2
    <3> QED BY <3>1, <3>3 DEF Box
  <2>3. Stride * (High - 1) + Wide <= Stride * High
    BY <2>1
  <2> HIDE DEF P
  <2> QED BY <2>1, <2>2, <2>3, BoxPlaced
<1>3. CASE ~InBuffer(config)
  BY <1>1, <1>3 DEF Placed, Fits
<1> QED BY <1>2, <1>3

LEMMA BackgroundRight == ASSUME IInv, Background PROVE Laid
<1> DEFINE w == kFrameWidth
           h == kFrameHeight - BarHeight
           P == DrawFillRectangle(0, 0, w, h)
           color == Color(45, 118, 237)
<1>0. config \in Configs
  BY DEF IInv, TypeOK
<1>1. w \in Int /\ h \in Int /\ (InBuffer(config) => w = Wide /\ h = High - BarHeight)
  BY <1>0, FrameSizes, TextSizes
<1>2. BarHeight \in Nat \ {0} /\ Wide \in Nat /\ High \in Nat
  BY <1>0, TextSizes, ConfigSizes
<1>3. color \in Colors
  BY DEF Color, Colors
<1>4. Draw("Background", P, color, "Bar") /\ row' = row
  BY DEF Background
<1> HIDE DEF w, h
<1>5. Placed(P)
  <2>1. InBuffer(config) => 0 + w <= Wide /\ 0 + h <= High
    BY <1>1, <1>2
  <2> QED BY <1>0, <1>1, <2>1, RectangleDrawn
<1>6. ASSUME Fits(config), NEW p \in Pixels PROVE p \in P <=> ~Screen!InBar(p)
  <2>1. w = Wide /\ h = High - BarHeight
    BY <1>1, <1>6 DEF Fits
  <2>2. p \in Int \X Int /\ p[1] \in 0 .. Wide - 1 /\ p[2] \in 0 .. High - 1
    BY <1>0, PixelPairs
  <2>3. p \in P <=> p[1] \in 0 .. 0 + w - 1 /\ p[2] \in 0 .. 0 + h - 1
    BY <1>1, <2>2, Rectangle
  <2> QED BY <1>1, <1>2, <2>1, <2>2, <2>3 DEF Screen!InBar, High
<1> HIDE DEF P, color
<1>7. Drawn /\ (Fits(config) => Changed(P, color)) /\ main = "Background" /\ main' = "Bar"
  BY <1>3, <1>4, <1>5, DrawRight
<1>8. IInv'
  BY <1>4, <1>7, StepRight DEF IInv, TypeOK
<1>9. ASSUME Fits(config) PROVE Screen!Lay
  <2>1. LayersDrawn = 0 /\ LayersDrawn' = 1
    BY <1>7 DEF LayersDrawn
  <2>2. ASSUME NEW p \in Pixels
        PROVE  Shows(config.pixel_format, bytes', p) =
                 Screen!Layer(1, p, Shows(config.pixel_format, bytes, p))
    BY <1>6, <1>7, <1>9 DEF Changed, Screen!Layer, Screen!RGB, color, Color
  <2> QED BY <1>7, <2>1, <2>2, TextSizes, LayStep DEF Drawn
<1> QED BY <1>7, <1>8, <1>9 DEF Laid, Drawn

LEMMA BarRight == ASSUME IInv, Bar PROVE Laid
<1> DEFINE w == kFrameWidth
           y == kFrameHeight - BarHeight
           P == DrawFillRectangle(0, y, w, BarHeight)
           color == Color(1, 8, 17)
<1>0. config \in Configs
  BY DEF IInv, TypeOK
<1>1. w \in Int /\ y \in Int /\ (InBuffer(config) => w = Wide /\ y = High - BarHeight)
  BY <1>0, FrameSizes, TextSizes
<1>2. BarHeight \in Nat \ {0} /\ Wide \in Nat /\ High \in Nat
      /\ (InBuffer(config) => BarHeight <= High)
  BY <1>0, TextSizes, ConfigSizes, BufferSizes
<1>3. color \in Colors
  BY DEF Color, Colors
<1>4. Draw("Bar", P, color, "Button") /\ row' = row
  BY DEF Bar
<1> HIDE DEF w, y
<1>5. Placed(P)
  <2>1. InBuffer(config) => y >= 0 /\ 0 + w <= Wide /\ y + BarHeight <= High
    BY <1>1, <1>2
  <2> QED BY <1>0, <1>1, <1>2, <2>1, RectangleDrawn
<1>6. ASSUME Fits(config), NEW p \in Pixels PROVE p \in P <=> Screen!InBar(p)
  <2>1. w = Wide /\ y = High - BarHeight
    BY <1>1, <1>6 DEF Fits
  <2>2. p \in Int \X Int /\ p[1] \in 0 .. Wide - 1 /\ p[2] \in 0 .. High - 1
    BY <1>0, PixelPairs
  <2>3. p \in P <=> p[1] \in 0 .. 0 + w - 1 /\ p[2] \in y .. y + BarHeight - 1
    BY <1>1, <1>2, <2>2, Rectangle
  <2> QED BY <1>1, <1>2, <2>1, <2>2, <2>3 DEF Screen!InBar, High
<1> HIDE DEF P, color
<1>7. Drawn /\ (Fits(config) => Changed(P, color)) /\ main = "Bar" /\ main' = "Button"
  BY <1>3, <1>4, <1>5, DrawRight
<1>8. IInv'
  BY <1>4, <1>7, StepRight DEF IInv, TypeOK
<1>9. ASSUME Fits(config) PROVE Screen!Lay
  <2>1. LayersDrawn = 1 /\ LayersDrawn' = 2
    BY <1>7 DEF LayersDrawn
  <2>2. ASSUME NEW p \in Pixels
        PROVE  Shows(config.pixel_format, bytes', p) =
                 Screen!Layer(2, p, Shows(config.pixel_format, bytes, p))
    BY <1>6, <1>7, <1>9 DEF Changed, Screen!Layer, Screen!RGB, color, Color
  <2> QED BY <1>7, <2>1, <2>2, TextSizes, LayStep DEF Drawn
<1> QED BY <1>7, <1>8, <1>9 DEF Laid, Drawn

LEMMA ButtonRight == ASSUME IInv, Button PROVE Laid
<1> DEFINE w == kFrameWidth \div ButtonPart
           y == kFrameHeight - BarHeight
           P == DrawFillRectangle(0, y, w, BarHeight)
           color == Color(80, 80, 80)
<1>0. config \in Configs
  BY DEF IInv, TypeOK
<1>1. w \in Int /\ y \in Int
      /\ (InBuffer(config) => w = Wide \div ButtonPart /\ w \in Nat /\ w <= Wide
                              /\ y = High - BarHeight)
  BY <1>0, FrameSizes, TextSizes
<1>2. BarHeight \in Nat \ {0} /\ Wide \in Nat /\ High \in Nat
      /\ (InBuffer(config) => BarHeight <= High)
  BY <1>0, TextSizes, ConfigSizes, BufferSizes
<1>3. color \in Colors
  BY DEF Color, Colors
<1>4. Draw("Button", P, color, "Icon") /\ row' = row
  BY DEF Button
<1> HIDE DEF w, y
<1>5. Placed(P)
  <2>1. InBuffer(config) => y >= 0 /\ 0 + w <= Wide /\ y + BarHeight <= High
    BY <1>1, <1>2
  <2> QED BY <1>0, <1>1, <1>2, <2>1, RectangleDrawn
<1>6. ASSUME Fits(config), NEW p \in Pixels PROVE p \in P <=> Screen!InButton(p)
  <2>1. w = Wide \div ButtonPart /\ w \in Nat /\ y = High - BarHeight
    BY <1>1, <1>6 DEF Fits
  <2>2. p \in Int \X Int /\ p[1] \in 0 .. Wide - 1 /\ p[2] \in 0 .. High - 1
    BY <1>0, PixelPairs
  <2>3. p \in P <=> p[1] \in 0 .. 0 + w - 1 /\ p[2] \in y .. y + BarHeight - 1
    BY <1>1, <1>2, <2>2, Rectangle
  <2>4. Screen!InButton(p) <=> p[2] >= High - BarHeight /\ p[1] < w
    BY <2>1 DEF Screen!InButton, Screen!InBar, High, Wide
  <2>5. y = High - BarHeight
    BY <2>1
  <2> QED BY ONLY <1>1, <1>2, <2>2, <2>3, <2>4, <2>5
<1> HIDE DEF P, color
<1>7. Drawn /\ (Fits(config) => Changed(P, color)) /\ main = "Button" /\ main' = "Icon"
  BY <1>3, <1>4, <1>5, DrawRight
<1>8. IInv'
  BY <1>4, <1>7, StepRight DEF IInv, TypeOK
<1>9. ASSUME Fits(config) PROVE Screen!Lay
  <2>1. LayersDrawn = 2 /\ LayersDrawn' = 3
    BY <1>7 DEF LayersDrawn
  <2>2. ASSUME NEW p \in Pixels
        PROVE  Shows(config.pixel_format, bytes', p) =
                 Screen!Layer(3, p, Shows(config.pixel_format, bytes, p))
    BY <1>6, <1>7, <1>9 DEF Changed, Screen!Layer, Screen!RGB, color, Color
  <2> QED BY <1>7, <2>1, <2>2, TextSizes, LayStep DEF Drawn
<1> QED BY <1>7, <1>8, <1>9 DEF Laid, Drawn

\* A square that begins up above the lower edge and is not higher.
LEMMA SquareInside ==
  ASSUME NEW u \in Int, NEW v \in Int, NEW x \in Nat, NEW up \in Nat, NEW size \in Nat,
         NEW h \in Nat, up <= h,
         u - x \in 0 .. size - 1, v - (h - up) \in 0 .. size - 1
  PROVE  u \in 0 .. (x + size) - 1 /\ v \in 0 .. (h - up + size) - 1
OBVIOUS

LEMMA IconRight == ASSUME IInv, Icon PROVE Laid
<1> DEFINE y == kFrameHeight - IconUp
           P == DrawStrokeRectangle(IconX, y, IconSize, IconSize)
           color == Color(160, 160, 160)
<1>0. config \in Configs
  BY DEF IInv, TypeOK
<1>1. y \in Int /\ (InBuffer(config) => y = High - IconUp /\ IconUp <= High)
  BY <1>0, FrameSizes, TextSizes, BufferSizes
<1>2. /\ IconX \in Nat /\ IconUp \in Nat /\ IconSize \in Nat \ {0} /\ IconSize <= IconUp
      /\ Wide \in Nat /\ High \in Nat
  BY <1>0, TextSizes, ConfigSizes
<1>3. color \in Colors
  BY DEF Color, Colors
<1>4. Draw("Icon", P, color, "Welcome") /\ row' = row
  BY DEF Icon
<1> HIDE DEF y
<1>5. ASSUME NEW p \in Int \X Int
      PROVE p \in P <=>
              /\ p[1] - IconX \in 0 .. IconSize - 1 /\ p[2] - y \in 0 .. IconSize - 1
              /\ p[1] - IconX \in {0, IconSize - 1} \/ p[2] - y \in {0, IconSize - 1}
  <2>1. IconX \in Int /\ y \in Int /\ IconSize \in Nat \ {0}
    BY <1>1, <1>2
  <2> QED BY ONLY <2>1, Stroke
<1>6. P \subseteq Int \X Int
  BY <1>1, <1>2, StrokePairs
<1> HIDE DEF P, color
<1>7. Placed(P)
  <2>1. ASSUME InBuffer(config) PROVE Placed(P)
    <3> DEFINE right == IconX + IconSize
               down == High - IconUp + IconSize
    <3>1. y = High - IconUp /\ IconUp <= High
      BY <1>1, <2>1
    <3>2. ASSUME NEW p \in P PROVE p \in Box(right, down)
      <4>1. p \in Int \X Int
        BY <1>6
      <4>2. p[1] - IconX \in 0 .. IconSize - 1 /\ p[2] - y \in 0 .. IconSize - 1
        BY <1>5, <4>1
      <4> DEFINE u == p[1]
                 v == p[2]
      <4>3. u \in Int /\ v \in Int /\ u - IconX \in 0 .. IconSize - 1
            /\ v - (High - IconUp) \in 0 .. IconSize - 1
        BY <3>1, <4>1, <4>2
      <4>4. u \in 0 .. right - 1 /\ v \in 0 .. down - 1
        <5> HIDE DEF u, v
        <5> QED BY ONLY <1>2, <3>1, <4>3, SquareInside
      <4>5. p = <<u, v>>
        BY <4>1
      <4> HIDE DEF u, v
      <4> QED BY <4>4, <4>5 DEF Box
    <3>3. right \in Nat /\ down \in Nat
      BY <1>2, <3>1
    <3>4. Stride * (down - 1) + right <= Stride * High
      BY <1>0, <2>1, BufferSizes
    <3>5. Fits(config) => right <= Wide /\ down <= High
      BY <1>0, <1>2, <3>1, Sizes
    <3> HIDE DEF right, down
    <3> QED BY <1>0, <3>2, <3>3, <3>4, <3>5, BoxPlaced
  <2>2. CASE ~InBuffer(config)
    BY <1>6, <2>2 DEF Placed, Fits
  <2> QED BY <2>1, <2>2
<1>8. Drawn /\ (Fits(config) => Changed(P, color)) /\ main = "Icon" /\ main' = "Welcome"
  BY <1>3, <1>4, <1>7, DrawRight
<1>9. IInv'
  BY <1>4, <1>8, StepRight DEF IInv, TypeOK
<1>10. ASSUME Fits(config) PROVE Screen!Lay
  <2>1. LayersDrawn = 3 /\ LayersDrawn' = 4
    BY <1>8 DEF LayersDrawn
  <2>2. y = High - IconUp
    BY <1>1, <1>10 DEF Fits
  <2>3. ASSUME NEW p \in Pixels PROVE p \in P <=> Screen!OnIcon(p)
    <3>1. p \in Int \X Int
      BY <1>0, PixelPairs
    <3> QED BY <1>5, <2>2, <3>1 DEF Screen!OnIcon, High
  <2>4. ASSUME NEW p \in Pixels
        PROVE  Shows(config.pixel_format, bytes', p) =
                 Screen!Layer(4, p, Shows(config.pixel_format, bytes, p))
    BY <1>8, <1>10, <2>3 DEF Changed, Screen!Layer, Screen!RGB, color, Color
  <2> QED BY <1>8, <2>1, <2>4, TextSizes, LayStep DEF Drawn
<1> QED BY <1>8, <1>9, <1>10 DEF Laid, Drawn

\* The layer of a line of text is the one of its row.
LEMMA LineLayer ==
  ASSUME NEW r \in Nat, NEW n \in Nat, n = (IF r = 0 THEN 5 ELSE r + 6), NEW p, NEW before
  PROVE  Screen!Layer(n, p, before) = IF Screen!OnLine(r, p) THEN Color(0, 0, 0) ELSE before
<1>1. CASE r = 0
  BY <1>1 DEF Screen!Layer, Screen!RGB, Color
<1>2. CASE r # 0
  <2>1. n \notin {1, 2, 3, 4, 5, 6} /\ n - 6 = r
    BY <1>2
  <2> QED BY <2>1 DEF Screen!Layer, Screen!RGB, Color
<1> QED BY <1>1, <1>2

\* Both drawings of a line (main.cc:116; 138 and 145).
LEMMA LineRight ==
  ASSUME IInv, NEW r \in 0 .. Len(Text) - 1, NEW at, NEW next, NEW n \in Nat,
         Draw(at, LinePixels(r), Color(0, 0, 0), next)
  PROVE  /\ Drawn /\ main = at /\ main' = next
         /\ Fits(config) /\ n = (IF r = 0 THEN 5 ELSE r + 6) =>
              \A p \in Pixels :
                Shows(config.pixel_format, bytes', p) =
                  Screen!Layer(n, p, Shows(config.pixel_format, bytes, p))
<1> DEFINE P == LinePixels(r)
           color == Color(0, 0, 0)
           right == Columns * GlyphWidth
           down == Rows * GlyphHeight
<1>0. config \in Configs /\ r \in Nat
  BY TextSizes DEF IInv, TypeOK
<1>1. P \subseteq Box(right, down) /\ \A p \in Pixels : p \in P <=> Screen!OnLine(r, p)
  BY <1>0, LineDrawn
<1>2. color \in Colors
  BY DEF Color, Colors
<1>3. Draw(at, P, color, next)
  OBVIOUS
<1>4. right \in Nat /\ down \in Nat
  BY FontSizes, CellSizes
<1>5. /\ InBuffer(config) => Stride * (down - 1) + right <= Stride * High
      /\ Fits(config) => right <= Wide /\ down <= High
  BY <1>0, BufferSizes, Sizes
<1> HIDE DEF P, color, right, down
<1>6. Placed(P)
  BY <1>0, <1>1, <1>4, <1>5, BoxPlaced
<1>7. Drawn /\ (Fits(config) => Changed(P, color)) /\ main = at /\ main' = next
  BY <1>2, <1>3, <1>6, DrawRight
<1>8. ASSUME Fits(config), n = (IF r = 0 THEN 5 ELSE r + 6), NEW p \in Pixels
      PROVE  Shows(config.pixel_format, bytes', p) =
               Screen!Layer(n, p, Shows(config.pixel_format, bytes, p))
  <2> DEFINE before == Shows(config.pixel_format, bytes, p)
  <2>1. Shows(config.pixel_format, bytes', p) = IF p \in P THEN color ELSE before
    BY <1>7, <1>8 DEF Changed
  <2> HIDE DEF before
  <2>2. Screen!Layer(n, p, before) = IF Screen!OnLine(r, p) THEN color ELSE before
    BY <1>0, <1>8, LineLayer DEF color
  <2> QED BY <1>1, <2>1, <2>2 DEF before
<1> QED BY <1>7, <1>8

LEMMA WelcomeRight == ASSUME IInv, Welcome PROVE Laid
<1>0. Len(Text) \in 1 .. Rows - 1 /\ Rows \in Nat
  BY TextSizes
<1>1. Draw("Welcome", LinePixels(0), Color(0, 0, 0), "Cursor") /\ row' = 1
  BY DEF Welcome
<1>2. /\ Drawn /\ main = "Welcome" /\ main' = "Cursor"
      /\ Fits(config) =>
           \A p \in Pixels :
             Shows(config.pixel_format, bytes', p) =
               Screen!Layer(5, p, Shows(config.pixel_format, bytes, p))
  <2>1. 0 \in 0 .. Len(Text) - 1 /\ 5 = (IF 0 = 0 THEN 5 ELSE 0 + 6) /\ 5 \in Nat
    BY <1>0
  <2> QED BY <1>1, <2>1, LineRight
<1>3. IInv'
  BY <1>0, <1>1, <1>2, StepRight
<1>4. LayersDrawn = 4 /\ LayersDrawn' = 5
  BY <1>2 DEF LayersDrawn
<1>5. Fits(config) => Screen!Lay
  BY <1>0, <1>2, <1>4, LayStep DEF Drawn
<1> QED BY <1>2, <1>3, <1>5 DEF Laid, Drawn

LEMMA LinesRight == ASSUME IInv, Line PROVE Laid
<1>0. Len(Text) \in 1 .. Rows - 1 /\ Rows \in Nat
  BY TextSizes
<1>1. row < Len(Text) /\ Draw("Lines", LinePixels(row), Color(0, 0, 0), "Lines") /\ row' = row + 1
  BY DEF Line
<1>2. main = "Lines" /\ row \in 1 .. Len(Text) - 1
  BY <1>0, <1>1 DEF Draw, IInv, Progress
<1>3. /\ Drawn /\ main' = "Lines"
      /\ Fits(config) =>
           \A p \in Pixels :
             Shows(config.pixel_format, bytes', p) =
               Screen!Layer(row + 6, p, Shows(config.pixel_format, bytes, p))
  <2>1. row \in 0 .. Len(Text) - 1 /\ row + 6 \in Nat
        /\ row + 6 = (IF row = 0 THEN 5 ELSE row + 6)
    BY <1>0, <1>2
  <2> DEFINE n == row + 6
  <2>2. n \in Nat /\ n = (IF row = 0 THEN 5 ELSE row + 6)
    BY <2>1
  <2> HIDE DEF n
  <2>3. /\ Drawn /\ main' = "Lines"
        /\ Fits(config) =>
             \A p \in Pixels :
               Shows(config.pixel_format, bytes', p) =
                 Screen!Layer(n, p, Shows(config.pixel_format, bytes, p))
    BY <1>1, <2>1, <2>2, LineRight
  <2> QED BY <2>3 DEF n
<1>4. row' \in 0 .. Rows /\ row' \in 1 .. Len(Text)
  BY <1>0, <1>1, <1>2
<1>5. IInv'
  BY <1>3, <1>4, StepRight
<1>6. LayersDrawn = 5 + row /\ LayersDrawn' = 5 + (row + 1)
  BY <1>1, <1>2, <1>3 DEF LayersDrawn
<1>7. LayersDrawn + 1 = row + 6 /\ LayersDrawn' = LayersDrawn + 1 /\ LayersDrawn < 5 + Len(Text)
  BY <1>0, <1>2, <1>6
<1>8. Fits(config) => Screen!Lay
  BY <1>3, <1>7, LayStep DEF Drawn
<1> QED BY <1>3, <1>5, <1>8 DEF Laid, Drawn

\* The two colours of the mouse cursor; no dot has both.
LEMMA CursorRight == ASSUME IInv, Cursor PROVE Laid
<1> DEFINE P == CursorPixels("@")
           Q == CursorPixels(".")
           black == Color(0, 0, 0)
           white == Color(255, 255, 255)
           between == Write(bytes, pixel_writer, config, P, black)
           right == CursorX + CursorWidth
           down == CursorY + CursorHeight
<1>0. config \in Configs /\ Len(Text) \in 1 .. Rows - 1 /\ Rows \in Nat /\ Sound(bytes)
  BY IsSound, TextSizes
<1>1. /\ main = "Cursor" /\ main' = "Lines" /\ pixel_writer \in DOMAIN WriteOrder
      /\ bytes' = Write(between, pixel_writer, config, Q, white)
      /\ UNCHANGED <<config, pixel_writer, row>>
  BY DEF Cursor
<1>2. pixel_writer \in Kinds /\ config.pixel_format = pixel_writer
  BY <1>1, WriterKind
<1>3. /\ P \subseteq Box(right, down) /\ \A p \in Pixels : p \in P <=> Screen!InCursor(p, "@")
      /\ Q \subseteq Box(right, down) /\ \A p \in Pixels : p \in Q <=> Screen!InCursor(p, ".")
  BY <1>0, CursorDrawn
<1>4. black \in Colors /\ white \in Colors
  BY DEF Color, Colors
<1>5. black \in [{"r", "g", "b"} -> Int] /\ white \in [{"r", "g", "b"} -> Int]
  BY <1>4 DEF Colors
<1>6. Placed(P) /\ Placed(Q)
  <2>1. right \in Nat /\ down \in Nat
    BY CellSizes
  <2>2. /\ InBuffer(config) => Stride * (down - 1) + right <= Stride * High
        /\ Fits(config) => right <= Wide /\ down <= High
    BY <1>0, BufferSizes, Sizes
  <2> HIDE DEF P, Q, right, down
  <2> QED BY <1>0, <1>3, <2>1, <2>2, BoxPlaced
<1> HIDE DEF P, Q, right, down
<1>7. /\ Sound(between)
      /\ Fits(config) => \A a \in FrameBuffer(config) : Visible(a) \/ between[a] = bytes[a]
  <2> HIDE DEF black
  <2> QED BY <1>0, <1>2, <1>4, <1>6, WriteRight
<1>8. /\ Sound(bytes')
      /\ Fits(config) => \A a \in FrameBuffer(config) : Visible(a) \/ bytes'[a] = between[a]
  <2> HIDE DEF white, between
  <2> QED BY <1>0, <1>1, <1>2, <1>4, <1>6, <1>7, WriteRight
<1>9. DrawsInside
  <2> HIDE DEF between
  <2> QED BY <1>7, <1>8 DEF DrawsInside, Sound
<1>10. Drawn
  BY <1>1, <1>2, <1>8, <1>9 DEF Drawn
<1>11. row = 1 /\ row' = 1
  BY <1>1 DEF IInv, Progress
<1>12. IInv'
  BY <1>0, <1>1, <1>10, <1>11, StepRight
<1>13. LayersDrawn = 5 /\ LayersDrawn' = 6
  BY <1>1, <1>11 DEF LayersDrawn
<1>14. ASSUME Fits(config), NEW p \in Pixels
       PROVE  Shows(config.pixel_format, bytes', p) =
                Screen!Layer(6, p, Shows(config.pixel_format, bytes, p))
  <2> DEFINE show(b) == Shows(config.pixel_format, b, p)
  <2>1. InBuffer(config) /\ P \in SUBSET Pixels /\ Q \in SUBSET Pixels
        /\ FrameBuffer(config) \subseteq DOMAIN bytes
    BY <1>0, <1>6, <1>14 DEF Fits, Placed, Sound
  <2>2. FrameBuffer(config) \subseteq DOMAIN between
    <3> HIDE DEF between
    <3> QED BY <1>7, <2>1 DEF Sound
  <2>3. show(between) = IF p \in P THEN black ELSE show(bytes)
    <3> HIDE DEF black, white
    <3> QED BY <1>0, <1>2, <1>5, <2>1, Drawing
  <2>4. show(bytes') = IF p \in Q THEN white ELSE show(between)
    <3> HIDE DEF black, white, between
    <3> QED BY <1>0, <1>1, <1>2, <1>5, <2>1, <2>2, Drawing
  <2>5. ~(Screen!InCursor(p, "@") /\ Screen!InCursor(p, "."))
    BY DEF Screen!InCursor
  <2>6. (p \in P <=> Screen!InCursor(p, "@")) /\ (p \in Q <=> Screen!InCursor(p, "."))
    BY <1>3
  <2>7. show(bytes') = IF Screen!InCursor(p, "@") THEN black
                       ELSE IF Screen!InCursor(p, ".") THEN white ELSE show(bytes)
    <3> HIDE DEF black, white, between, show
    <3> QED BY <2>3, <2>4, <2>5, <2>6
  <2> HIDE DEF show
  <2> QED BY <2>7 DEF Screen!Layer, Screen!RGB, Color, black, white, show
<1>15. Fits(config) => Screen!Lay
  BY <1>0, <1>1, <1>13, <1>14, LayStep
<1> QED BY <1>9, <1>12, <1>15 DEF Laid

\* main.cc:78-89 draws nothing.
LEMMA ChooseWriterRight ==
  ASSUME IInv, ChooseWriter
  PROVE  IInv' /\ UNCHANGED <<config, bytes>> /\ LayersDrawn' = LayersDrawn /\ DrawsInside
<1>1. /\ main = "ChooseWriter" /\ main' = "Background"
      /\ pixel_writer' = IF config.pixel_format \in DOMAIN WriteOrder
                           THEN config.pixel_format ELSE pixel_writer
      /\ UNCHANGED <<config, bytes, row>>
  BY DEF ChooseWriter
<1>2. DOMAIN WriteOrder = {"RGB", "BGR"}
  BY DEF WriteOrder
<1>3. TypeOK'
  BY <1>1, <1>2 DEF IInv, TypeOK
<1>4. Writer' /\ Progress' /\ Inside'
  BY <1>1 DEF IInv, Writer, Progress, Inside
<1> QED BY <1>1, <1>3, <1>4 DEF IInv, LayersDrawn, DrawsInside

-----------------------------------------------------------------------------
(***************************************************************************)
(* The theorems                                                            *)
(***************************************************************************)

\* Whatever bytes there are in the frame buffer, they show a picture.
PictureFits == config \in Configs /\ Fits(config) /\ Sound(bytes)
IsPicture ==
  [p \in Pixels |-> Shows(config.pixel_format, bytes, p)] \in [Pixels -> Screen!Colour]

LEMMA PictureShown == PictureFits => IsPicture
<1> SUFFICES ASSUME PictureFits, NEW p \in Pixels
             PROVE  Shows(config.pixel_format, bytes, p) \in Screen!Colour
  BY DEF IsPicture
<1>0. config \in Configs /\ Fits(config) /\ Sound(bytes)
  BY DEF PictureFits
<1> DEFINE at == PixelAt(config, p[1], p[2])
           order == Order(config.pixel_format)
<1>1. InBuffer(config) /\ p[1] \in 0 .. Wide - 1 /\ p[2] \in 0 .. High - 1
  BY <1>0, PixelPairs DEF Fits
<1>2. at = 4 * (Stride * p[2] + p[1])
  BY <1>0, <1>1, Position
<1>3. \A k \in 0 .. 2 : at + k \in FrameBuffer(config)
  BY <1>0, <1>1, ByteVisible
<1>4. \A part \in {"r", "g", "b"} : order[part] \in 0 .. 2
  BY DEF Order
<1>5. Shows(config.pixel_format, bytes, p) = [part \in {"r", "g", "b"} |-> bytes[at + order[part]]]
  BY <1>2 DEF Shows, Stride
<1> HIDE DEF at, order
<1>6. \A part \in {"r", "g", "b"} : bytes[at + order[part]] \in 0 .. 255
  BY <1>0, <1>1, <1>3, <1>4 DEF Sound
<1> QED BY <1>5, <1>6 DEF Screen!Colour

LEMMA PictureShownNext == PictureFits' => IsPicture'
BY PictureShown, PTL

LEMMA InitRight == Init => IInv /\ (Fits(config) => Screen!Init)
<1> SUFFICES ASSUME Init PROVE IInv /\ (Fits(config) => Screen!Init)
  OBVIOUS
<1>0. config \in Configs /\ pixel_writer = "null" /\ main = "ChooseWriter" /\ row = 0
      /\ bytes \in [FrameBuffer(config) -> 0 .. 255]
  BY DEF Init
<1>1. DOMAIN bytes = FrameBuffer(config) /\ \A a \in DOMAIN bytes : bytes[a] \in 0 .. 255
  BY <1>0
<1>2. IInv
  BY <1>0, <1>1, TextSizes DEF IInv, TypeOK, Writer, Progress, Inside
<1>3. LayersDrawn = 0
  BY <1>0 DEF LayersDrawn
<1>4. Wide \in Nat /\ High \in Nat
  BY <1>0, ConfigSizes
<1>5. ASSUME Fits(config) PROVE Screen!Init
  <2>1. [p \in Pixels |-> Shows(config.pixel_format, bytes, p)] \in [Pixels -> Screen!Colour]
    BY <1>0, <1>2, <1>5, IsSound, PictureShown DEF PictureFits, IsPicture
  <2> QED BY <1>3, <1>4, <2>1 DEF Screen!Init, Screen!Pixel, Pixels, Box, Wide, High
<1> QED BY <1>2, <1>5

LEMMA NextRight ==
  IInv /\ [Next]_vars =>
    IInv' /\ [DrawsInside]_vars /\ [Fits(config) => Screen!Next]_(Screen!vars)
<1> SUFFICES ASSUME IInv, [Next]_vars
             PROVE  /\ IInv' /\ (DrawsInside \/ UNCHANGED vars)
                    /\ (Fits(config) => Screen!Next) \/ UNCHANGED Screen!vars
  OBVIOUS
<1>1. ASSUME UNCHANGED <<config, bytes>>, LayersDrawn' = LayersDrawn
      PROVE  UNCHANGED Screen!vars
  BY <1>1 DEF Screen!vars, Shows
<1>2. CASE ChooseWriter
  BY <1>1, <1>2, ChooseWriterRight
<1>3. ASSUME Laid PROVE IInv' /\ DrawsInside /\ (Fits(config) => Screen!Next)
  BY <1>3 DEF Laid, Screen!Next
<1>4. CASE Background \/ Bar \/ Button \/ Icon \/ Welcome \/ Cursor \/ Line
  BY <1>3, <1>4, BackgroundRight, BarRight, ButtonRight, IconRight, WelcomeRight, CursorRight,
     LinesRight
<1>5. CASE UNCHANGED vars
  <2>1. IInv'
    BY <1>5 DEF vars, IInv, TypeOK, Writer, Progress, Inside
  <2>2. LayersDrawn' = LayersDrawn /\ UNCHANGED <<config, bytes>>
    BY <1>5 DEF vars, LayersDrawn
  <2> QED BY <1>1, <1>5, <2>1, <2>2
<1> QED BY <1>2, <1>4, <1>5 DEF Next

\* Type correctness: what is in the frame buffer are bytes.
THEOREM DesktopTypes == Spec => []TypeOK
BY InitRight, NextRight, PTL DEF Spec, IInv

\* Nothing KernelMain draws gets outside a frame buffer that is large enough for it, in
\* the arithmetic of 32 bits (PixelAt, graphics.h:24-28), with lines too long for the
\* screen or not; and on a screen that everything fits on the padding of the lines and
\* the byte a pixel does not use keep what they had.
THEOREM DrawsOnScreen == Spec => OnScreen
BY InitRight, NextRight, PTL DEF Spec, OnScreen

\* What KernelMain's calls leave in the frame buffer of a screen that everything fits on
\* is the desktop, layer by layer, on what was there before.
THEOREM DesktopShown == Spec => ShowsDesktop
BY InitRight, NextRight, PTL DEF Spec, ShowsDesktop

-----------------------------------------------------------------------------
(***************************************************************************)
(* From power on: the loader and then KernelMain, as Boot composes them.   *)
(* LP holds what LoaderProofs shows of the loader; Ldr, Boot's loader, is  *)
(* the same state machine.                                                 *)
(***************************************************************************)
LP == INSTANCE LoaderProofs

\* Both are one state machine: their definitions have the same text.
LEMMA SameInit == Ldr!Init <=> LP!Init
BY DEF Ldr!Init, LP!Init

LEMMA SameNext == Ldr!Next <=> LP!Next
<1>0. Ldr!Descriptors = LP!Descriptors
  BY DEF Ldr!Descriptors, LP!Descriptors, Ldr!Cardinality, LP!Cardinality
<1>call. ASSUME NEW at PROVE Ldr!Call(at) <=> LP!Call(at)
  BY DEF Ldr!Call, LP!Call
<1>plain. ASSUME NEW at, NEW next PROVE Ldr!Plain(at, next) <=> LP!Plain(at, next)
  BY <1>call DEF Ldr!Plain, LP!Plain, Ldr!firmwareVars, LP!firmwareVars
<1>read. ASSUME NEW next PROVE Ldr!ReadMap(next) <=> LP!ReadMap(next)
  BY <1>0 DEF Ldr!ReadMap, LP!ReadMap
<1>give. ASSUME NEW P, NEW owner PROVE Ldr!Give(P, owner) <=> LP!Give(P, owner)
  BY DEF Ldr!Give, LP!Give
<1>free. Ldr!FreePages = LP!FreePages
  BY DEF Ldr!FreePages, LP!FreePages
<1>alloc. ASSUME NEW at, NEW owner, NEW next
          PROVE  Ldr!Allocating(at, owner, next) <=> LP!Allocating(at, owner, next)
  BY <1>call, <1>give, <1>free
     DEF Ldr!Allocating, LP!Allocating, Ldr!AllocatePool, LP!AllocatePool
<1>freeing. ASSUME NEW at, NEW owner, NEW next
            PROVE  Ldr!Freeing(at, owner, next) <=> LP!Freeing(at, owner, next)
  BY <1>call, <1>give DEF Ldr!Freeing, LP!Freeing, Ldr!FreePool, LP!FreePool
<1>exit. ASSUME NEW at, NEW otherwise PROVE Ldr!Exit(at, otherwise) <=> LP!Exit(at, otherwise)
  BY <1>call DEF Ldr!Exit, LP!Exit
<1>1. Ldr!GetMemoryMap <=> LP!GetMemoryMap
  BY <1>call, <1>read DEF Ldr!GetMemoryMap, LP!GetMemoryMap
<1>2. /\ Ldr!OpenRootDir <=> LP!OpenRootDir
      /\ Ldr!CloseMemmap <=> LP!CloseMemmap
      /\ Ldr!OpenKernel <=> LP!OpenKernel
  BY <1>plain DEF Ldr!OpenRootDir, LP!OpenRootDir, Ldr!CloseMemmap, LP!CloseMemmap,
     Ldr!OpenKernel, LP!OpenKernel
<1>3. Ldr!OpenMemmap <=> LP!OpenMemmap
  BY <1>call DEF Ldr!OpenMemmap, LP!OpenMemmap, Ldr!firmwareVars, LP!firmwareVars
<1>4. Ldr!SaveMemoryMap <=> LP!SaveMemoryMap
  BY <1>call DEF Ldr!SaveMemoryMap, LP!SaveMemoryMap, Ldr!firmwareVars, LP!firmwareVars
<1>5. Ldr!LocateGOP <=> LP!LocateGOP
  BY <1>alloc DEF Ldr!LocateGOP, LP!LocateGOP
<1>6. Ldr!OpenGOP <=> LP!OpenGOP
  BY <1>freeing, <1>call DEF Ldr!OpenGOP, LP!OpenGOP, Ldr!firmwareVars, LP!firmwareVars
<1>fill. Ldr!FillScreen <=> LP!FillScreen
  BY DEF Ldr!FillScreen, LP!FillScreen, Ldr!firmwareVars, LP!firmwareVars
<1>7. Ldr!AllocateBuffer <=> LP!AllocateBuffer
  BY <1>alloc DEF Ldr!AllocateBuffer, LP!AllocateBuffer
<1>8. Ldr!Read <=> LP!Read
  BY <1>call DEF Ldr!Read, LP!Read, Ldr!firmwareVars, LP!firmwareVars
<1>9. Ldr!PlaceKernel <=> LP!PlaceKernel
  BY <1>call, <1>give, <1>free
     DEF Ldr!PlaceKernel, LP!PlaceKernel, Ldr!AllocatePages, LP!AllocatePages
<1>10. Ldr!CopyLoadSegments <=> LP!CopyLoadSegments
  BY <1>call DEF Ldr!CopyLoadSegments, LP!CopyLoadSegments, Ldr!firmwareVars, LP!firmwareVars
<1>11. Ldr!FreeBuffer <=> LP!FreeBuffer
  BY <1>freeing DEF Ldr!FreeBuffer, LP!FreeBuffer
<1>12. /\ Ldr!ExitBootServices <=> LP!ExitBootServices
       /\ Ldr!ExitBootServicesAgain <=> LP!ExitBootServicesAgain
  BY <1>exit DEF Ldr!ExitBootServices, LP!ExitBootServices,
     Ldr!ExitBootServicesAgain, LP!ExitBootServicesAgain
<1>13. Ldr!GetMemoryMapAgain <=> LP!GetMemoryMapAgain
  BY <1>call, <1>read DEF Ldr!GetMemoryMapAgain, LP!GetMemoryMapAgain
<1>14. Ldr!CallKernel <=> LP!CallKernel
  BY <1>call DEF Ldr!CallKernel, LP!CallKernel, Ldr!firmwareVars, LP!firmwareVars,
     Ldr!Supported, LP!Supported
<1>15. Ldr!FirmwareEvent <=> LP!FirmwareEvent
  BY <1>give DEF Ldr!FirmwareEvent, LP!FirmwareEvent
<1>16. Ldr!Step <=> LP!Step
  BY <1>1, <1>2, <1>3, <1>4, <1>5, <1>6, <1>fill, <1>7, <1>8, <1>9, <1>10, <1>11, <1>12, <1>13,
     <1>14 DEF Ldr!Step, LP!Step
<1> QED BY <1>15, <1>16 DEF Ldr!Next, LP!Next

\* The assumptions of the loader's modules.
LEMMA LoaderAssumptions ==
  /\ Page \subseteq Nat /\ LP!IsFiniteSet(Page) /\ PoolPages \subseteq Page
  /\ KernelPages \subseteq Page /\ Restless \in BOOLEAN /\ MapSlots \in Nat
  /\ Memories \subseteq [Page -> {"free", "firmware"}]
BY BootMemory DEF IsFiniteSet, LP!IsFiniteSet

\* What the loader has ensured stays so, from power on.
LEMMA LoaderHolds ==
  /\ Ldr!Init => LP!LoaderInv
  /\ LP!LoaderInv /\ (Ldr!Next \/ UNCHANGED loaderVars) => LP!LoaderInv'
<1>1. Ldr!Init => LP!LoaderInv
  BY SameInit, LoaderAssumptions, LP!LoaderInit
<1>2. LP!LoaderInv /\ [LP!Next]_(LP!vars) => LP!LoaderInv'
  BY LoaderAssumptions, LP!LoaderNext
<1> QED BY <1>1, <1>2, SameNext DEF LP!vars, loaderVars

\* The loader does not change the screen's mode, and goes to the kernel in CallKernel only.
LEMMA LoaderKeeps ==
  ASSUME LP!LoaderInv, Ldr!Next
  PROVE  /\ format' = format
         /\ pc = "Kernel" => pc' = "Kernel"
         /\ pc # "CallKernel" /\ pc # "Kernel" => pc' # "Kernel"
<1>1. CASE Ldr!CallKernel
  BY <1>1 DEF Ldr!CallKernel, Ldr!Call
<1>2. CASE Ldr!FirmwareEvent /\ UNCHANGED <<pc, map_size, lines, image, fill, format, stray>>
  BY <1>2
<1>3. CASE Ldr!GetMemoryMap \/ Ldr!GetMemoryMapAgain
  BY <1>3 DEF Ldr!GetMemoryMap, Ldr!GetMemoryMapAgain, Ldr!ReadMap, Ldr!Call
<1>4. CASE Ldr!OpenRootDir \/ Ldr!CloseMemmap \/ Ldr!OpenKernel
  BY <1>4 DEF Ldr!OpenRootDir, Ldr!CloseMemmap, Ldr!OpenKernel, Ldr!Plain, Ldr!Call
<1>5. CASE Ldr!OpenMemmap
  BY <1>5 DEF Ldr!OpenMemmap, Ldr!Call
<1>6. CASE Ldr!SaveMemoryMap
  BY <1>6 DEF Ldr!SaveMemoryMap, Ldr!Call
<1>7. CASE Ldr!LocateGOP \/ Ldr!AllocateBuffer
  BY <1>7 DEF Ldr!LocateGOP, Ldr!AllocateBuffer, Ldr!Allocating, Ldr!Call
<1>8. CASE Ldr!OpenGOP \/ Ldr!FreeBuffer
  BY <1>8 DEF Ldr!OpenGOP, Ldr!FreeBuffer, Ldr!Freeing, Ldr!Call
<1>9. CASE Ldr!Read \/ Ldr!CopyLoadSegments
  BY <1>9 DEF Ldr!Read, Ldr!CopyLoadSegments, Ldr!Call
<1>10. CASE Ldr!PlaceKernel
  BY <1>10 DEF Ldr!PlaceKernel, Ldr!Call
<1>11. CASE Ldr!ExitBootServices \/ Ldr!ExitBootServicesAgain
  BY <1>11 DEF Ldr!ExitBootServices, Ldr!ExitBootServicesAgain, Ldr!Exit, Ldr!Call
<1>12. CASE Ldr!FillScreen
  BY <1>12 DEF Ldr!FillScreen
<1> QED
  BY <1>1, <1>2, <1>3, <1>4, <1>5, <1>6, <1>7, <1>8, <1>9, <1>10, <1>11, <1>12 DEF Ldr!Next, Ldr!Step

\* Until the kernel is called KernelMain has done nothing; it is called with the
\* description of this screen.
Called ==
  /\ mode \in {Config(f, FirstFormat) : f \in Configs}
  /\ config = Config(mode, config.pixel_format)
  /\ pc # "Kernel" => main = "ChooseWriter" /\ pixel_writer = "null" /\ row = 0
  /\ pc = "Kernel" => config = Config(mode, format) /\ format \in Ldr!Supported

BootInv == LP!LoaderInv /\ IInv /\ Called

\* The config handed over is that of a screen.
LEMMA ModeConfig ==
  ASSUME NEW f \in Configs, NEW g \in Ldr!Supported
  PROVE  /\ Config(Config(f, FirstFormat), g) \in Configs
         /\ Config(Config(f, FirstFormat), g).pixel_format = g
<1>1. f \in FrameBufferConfig
  BY DesktopConfigs
<1>2. Config(Config(f, FirstFormat), g) = Config(f, g)
  BY <1>1 DEF FrameBufferConfig, Config
<1>3. Config(f, g) \in Configs
  BY BootConfigs
<1> QED BY <1>1, <1>2, <1>3 DEF FrameBufferConfig, Config

\* The format of the pixels does not change the size of a screen.
LEMMA SameSize ==
  ASSUME NEW f \in FrameBufferConfig, NEW g
  PROVE  /\ Config(f, g).pixels_per_scan_line = f.pixels_per_scan_line
         /\ Config(f, g).horizontal_resolution = f.horizontal_resolution
         /\ Config(f, g).vertical_resolution = f.vertical_resolution
BY DEF FrameBufferConfig, Config

\* Two steps before the desktop is drawn: the sizes of the screen stay.
SizesStay ==
  /\ config'.pixels_per_scan_line = Stride
  /\ config'.horizontal_resolution = Wide
  /\ config'.vertical_resolution = High

LEMMA FitsStays ==
  ASSUME SizesStay
  PROVE  /\ InBuffer(config)' <=> InBuffer(config)
         /\ Fits(config)' <=> Fits(config)
         /\ FrameBuffer(config)' = FrameBuffer(config)
BY DEF SizesStay, InBuffer, Fits, End, FrameBuffer, Stride, Wide, High

\* Whatever is done to the bytes of the frame buffer before the desktop is drawn, it is
\* a step of Picture before its first layer.
LEMMA BeforeRight ==
  ASSUME BootInv, SizesStay, config' \in Configs, pixel_writer' = "null",
         main = "ChooseWriter", main' = main, row' = row,
         DOMAIN bytes' = DOMAIN bytes, \A a \in DOMAIN bytes' : bytes'[a] \in 0 .. 255
  PROVE  IInv' /\ (Fits(config) => Screen!Next)
<1>1. IInv /\ config \in Configs
  BY DEF BootInv, IInv, TypeOK
<1>2. Inside'
  BY <1>1, FitsStays DEF IInv, Inside
<1>3. TypeOK'
  BY <1>1 DEF IInv, TypeOK
<1>4. IInv'
  BY <1>2, <1>3 DEF IInv, Writer, Progress
<1>5. ASSUME Fits(config) PROVE Screen!Before
  <2>1. Fits(config)'
    BY <1>5, FitsStays
  <2>2. PictureFits'
    BY <1>4, <2>1 DEF IInv, TypeOK, Inside, Sound, PictureFits
  <2>3. IsPicture'
    BY <2>2, PictureShownNext
  <2>4. LayersDrawn = 0 /\ LayersDrawn' = 0
    BY DEF LayersDrawn
  <2>5. Pixels' = Pixels
    BY DEF SizesStay, Pixels, Box, Wide, High
  <2> QED BY <2>3, <2>4, <2>5
     DEF Screen!Before, Screen!Pixel, Screen!Colour, SizesStay, IsPicture, Pixels, Box, Wide, High
<1> QED BY <1>4, <1>5 DEF Screen!Next

LEMMA BootStart == BootInit => BootInv /\ (Fits(config) => Screen!Init)
<1> SUFFICES ASSUME BootInit PROVE BootInv /\ (Fits(config) => Screen!Init)
  OBVIOUS
<1>1. PICK f \in Configs : mode = Config(f, FirstFormat) /\ config = mode
  BY DEF BootInit
<1>2. FirstFormat \in Ldr!Supported
  BY DEF FirstFormat, Ldr!Supported
<1>3. config \in Configs
  BY <1>1, <1>2, BootConfigs
<1>4. Init
  <2>1. bytes = [a \in FrameBuffer(config) |-> 0]
    BY <1>1 DEF BootInit
  <2>2. bytes \in [FrameBuffer(config) -> 0 .. 255]
    BY <2>1
  <2> QED BY <1>3, <2>2 DEF BootInit, Init
<1>5. config = Config(mode, config.pixel_format)
  BY <1>1, <1>3, DesktopConfigs DEF FrameBufferConfig, Config
<1>6. pc # "Kernel"
  BY DEF BootInit, Ldr!Init
<1>7. Called
  BY <1>1, <1>5, <1>6 DEF BootInit, Called
<1> QED BY <1>4, <1>7, InitRight, LoaderHolds DEF BootInit, BootInv

\* What a step of the whole machine does to the desktop.
BootRight ==
  /\ BootInv'
  /\ DrawsInside \/ UNCHANGED vars
  /\ (Fits(config) => Screen!Next) \/ UNCHANGED Screen!vars

\* Main.c:358-378 draws nothing, and hands over a config of this screen.
LEMMA CallKernelRight == ASSUME BootInv, CallKernel PROVE BootRight
<1>1. PICK f \in Configs : mode = Config(f, FirstFormat)
  BY DEF BootInv, Called
<1>2. config' = Config(mode, PixelFormat(format)) /\ UNCHANGED <<mode, pixel_writer, bytes, main, row>>
  BY DEF CallKernel
<1>3. PixelFormat(format) \in Ldr!Supported
  BY DEF PixelFormat, FirstFormat, Ldr!Supported
<1>4. pc = "CallKernel" /\ format' = format /\ (pc' = "Kernel" => format \in Ldr!Supported)
  BY DEF CallKernel, Ldr!CallKernel, Ldr!Call
<1>5. main = "ChooseWriter" /\ pixel_writer = "null" /\ row = 0
  BY <1>4 DEF BootInv, Called
<1>6. config' \in Configs /\ config'.pixel_format = PixelFormat(format)
  BY <1>1, <1>2, <1>3, ModeConfig
<1>7. SizesStay
  <2>1. f \in FrameBufferConfig /\ mode \in FrameBufferConfig
    <3>1. mode \in Configs
      BY <1>1, BootConfigs DEF FirstFormat, Ldr!Supported
    <3> QED BY <3>1, DesktopConfigs
  <2>2. config = Config(mode, config.pixel_format)
    BY DEF BootInv, Called
  <2> QED BY <1>2, <2>1, <2>2, SameSize DEF SizesStay, Stride, Wide, High
<1>8. LP!LoaderInv'
  BY LoaderHolds DEF BootInv, CallKernel, Ldr!Next, Ldr!Step
<1>9. \A a \in DOMAIN bytes : bytes[a] \in 0 .. 255
  BY DEF BootInv, IInv, TypeOK
<1>10. IInv' /\ (Fits(config) => Screen!Next)
  BY <1>2, <1>5, <1>6, <1>7, <1>9, BeforeRight
<1>11. Called'
  BY <1>1, <1>2, <1>4, <1>5, <1>6 DEF Called, PixelFormat
<1>12. DrawsInside
  BY <1>5 DEF DrawsInside
<1> QED BY <1>8, <1>10, <1>11, <1>12 DEF BootInv, BootRight

\* A step that is none of KernelMain's and leaves the screen as it is.
LEMMA Still == ASSUME IInv, UNCHANGED vars PROVE IInv' /\ UNCHANGED Screen!vars
<1>1. UNCHANGED <<config, pixel_writer, bytes, main, row>>
  BY DEF vars
<1>2. LayersDrawn' = LayersDrawn
  BY <1>1 DEF LayersDrawn
<1>3. \A p : Shows(config.pixel_format, bytes, p)' = Shows(config.pixel_format, bytes, p)
  BY <1>1 DEF Shows, Order
<1>4. UNCHANGED Screen!vars
  BY <1>1, <1>2, <1>3 DEF Screen!vars
<1> QED BY <1>4, NextRight

\* The loop and the firmware's text change bytes of the frame buffer, and nothing else.
LEMMA Painted ==
  ASSUME BootInv, Fill \/ FirmwarePrints
  PROVE  DOMAIN bytes' = DOMAIN bytes /\ \A a \in DOMAIN bytes' : bytes'[a] \in 0 .. 255
<1>1. \A a \in DOMAIN bytes : bytes[a] \in 0 .. 255
  BY DEF BootInv, IInv, TypeOK
<1>2. CASE bytes' = bytes
  BY <1>1, <1>2
<1>3. CASE bytes' = [a \in DOMAIN bytes |-> 255]
  BY <1>3
<1>4. ASSUME NEW m \in Marks, bytes' = [a \in DOMAIN bytes |-> IF a \in DOMAIN m THEN m[a] ELSE bytes[a]]
      PROVE  DOMAIN bytes' = DOMAIN bytes /\ \A a \in DOMAIN bytes' : bytes'[a] \in 0 .. 255
  BY <1>1, <1>4, BootMarks
<1> QED BY <1>2, <1>3, <1>4 DEF Fill, FirmwarePrints

LEMMA LoadingRight == ASSUME BootInv, Loading PROVE BootRight
<1>1. /\ Ldr!Next /\ pc # "CallKernel"
      /\ IF pc = "FillScreen" /\ pc' # pc THEN Fill ELSE FirmwarePrints
      /\ UNCHANGED <<mode, config, pixel_writer, main, row>>
  BY DEF Loading, LoaderStep
<1>2. LP!LoaderInv'
  BY <1>1, LoaderHolds DEF BootInv
<1>3. /\ format' = format /\ (pc = "Kernel" => pc' = "Kernel")
      /\ (pc # "Kernel" => pc' # "Kernel")
  BY <1>1, LoaderKeeps DEF BootInv
<1>4. Called'
  BY <1>1, <1>3 DEF BootInv, Called
<1>5. CASE pc = "Kernel"
  <2>1. ~boot
    BY <1>5 DEF BootInv, LP!LoaderInv, LP!Services
  <2>2. UNCHANGED vars
    BY <1>1, <1>5, <2>1 DEF FirmwarePrints, vars
  <2>3. IInv' /\ UNCHANGED Screen!vars
    BY <2>2, Still DEF BootInv
  <2> QED BY <1>2, <1>4, <2>2, <2>3 DEF BootInv, BootRight
<1>6. CASE pc # "Kernel"
  <2>1. main = "ChooseWriter" /\ pixel_writer = "null" /\ config \in Configs
    BY <1>6 DEF BootInv, Called, IInv, TypeOK
  <2>2. SizesStay
    BY <1>1 DEF SizesStay, Stride, Wide, High
  <2>3. DOMAIN bytes' = DOMAIN bytes /\ \A a \in DOMAIN bytes' : bytes'[a] \in 0 .. 255
    BY <1>1, Painted
  <2>4. IInv' /\ (Fits(config) => Screen!Next)
    BY <1>1, <2>1, <2>2, <2>3, BeforeRight
  <2>5. DrawsInside
    BY <2>1 DEF DrawsInside
  <2> QED BY <1>2, <1>4, <2>4, <2>5 DEF BootInv, BootRight
<1> QED BY <1>5, <1>6

\* KernelMain does not change its config.
LEMMA ConfigStays == ASSUME Next PROVE config' = config
BY DEF Next, ChooseWriter, Background, Bar, Button, Icon, Welcome, Cursor, Line, Draw

LEMMA KernelMainRight == ASSUME BootInv, KernelMain PROVE BootRight
<1>1. pc = "Kernel" /\ Next /\ UNCHANGED <<loaderVars, mode>>
  BY DEF KernelMain
<1>2. LP!LoaderInv'
  BY <1>1, LoaderHolds DEF BootInv
<1>3. /\ IInv' /\ (DrawsInside \/ UNCHANGED vars)
      /\ (Fits(config) => Screen!Next) \/ UNCHANGED Screen!vars
  BY <1>1, NextRight DEF BootInv
<1>4. Called'
  BY <1>1, ConfigStays DEF BootInv, Called, loaderVars
<1> QED BY <1>2, <1>3, <1>4 DEF BootInv, BootRight

LEMMA BootStep ==
  BootInv /\ [BootNext]_bootVars =>
    BootInv' /\ [DrawsInside]_vars /\ [Fits(config) => Screen!Next]_(Screen!vars)
<1> SUFFICES ASSUME BootInv, [BootNext]_bootVars PROVE BootRight
  BY DEF BootRight
<1>1. CASE UNCHANGED bootVars
  <2>1. LP!LoaderInv'
    BY <1>1, LoaderHolds DEF BootInv, bootVars
  <2>2. IInv' /\ UNCHANGED vars /\ UNCHANGED Screen!vars
    BY <1>1, Still DEF BootInv, bootVars
  <2>3. Called'
    BY <1>1 DEF BootInv, Called, bootVars, loaderVars, vars
  <2> QED BY <2>1, <2>2, <2>3 DEF BootInv, BootRight
<1> QED BY <1>1, CallKernelRight, LoadingRight, KernelMainRight DEF BootNext

-----------------------------------------------------------------------------
(***************************************************************************)
(* The theorems about the machine from power on                            *)
(***************************************************************************)

\* Seen by the loader, the machine does what UefiMain does, step by step: the kernel
\* touches none of its state, so what LoaderProofs shows holds from power on.
THEOREM BootLoads == BootSpec => Ldr!Init /\ [][Ldr!Next]_(Ldr!vars)
<1>1. BootInit => Ldr!Init
  BY DEF BootInit
<1>2. [BootNext]_bootVars => [Ldr!Next]_(Ldr!vars)
  BY DEF BootNext, Loading, LoaderStep, CallKernel, KernelMain, Ldr!Next, Ldr!Step, bootVars,
     loaderVars, Ldr!vars
<1> QED BY <1>1, <1>2, PTL DEF BootSpec

\* When KernelMain comes to draw, its config describes the screen the firmware set up,
\* it has the writer of that screen's format (main.cc:78-89, no default), its image is
\* in place and the boot services are left.
THEOREM WriterAtHand == BootSpec => []KernelHasWriter
<1>1. BootInv => KernelHasWriter
  <2> SUFFICES ASSUME BootInv, main # "ChooseWriter"
               PROVE  /\ config = Config(mode, format) /\ pixel_writer = format
                      /\ image = "placed" /\ ~boot
    BY DEF KernelHasWriter
  <2>1. pc = "Kernel" /\ config = Config(mode, format) /\ format \in Ldr!Supported
    BY DEF BootInv, Called
  <2>2. image = "placed" /\ ~boot
    BY <2>1 DEF BootInv, LP!LoaderInv, LP!Services, LP!File, LP!Placed
  <2>3. config.pixel_format = format
    <3>1. PICK f \in Configs : mode = Config(f, FirstFormat)
      BY DEF BootInv, Called
    <3> QED BY <2>1, <3>1, ModeConfig
  <2>4. pixel_writer = format
    BY <2>1, <2>3 DEF BootInv, IInv, TypeOK, Writer, WriteOrder, Ldr!Supported
  <2> QED BY <2>1, <2>2, <2>4
<1> QED BY <1>1, BootStart, BootStep, PTL DEF BootSpec

\* From power on: KernelMain draws inside the frame buffer the loader describes, and
\* leaves the padding and the unused bytes as the loader's loop (Main.c:266-269) and the
\* firmware's console have left them.
THEOREM BootOnScreen == BootSpec => OnScreen
BY BootStart, BootStep, PTL DEF BootSpec, OnScreen

\* From power on, the frame buffer of a screen that everything fits on shows the layers
\* of the desktop in their order, over what the loader and the firmware have left there.
THEOREM BootShown == BootSpec => ShowsDesktop
BY BootStart, BootStep, PTL DEF BootSpec, ShowsDesktop

\* The types of the kernel's state, from power on: above all, the config the loader
\* hands over is one of the screens.
THEOREM BootTypes == BootSpec => []TypeOK
<1>1. BootInv => TypeOK
  BY DEF BootInv, IInv
<1> QED BY <1>1, BootStart, BootStep, PTL DEF BootSpec
=============================================================================
