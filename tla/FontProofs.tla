----------------------------- MODULE FontProofs -----------------------------
(***************************************************************************)
(* The glyphs, for every size of a glyph and every font file: what the     *)
(* kernel draws is the picture in the file, dot for dot.                   *)
(*                                                                         *)
(* Packed, compile and the powers of two are recursive functions.  That    *)
(* there is a function that satisfies their equations, and what it         *)
(* returns, takes induction; Induction is the principle for sets of        *)
(* numbers, from the well-foundedness of <, and Recursion gives the        *)
(* functions.                                                              *)
(***************************************************************************)
EXTENDS FontFile, WellFoundedInduction, TLAPS

-----------------------------------------------------------------------------
(***************************************************************************)
(* Induction and recursion                                                 *)
(***************************************************************************)
LEMMA LeastNumber ==
  ASSUME NEW S, S \subseteq Nat, S # {}
  PROVE  \E n \in S : \A m \in S : n <= m
<1> DEFINE R == OpToRel(<, Nat)
<1>1. IsWellFoundedOn(R, Nat)
  BY NatLessThanWellFounded
<1>2. \A x, y \in Nat : x < y => <<x, y>> \in R
  BY DEF OpToRel
<1> HIDE DEF R
<1>3. PICK n \in S : \A m \in S : ~(<<m, n>> \in R)
  BY ONLY <1>1, WFMin, S \subseteq Nat, S # {}, Zenon
<1>4. \A m \in S : m \in Nat /\ n \in Nat /\ ~(m < n)
  BY <1>2, <1>3
<1> QED BY <1>4

LEMMA Induction ==
  ASSUME NEW first \in Nat, NEW S,
         first \in S, \A n \in Nat : n >= first /\ n \in S => n + 1 \in S
  PROVE  \A n \in Nat : n >= first => n \in S
<1> DEFINE T == {n \in Nat : n >= first /\ n \notin S}
<1> SUFFICES ASSUME T # {} PROVE FALSE
  OBVIOUS
<1>1. T \subseteq Nat
  OBVIOUS
<1> HIDE DEF T
<1>2. PICK n \in T : \A m \in T : n <= m
  BY <1>1, LeastNumber
<1> USE DEF T
<1>3. n # first
  BY <1>2
<1>4. n - 1 \in Nat /\ n - 1 >= first /\ n - 1 \notin T
  BY <1>2, <1>3
<1>5. n - 1 \in S
  BY <1>4
<1>6. (n - 1) + 1 \in S
  BY <1>4, <1>5
<1> QED BY <1>2, <1>6

\* f has the values v0, step[0, v0], step[1, step[0, v0]] and so on.
Iterates(f, V, v0, step) ==
  f \in [Nat -> V] /\ f[0] = v0 /\ \A n \in Nat : f[n + 1] = step[<<n, f[n]>>]

LEMMA Recursion ==
  ASSUME NEW V, NEW v0 \in V, NEW step \in [Nat \X V -> V]
  PROVE  \E f : Iterates(f, V, v0, step)
<1> DEFINE G(n) == {g \in [0 .. n -> V] : g[0] = v0 /\ \A k \in 0 .. n - 1 : g[k + 1] = step[<<k, g[k]>>]}
<1>1. \A n \in Nat : G(n) # {}
  <2> DEFINE S == {n \in Nat : G(n) # {}}
  <2>1. 0 \in S
    <3>1. [k \in 0 .. 0 |-> v0] \in G(0)
      OBVIOUS
    <3> QED BY <3>1
  <2>2. ASSUME NEW n \in Nat, n \in S PROVE n + 1 \in S
    <3>1. PICK g \in G(n) : TRUE
      BY <2>2
    <3> DEFINE h == [k \in 0 .. n + 1 |-> IF k <= n THEN g[k] ELSE step[<<n, g[n]>>]]
    <3>2. h \in [0 .. n + 1 -> V]
      <4>1. g[n] \in V
        BY <3>1
      <4>2. step[<<n, g[n]>>] \in V
        BY <4>1
      <4> QED BY <3>1, <4>2
    <3>3. h[0] = v0
      BY <3>1
    <3>4. \A k \in 0 .. n : h[k + 1] = step[<<k, h[k]>>]
      <4>1. \A k \in 0 .. n - 1 : h[k + 1] = g[k + 1] /\ h[k] = g[k]
        OBVIOUS
      <4>2. h[n + 1] = step[<<n, g[n]>>] /\ h[n] = g[n]
        OBVIOUS
      <4>3. \A k \in 0 .. n - 1 : g[k + 1] = step[<<k, g[k]>>]
        BY <3>1
      <4> HIDE DEF h, G
      <4>4. \A k \in 0 .. n : k = n \/ k \in 0 .. n - 1
        OBVIOUS
      <4> QED BY <4>1, <4>2, <4>3, <4>4
    <3> HIDE DEF h
    <3>5. h \in G(n + 1)
      BY <3>2, <3>3, <3>4
    <3> QED BY <3>5
  <2> HIDE DEF S
  <2>3. \A n \in Nat : n >= 0 => n \in S
    BY <2>1, <2>2, Induction
  <2> QED BY <2>3 DEF S
<1>2. \A n \in Nat : \A g \in G(n), h \in G(n + 1) : \A k \in 0 .. n : g[k] = h[k]
  <2> SUFFICES ASSUME NEW n \in Nat, NEW g \in G(n), NEW h \in G(n + 1)
               PROVE  \A k \in 0 .. n : g[k] = h[k]
    OBVIOUS
  <2> DEFINE S == {k \in Nat : k <= n => g[k] = h[k]}
  <2>1. 0 \in S
    OBVIOUS
  <2>2. ASSUME NEW k \in Nat, k \in S PROVE k + 1 \in S
    <3> SUFFICES ASSUME k + 1 <= n PROVE g[k + 1] = h[k + 1]
      OBVIOUS
    <3>1. g[k] = h[k] /\ k \in 0 .. n - 1 /\ k \in 0 .. (n + 1) - 1
      BY <2>2
    <3>2. g[k + 1] = step[<<k, g[k]>>]
      BY <3>1
    <3>3. h[k + 1] = step[<<k, h[k]>>]
      BY <3>1
    <3> QED BY <3>1, <3>2, <3>3
  <2> HIDE DEF S, G
  <2>3. \A k \in Nat : k >= 0 => k \in S
    BY <2>1, <2>2, Induction
  <2> QED BY <2>3 DEF S
<1> DEFINE At(n) == CHOOSE g \in G(n) : TRUE
           f == [n \in Nat |-> At(n)[n]]
<1>3. \A n \in Nat : At(n) \in G(n)
  BY <1>1
<1>4. ASSUME NEW n \in Nat
      PROVE  /\ At(n) \in [0 .. n -> V] /\ At(n)[0] = v0
             /\ \A k \in 0 .. n - 1 : At(n)[k + 1] = step[<<k, At(n)[k]>>]
  <2> HIDE DEF At
  <2>1. At(n) \in G(n)
    BY <1>3
  <2> QED BY <2>1
<1>5. \A n \in Nat : At(n)[n] = At(n + 1)[n]
  <2> HIDE DEF At, G
  <2>1. \A n \in Nat : n + 1 \in Nat /\ n \in 0 .. n
    OBVIOUS
  <2> QED BY <1>2, <1>3, <2>1
<1> HIDE DEF At, G
<1>6. f \in [Nat -> V]
  <2>1. \A n \in Nat : At(n)[n] \in V
    BY <1>4
  <2> QED BY <2>1
<1>7. f[0] = v0
  BY <1>4
<1>8. ASSUME NEW n \in Nat PROVE f[n + 1] = step[<<n, f[n]>>]
  <2>1. At(n + 1)[n + 1] = step[<<n, At(n + 1)[n]>>]
    <3>1. n + 1 \in Nat /\ n \in 0 .. (n + 1) - 1
      OBVIOUS
    <3> QED BY <1>4, <3>1
  <2>2. f[n + 1] = At(n + 1)[n + 1] /\ f[n] = At(n)[n]
    OBVIOUS
  <2> HIDE DEF f
  <2> QED BY <1>5, <2>1, <2>2
<1> HIDE DEF f
<1>9. Iterates(f, V, v0, step)
  BY <1>6, <1>7, <1>8 DEF Iterates
<1> QED BY <1>9

-----------------------------------------------------------------------------
(***************************************************************************)
(* Powers of two                                                           *)
(***************************************************************************)
LEMMA PowerSteps ==
  /\ PowerOfTwo[0] = 1
  /\ \A n \in Nat : PowerOfTwo[n + 1] = 2 * PowerOfTwo[n] /\ PowerOfTwo[n] \in Nat \ {0}
<1> DEFINE step == [x \in Nat \X Nat |-> 2 * x[2]]
           Equation(f) == f = [n \in Nat |-> IF n = 0 THEN 1 ELSE 2 * f[n - 1]]
<1>1. PICK f : Iterates(f, Nat, 1, step)
  <2>1. step \in [Nat \X Nat -> Nat] /\ 1 \in Nat
    OBVIOUS
  <2> HIDE DEF step
  <2> QED BY ONLY <2>1, Recursion, Zenon
<1>2. \A n \in Nat : f[n + 1] = 2 * f[n]
  <2>1. \A n \in Nat : <<n, f[n]>> \in Nat \X Nat
    BY <1>1 DEF Iterates
  <2> QED BY <1>1, <2>1 DEF Iterates
<1>3. Equation(f)
  <2>1. \A n \in Nat : n # 0 => n - 1 \in Nat /\ (n - 1) + 1 = n
    OBVIOUS
  <2>2. \A n \in Nat : f[n] = IF n = 0 THEN 1 ELSE 2 * f[n - 1]
    BY <1>1, <1>2, <2>1 DEF Iterates
  <2> QED BY <1>1, <2>2 DEF Iterates
<1>4. Equation(PowerOfTwo)
  <2>1. PowerOfTwo = CHOOSE g : Equation(g)
    BY DEF PowerOfTwo
  <2> HIDE DEF Equation
  <2> QED BY <1>3, <2>1
<1>5. /\ PowerOfTwo[0] = 1
      /\ \A n \in Nat : PowerOfTwo[n + 1] = 2 * PowerOfTwo[n]
  <2>1. \A n \in Nat : PowerOfTwo[n] = IF n = 0 THEN 1 ELSE 2 * PowerOfTwo[n - 1]
    BY <1>4
  <2>2. \A n \in Nat : n + 1 \in Nat /\ n + 1 # 0 /\ (n + 1) - 1 = n
    OBVIOUS
  <2> QED BY <2>1, <2>2
<1> DEFINE S == {n \in Nat : PowerOfTwo[n] \in Nat \ {0}}
<1>6. 0 \in S
  BY <1>5
<1>7. \A n \in Nat : n \in S => n + 1 \in S
  BY <1>5
<1> HIDE DEF S
<1>8. \A n \in Nat : n >= 0 => n \in S
  BY <1>6, <1>7, Induction
<1> QED BY <1>5, <1>8 DEF S

LEMMA PowerSum ==
  ASSUME NEW m \in Nat
  PROVE  \A n \in Nat : PowerOfTwo[m + n] = PowerOfTwo[m] * PowerOfTwo[n]
<1> DEFINE S == {n \in Nat : PowerOfTwo[m + n] = PowerOfTwo[m] * PowerOfTwo[n]}
<1>1. 0 \in S
  BY PowerSteps
<1>2. ASSUME NEW n \in Nat, n \in S PROVE n + 1 \in S
  <2> DEFINE a == PowerOfTwo[m]
             b == PowerOfTwo[n]
  <2>1. PowerOfTwo[m + n] = a * b /\ a \in Nat /\ b \in Nat
    BY <1>2, PowerSteps
  <2>2. PowerOfTwo[(m + n) + 1] = 2 * PowerOfTwo[m + n] /\ PowerOfTwo[n + 1] = 2 * b
    BY PowerSteps
  <2>3. (m + n) + 1 = m + (n + 1)
    OBVIOUS
  <2> HIDE DEF a, b
  <2>4. 2 * (a * b) = a * (2 * b)
    BY <2>1
  <2> QED BY <2>1, <2>2, <2>3, <2>4 DEF a
<1> HIDE DEF S
<1>3. \A n \in Nat : n >= 0 => n \in S
  BY <1>1, <1>2, Induction
<1> QED BY <1>3 DEF S

LEMMA PowerMonotone ==
  ASSUME NEW m \in Nat, NEW n \in Nat, m <= n
  PROVE  PowerOfTwo[m] <= PowerOfTwo[n]
<1> DEFINE a == PowerOfTwo[m]
           b == PowerOfTwo[n - m]
<1>1. n - m \in Nat /\ m + (n - m) = n
  OBVIOUS
<1>2. PowerOfTwo[n] = a * b /\ a \in Nat /\ b \in Nat \ {0}
  <2>1. PowerOfTwo[m + (n - m)] = a * b
    BY <1>1, PowerSum
  <2>2. a \in Nat /\ b \in Nat \ {0}
    BY <1>1, PowerSteps
  <2> QED BY <1>1, <2>1, <2>2
<1> HIDE DEF a, b
<1>3. a <= a * b
  BY <1>2
<1> QED BY <1>2, <1>3 DEF a

-----------------------------------------------------------------------------
(***************************************************************************)
(* The packing of a line                                                   *)
(***************************************************************************)
\* A function that satisfies the equations of Packed.
Packs(dots, value) ==
  value = [n \in 0 .. Len(dots) |-> IF n = 0 THEN 0 ELSE 2 * value[n - 1] + Bit(dots, n)]

Accumulates(dots, value) ==
  /\ value \in [0 .. Len(dots) -> Nat] /\ value[0] = 0
  /\ \A n \in 0 .. Len(dots) - 1 : value[n + 1] = 2 * value[n] + Bit(dots, n + 1)

LEMMA PackedValue ==
  ASSUME NEW dots, Len(dots) \in Nat
  PROVE  \E value : Accumulates(dots, value) /\ Packed(dots) = value[Len(dots)]
<1> DEFINE L == Len(dots)
           step == [x \in Nat \X Nat |-> 2 * x[2] + Bit(dots, x[1] + 1)]
<1>0. \A n : Bit(dots, n) \in {0, 1}
  BY DEF Bit
<1>1. PICK f : Iterates(f, Nat, 0, step)
  <2>1. step \in [Nat \X Nat -> Nat] /\ 0 \in Nat
    BY <1>0
  <2> HIDE DEF step
  <2> QED BY ONLY <2>1, Recursion, Zenon
<1>2. \A n \in Nat : f[n + 1] = 2 * f[n] + Bit(dots, n + 1)
  <2>1. \A n \in Nat : <<n, f[n]>> \in Nat \X Nat
    BY <1>1 DEF Iterates
  <2> QED BY <1>1, <2>1 DEF Iterates
<1> DEFINE g == [n \in 0 .. L |-> f[n]]
<1>3. Packs(dots, g)
  <2>1. \A n \in 0 .. L : n # 0 => n - 1 \in 0 .. L /\ n - 1 \in Nat /\ (n - 1) + 1 = n
    OBVIOUS
  <2>2. \A n \in 0 .. L : g[n] = IF n = 0 THEN 0 ELSE 2 * g[n - 1] + Bit(dots, n)
    BY <1>1, <1>2, <2>1 DEF Iterates
  <2> QED BY <2>2 DEF Packs
<1> DEFINE value == CHOOSE v : Packs(dots, v)
<1>4. Packs(dots, value)
  BY <1>3
<1>5. Packed(dots) = value[L]
  BY DEF Packed, Packs
<1> HIDE DEF value
<1>6. /\ DOMAIN value = 0 .. L /\ value = [n \in 0 .. L |-> value[n]]
      /\ \A n \in 0 .. L : value[n] = IF n = 0 THEN 0 ELSE 2 * value[n - 1] + Bit(dots, n)
  BY <1>4 DEF Packs
<1>7. /\ value[0] = 0
      /\ \A n \in 0 .. L - 1 : value[n + 1] = 2 * value[n] + Bit(dots, n + 1)
  <2>1. 0 \in 0 .. L
    OBVIOUS
  <2>2. \A n \in 0 .. L - 1 : n + 1 \in 0 .. L /\ n + 1 # 0 /\ (n + 1) - 1 = n
    OBVIOUS
  <2> QED BY <1>6, <2>1, <2>2
<1> DEFINE S == {n \in Nat : n <= L => value[n] \in Nat}
<1>8. 0 \in S
  BY <1>7
<1>9. ASSUME NEW n \in Nat, n \in S PROVE n + 1 \in S
  <2> SUFFICES ASSUME n + 1 <= L PROVE value[n + 1] \in Nat
    OBVIOUS
  <2>1. n \in 0 .. L - 1 /\ value[n] \in Nat
    BY <1>9
  <2>2. value[n + 1] = 2 * value[n] + Bit(dots, n + 1)
    BY <1>7, <2>1
  <2>3. Bit(dots, n + 1) \in {0, 1}
    BY <1>0
  <2> HIDE DEF L
  <2> QED BY <2>1, <2>2, <2>3
<1> HIDE DEF S
<1>10. \A n \in Nat : n >= 0 => n \in S
  BY <1>8, <1>9, Induction
<1> USE DEF S
<1>11. value \in [0 .. L -> Nat]
  BY <1>6, <1>10
<1> QED BY <1>5, <1>7, <1>11 DEF Accumulates

\* What the accumulator has after n of the bits: the bits after the first m are its last
\* n - m, and the bit after those m is the highest of them.
LEMMA Digits ==
  ASSUME NEW dots, Len(dots) \in Nat, NEW value, Accumulates(dots, value),
         NEW m \in 0 .. Len(dots)
  PROVE  \A n \in m .. Len(dots) : \E rest \in Nat :
           /\ value[n] = value[m] * PowerOfTwo[n - m] + rest
           /\ rest < PowerOfTwo[n - m]
           /\ n > m => (rest >= PowerOfTwo[n - m - 1] <=> dots[m + 1] # ".")
<1> DEFINE L == Len(dots)
<1>a. /\ L \in Nat /\ m \in 0 .. L /\ value \in [0 .. L -> Nat]
      /\ \A n \in 0 .. L - 1 : value[n + 1] = 2 * value[n] + Bit(dots, n + 1)
  BY DEF Accumulates
<1> HIDE DEF L
<1> DEFINE Rest(n, rest) == /\ value[n] = value[m] * PowerOfTwo[n - m] + rest
                            /\ rest < PowerOfTwo[n - m]
                            /\ n > m => (rest >= PowerOfTwo[n - m - 1] <=> dots[m + 1] # ".")
           S == {n \in Nat : n <= L => \E rest \in Nat : Rest(n, rest)}
<1>0. m \in Nat /\ value[m] \in Nat
  BY <1>a
<1>1. m \in S
  <2>1. m - m = 0 /\ PowerOfTwo[0] = 1
    BY <1>0, PowerSteps
  <2>2. Rest(m, 0)
    BY <1>0, <2>1
  <2> QED BY <1>0, <2>2
<1>2. ASSUME NEW n \in Nat, n >= m, n \in S PROVE n + 1 \in S
  <2> SUFFICES ASSUME n + 1 <= L PROVE \E rest \in Nat : Rest(n + 1, rest)
    OBVIOUS
  <2>1. PICK rest \in Nat : Rest(n, rest)
    <3>1. n <= L
      BY <1>a
    <3> HIDE DEF Rest
    <3> QED BY <1>2, <3>1
  <2> DEFINE b == Bit(dots, n + 1)
             p == PowerOfTwo[n - m]
             v == value[m]
  <2>2. b \in {0, 1} /\ (b = 1 <=> dots[n + 1] # ".")
    BY DEF Bit
  <2>3. value[n + 1] = 2 * value[n] + b
    <3>1. n \in 0 .. L - 1
      BY <1>0, <1>a
    <3> QED BY <1>a, <3>1
  <2>4. n - m \in Nat /\ (n + 1) - m = (n - m) + 1 /\ (n + 1) - m - 1 = n - m
    BY <1>0, <1>2
  <2>5. PowerOfTwo[(n + 1) - m] = 2 * p /\ p \in Nat \ {0}
    BY <2>4, PowerSteps
  <2>6. value[n] = v * p + rest /\ rest < p /\ v \in Nat
    BY <1>0, <2>1
  <2>7. 2 * rest + b >= p <=> dots[m + 1] # "."
    <3>1. CASE n = m
      <4>1. p = 1
        BY <1>0, <3>1, PowerSteps
      <4>2. rest = 0
        BY <2>1, <2>6, <4>1
      <4> HIDE DEF b, p
      <4>3. 2 * rest + b >= p <=> b = 1
        BY <2>2, <4>1, <4>2
      <4> QED BY <2>2, <3>1, <4>3
    <3>2. CASE n > m
      <4>1. n - m - 1 \in Nat /\ (n - m - 1) + 1 = n - m
        BY <1>0, <3>2
      <4> DEFINE half == PowerOfTwo[n - m - 1]
      <4>2. p = 2 * half /\ half \in Nat
        BY <4>1, PowerSteps
      <4>3. rest >= half <=> dots[m + 1] # "."
        BY <2>1, <3>2
      <4> HIDE DEF b, p, half
      <4>4. 2 * rest + b >= p <=> rest >= half
        BY <2>2, <4>2
      <4> QED BY <4>3, <4>4
    <3> QED BY <1>0, <1>2, <3>1, <3>2
  <2> HIDE DEF b, p, v
  <2>8. value[n + 1] = v * (2 * p) + (2 * rest + b)
    <3>1. 2 * (v * p) = v * (2 * p)
      BY <2>5, <2>6
    <3> QED BY <2>2, <2>3, <2>5, <2>6, <3>1
  <2>9. 2 * rest + b < 2 * p /\ 2 * rest + b \in Nat
    BY <2>2, <2>5, <2>6
  <2>10. Rest(n + 1, 2 * rest + b)
    BY <2>4, <2>5, <2>7, <2>8, <2>9 DEF p, v
  <2> QED BY <2>9, <2>10
<1> HIDE DEF S
<1>3. \A n \in Nat : n >= m => n \in S
  BY <1>0, <1>1, <1>2, Induction
<1> QED BY <1>0, <1>3, <1>a DEF S, L

\* The number packed from some dots has no more bits than there are dots.
LEMMA PackedBound ==
  ASSUME NEW dots, Len(dots) \in Nat
  PROVE  Packed(dots) \in Nat /\ Packed(dots) < PowerOfTwo[Len(dots)]
<1> DEFINE L == Len(dots)
<1>1. PICK value : Accumulates(dots, value) /\ Packed(dots) = value[L]
  BY PackedValue
<1>2. 0 \in 0 .. L /\ L \in 0 .. L /\ L - 0 = L
  OBVIOUS
<1>3. value[0] = 0
  BY <1>1 DEF Accumulates
<1>4. \A n \in 0 .. L : \E rest \in Nat :
        /\ value[n] = value[0] * PowerOfTwo[n - 0] + rest
        /\ rest < PowerOfTwo[n - 0]
  BY <1>1, <1>2, Digits
<1>5. PowerOfTwo[L] \in Nat
  BY PowerSteps
<1> HIDE DEF L
<1>6. PICK rest \in Nat : /\ value[L] = value[0] * PowerOfTwo[L - 0] + rest
                          /\ rest < PowerOfTwo[L - 0]
  BY <1>2, <1>4
<1> QED BY <1>1, <1>2, <1>3, <1>5, <1>6 DEF L

LEMMA Remainder ==
  ASSUME NEW m \in Nat \ {0}, NEW q \in Int, NEW r \in 0 .. m - 1
  PROVE  (q * m + r) % m = r
<1>1. (m * q + r) % m = r
  OBVIOUS
<1> QED BY <1>1

\* The kernel finds a dot of a picture where makefont.py has put it.
LEMMA BitOfDot ==
  ASSUME NEW dots, Len(dots) = GlyphWidth, NEW dx \in 0 .. GlyphWidth - 1
  PROVE  BitShown(Packed(dots), dx) <=> dots[dx + 1] # "."
<1> DEFINE W == GlyphWidth
           high == PowerOfTwo[dx]
           low  == PowerOfTwo[W - dx]
           half == PowerOfTwo[W - dx - 1]
<1>1. W \in Nat \ {0} /\ dx \in Nat /\ W - dx \in Nat /\ W - dx - 1 \in Nat /\ W - 1 \in Nat
  BY FontSizes
<1>2. PICK value : Accumulates(dots, value) /\ Packed(dots) = value[W]
  BY <1>1, PackedValue
<1>3. PICK rest \in Nat : /\ value[W] = value[dx] * PowerOfTwo[W - dx] + rest
                          /\ rest < PowerOfTwo[W - dx]
                          /\ W > dx => (rest >= PowerOfTwo[W - dx - 1] <=> dots[dx + 1] # ".")
  <2>1. dx \in 0 .. W /\ W \in dx .. W
    BY <1>1
  <2>2. \A n \in dx .. W : \E rest \in Nat :
          /\ value[n] = value[dx] * PowerOfTwo[n - dx] + rest
          /\ rest < PowerOfTwo[n - dx]
          /\ n > dx => (rest >= PowerOfTwo[n - dx - 1] <=> dots[dx + 1] # ".")
    <3>1. dx \in 0 .. Len(dots) /\ Len(dots) \in Nat
      BY <1>1, <2>1
    <3>2. Accumulates(dots, value)
      BY <1>2
    <3>3. \A n \in dx .. Len(dots) : \E rest \in Nat :
            /\ value[n] = value[dx] * PowerOfTwo[n - dx] + rest
            /\ rest < PowerOfTwo[n - dx]
            /\ n > dx => (rest >= PowerOfTwo[n - dx - 1] <=> dots[dx + 1] # ".")
      BY ONLY <3>1, <3>2, Digits, ZenonT(30)
    <3> QED BY <3>3
  <2> QED BY <2>1, <2>2
<1>4. high \in Nat \ {0} /\ low \in Nat \ {0} /\ half \in Nat \ {0}
  BY <1>1, PowerSteps
<1>5. ByteModulus = high * low
  <2>1. dx + (W - dx) = W
    BY <1>1
  <2> QED BY <1>1, <2>1, PowerSum DEF ByteModulus
<1>6. PowerOfTwo[W - 1] = high * half
  <2>1. dx + (W - dx - 1) = W - 1
    BY <1>1
  <2> QED BY <1>1, <2>1, PowerSum
<1>7. value[dx] \in Nat
  <2>1. dx \in 0 .. Len(dots)
    BY <1>1
  <2> QED BY <1>2, <2>1 DEF Accumulates
<1>8. /\ rest < low /\ value[W] = value[dx] * low + rest
      /\ rest >= half <=> dots[dx + 1] # "."
  BY <1>1, <1>3
<1> DEFINE v == value[dx]
<1> HIDE DEF W, high, low, half, v
<1>9. Packed(dots) * high = v * (high * low) + high * rest
  <2>1. v \in Nat /\ Packed(dots) = v * low + rest
    BY <1>2, <1>7, <1>8 DEF v
  <2>2. (v * low + rest) * high = v * (high * low) + high * rest
    BY <1>4, <2>1
  <2> QED BY <2>1, <2>2
<1>10. high * rest \in 0 .. high * low - 1
  <2>1. high * rest < high * low
    BY <1>4, <1>8
  <2> QED BY <1>4, <2>1
<1>11. (Packed(dots) * high) % ByteModulus = high * rest
  <2>1. high * low \in Nat \ {0}
    BY <1>4
  <2>2. v \in Int
    BY <1>7 DEF v
  <2> QED BY <1>5, <1>9, <1>10, <2>1, <2>2, Remainder
<1>12. high * rest >= high * half <=> rest >= half
  BY <1>4
<1> QED BY <1>6, <1>8, <1>11, <1>12 DEF BitShown, W, high

-----------------------------------------------------------------------------
(***************************************************************************)
(* The lines of a font file and the bytes made from them                   *)
(***************************************************************************)
\* n is a length of the longest prefix of dots.
IsPrefixOfDots(line, n) ==
  /\ n \in 0 .. Len(line)
  /\ \A k \in 1 .. n : line[k] \in Dots
  /\ n < Len(line) => line[n + 1] \notin Dots

LEMMA MatchedPrefix ==
  ASSUME NEW line, NEW n, IsPrefixOfDots(line, n), \A k : IsPrefixOfDots(line, k) => k = n
  PROVE  Matched(line) = SubSeq(line, 1, n)
<1> DEFINE Good(k) == /\ \A j \in 1 .. k : line[j] \in Dots
                      /\ k < Len(line) => line[k + 1] \notin Dots
           chosen == CHOOSE k \in 0 .. Len(line) : Good(k)
<1>1. \A k : IsPrefixOfDots(line, k) <=> k \in 0 .. Len(line) /\ Good(k)
  BY DEF IsPrefixOfDots
<1>2. Matched(line) = SubSeq(line, 1, chosen)
  BY DEF Matched
<1> HIDE DEF Good
<1>3. chosen \in 0 .. Len(line) /\ Good(chosen)
  BY <1>1
<1> HIDE DEF chosen
<1> QED BY <1>1, <1>2, <1>3

LEMMA MatchedDots == ASSUME NEW line \in Seq(Dots) PROVE Matched(line) = line
<1>1. IsPrefixOfDots(line, Len(line))
  BY DEF IsPrefixOfDots
<1>2. ASSUME NEW k, IsPrefixOfDots(line, k) PROVE k = Len(line)
  <2>1. k < Len(line) => line[k + 1] \in Dots
    BY <1>2 DEF IsPrefixOfDots
  <2> QED BY <1>2, <2>1 DEF IsPrefixOfDots
<1>3. Matched(line) = SubSeq(line, 1, Len(line))
  BY <1>1, <1>2, MatchedPrefix
<1>4. SubSeq(line, 1, Len(line)) = line
  OBVIOUS
<1> QED BY <1>3, <1>4

LEMMA MatchedNothing ==
  ASSUME NEW S, NEW line \in Seq(S), line # <<>> => line[1] \notin Dots
  PROVE  Matched(line) = <<>>
<1>0. Len(line) \in Nat /\ (line = <<>> <=> Len(line) = 0)
  OBVIOUS
<1>1. IsPrefixOfDots(line, 0)
  BY <1>0 DEF IsPrefixOfDots
<1>2. ASSUME NEW k, IsPrefixOfDots(line, k) PROVE k = 0
  <2>1. k \in 0 .. Len(line) /\ (k # 0 => line[1] \in Dots)
    BY <1>0, <1>2 DEF IsPrefixOfDots
  <2> QED BY <1>0, <2>1
<1>3. Matched(line) = SubSeq(line, 1, 0)
  BY <1>1, <1>2, MatchedPrefix
<1> QED BY <1>3

\* What makefont.py has in its list after each line.
Collects(src, result) ==
  /\ result \in [0 .. Len(src) -> Seq(Nat)] /\ result[0] = <<>>
  /\ \A n \in 0 .. Len(src) - 1 :
       result[n + 1] = IF IsBitmap(src[n + 1])
                         THEN Append(result[n], Packed(Matched(src[n + 1])))
                         ELSE result[n]

LEMMA CompiledList ==
  ASSUME NEW src, Len(src) \in Nat, \A k \in 1 .. Len(src) : Len(Matched(src[k])) \in Nat
  PROVE  \E result : Collects(src, result) /\ compile(src) = result[Len(src)]
<1> DEFINE L == Len(src)
           Line(k) == k <= L /\ IsBitmap(src[k])
           Byte(k) == Packed(Matched(src[k]))
           step == [x \in Nat \X Seq(Nat) |->
                      IF Line(x[1] + 1) THEN Append(x[2], Byte(x[1] + 1)) ELSE x[2]]
           Equation(r) == r = [n \in 0 .. L |->
                                 IF n = 0 THEN <<>>
                                 ELSE IF IsBitmap(src[n]) THEN Append(r[n - 1], Byte(n))
                                 ELSE r[n - 1]]
<1>0. \A k \in 1 .. L : Byte(k) \in Nat
  BY PackedBound
<1>1. PICK f : Iterates(f, Seq(Nat), <<>>, step)
  <2>1. <<>> \in Seq(Nat)
    OBVIOUS
  <2>2. step \in [Nat \X Seq(Nat) -> Seq(Nat)]
    <3>1. ASSUME NEW x \in Nat \X Seq(Nat)
          PROVE  (IF Line(x[1] + 1) THEN Append(x[2], Byte(x[1] + 1)) ELSE x[2]) \in Seq(Nat)
      <4>1. x[2] \in Seq(Nat) /\ x[1] \in Nat
        OBVIOUS
      <4>2. CASE Line(x[1] + 1)
        <5>1. x[1] + 1 \in 1 .. L
          BY <4>1, <4>2
        <5>2. Byte(x[1] + 1) \in Nat
          BY <1>0, <5>1
        <5> HIDE DEF Byte, Line
        <5> QED BY <4>1, <4>2, <5>2
      <4>3. CASE ~Line(x[1] + 1)
        BY <4>1, <4>3
      <4> QED BY <4>2, <4>3
    <3> HIDE DEF Byte, Line
    <3> QED BY <3>1
  <2> HIDE DEF step
  <2> QED BY ONLY <2>1, <2>2, Recursion, Zenon
<1>2. ASSUME NEW n \in 0 .. L - 1
      PROVE  f[n + 1] = IF IsBitmap(src[n + 1]) THEN Append(f[n], Byte(n + 1)) ELSE f[n]
  <2>1. n \in Nat /\ n + 1 <= L /\ f[n] \in Seq(Nat)
    BY <1>1 DEF Iterates
  <2>2. <<n, f[n]>> \in Nat \X Seq(Nat)
    BY <2>1
  <2>3. f[n + 1] = step[<<n, f[n]>>]
    BY <1>1, <2>1 DEF Iterates
  <2> HIDE DEF Byte, L
  <2>4. step[<<n, f[n]>>] = IF Line(n + 1) THEN Append(f[n], Byte(n + 1)) ELSE f[n]
    BY <2>2
  <2> QED BY <2>1, <2>3, <2>4
<1> DEFINE g == [n \in 0 .. L |-> f[n]]
<1>3. Equation(g)
  <2> HIDE DEF Byte
  <2>1. \A n \in 0 .. L : n # 0 => n - 1 \in 0 .. L - 1 /\ n - 1 \in 0 .. L /\ (n - 1) + 1 = n
    OBVIOUS
  <2>2. \A n \in 0 .. L : g[n] = IF n = 0 THEN <<>>
                                 ELSE IF IsBitmap(src[n]) THEN Append(g[n - 1], Byte(n))
                                 ELSE g[n - 1]
    <3> SUFFICES ASSUME NEW n \in 0 .. L
                 PROVE  f[n] = IF n = 0 THEN <<>>
                               ELSE IF IsBitmap(src[n]) THEN Append(f[n - 1], Byte(n))
                               ELSE f[n - 1]
      BY <2>1
    <3>1. CASE n = 0
      BY <1>1, <3>1 DEF Iterates
    <3>2. CASE n # 0
      <4>1. n - 1 \in 0 .. L - 1 /\ (n - 1) + 1 = n
        BY <2>1, <3>2
      <4>2. f[(n - 1) + 1] = IF IsBitmap(src[(n - 1) + 1]) THEN Append(f[n - 1], Byte((n - 1) + 1))
                                                           ELSE f[n - 1]
        BY <1>2, <4>1
      <4> QED BY <3>2, <4>1, <4>2
    <3> QED BY <3>1, <3>2
  <2> QED BY <2>2
<1> DEFINE result == CHOOSE r : Equation(r)
<1>4. Equation(result)
  <2> HIDE DEF Equation
  <2> QED BY <1>3
<1>5. compile(src) = result[L]
  BY DEF compile
<1> HIDE DEF result, Byte
<1>6. /\ DOMAIN result = 0 .. L /\ result = [n \in 0 .. L |-> result[n]]
      /\ \A n \in 0 .. L : result[n] = IF n = 0 THEN <<>>
                                       ELSE IF IsBitmap(src[n]) THEN Append(result[n - 1], Byte(n))
                                       ELSE result[n - 1]
  BY <1>4
<1>7. /\ result[0] = <<>>
      /\ \A n \in 0 .. L - 1 :
           result[n + 1] = IF IsBitmap(src[n + 1]) THEN Append(result[n], Byte(n + 1)) ELSE result[n]
  <2>1. 0 \in 0 .. L
    OBVIOUS
  <2>2. \A n \in 0 .. L - 1 : n + 1 \in 0 .. L /\ n + 1 # 0 /\ (n + 1) - 1 = n
    OBVIOUS
  <2> HIDE DEF Equation
  <2> QED BY <1>6, <2>1, <2>2
<1> DEFINE S == {n \in Nat : n <= L => result[n] \in Seq(Nat)}
<1>8. 0 \in S
  <2>1. result[0] \in Seq(Nat)
    BY <1>7
  <2> QED BY <2>1
<1>9. ASSUME NEW n \in Nat, n \in S PROVE n + 1 \in S
  <2> SUFFICES ASSUME n + 1 <= L PROVE result[n + 1] \in Seq(Nat)
    OBVIOUS
  <2>1. n \in 0 .. L - 1 /\ n + 1 \in 1 .. L /\ result[n] \in Seq(Nat)
    BY <1>9
  <2>2. Byte(n + 1) \in Nat
    BY <1>0, <2>1
  <2>3. result[n + 1] = IF IsBitmap(src[n + 1]) THEN Append(result[n], Byte(n + 1)) ELSE result[n]
    BY <1>7, <2>1
  <2> HIDE DEF L, Equation
  <2> QED BY <2>1, <2>2, <2>3
<1> HIDE DEF S
<1>10. \A n \in Nat : n >= 0 => n \in S
  BY <1>8, <1>9, Induction
<1>11. result \in [0 .. L -> Seq(Nat)]
  <2>1. \A n \in 0 .. L : result[n] \in Seq(Nat)
    BY <1>10 DEF S
  <2> QED BY <1>6, <2>1
<1> QED BY <1>5, <1>7, <1>11 DEF Collects, Byte

\* Places in a table of rows of m are places in one row only.
LEMMA SamePlace ==
  ASSUME NEW m \in Nat \ {0}, NEW p \in Nat, NEW q \in Nat, NEW s \in 1 .. m, NEW t \in 1 .. m,
         m * p + s = m * q + t
  PROVE  p = q /\ s = t
<1>1. (m * p + (s - 1)) \div m = p /\ (m * p + (s - 1)) % m = s - 1
  OBVIOUS
<1>2. (m * q + (t - 1)) \div m = q /\ (m * q + (t - 1)) % m = t - 1
  OBVIOUS
<1>3. m * p + (s - 1) = m * q + (t - 1)
  OBVIOUS
<1> QED BY <1>1, <1>2, <1>3

FileLine(pictures, p, line) ==
  CASE line = 0               -> <<"0", "x">>
    [] line = GlyphHeight + 1 -> <<>>
    [] OTHER                  -> pictures[p + 1][line]

LEMMA SourceLine ==
  ASSUME NEW pictures, Len(pictures) \in Nat, NEW p \in Nat, p < Len(pictures),
         NEW line \in 0 .. GlyphHeight + 1
  PROVE  /\ (GlyphHeight + 2) * p + line + 1 \in 1 .. Len(Source(pictures))
         /\ Source(pictures)[(GlyphHeight + 2) * p + line + 1] = FileLine(pictures, p, line)
<1> DEFINE m == GlyphHeight + 2
           n == m * p + line + 1
           N == Len(pictures)
<1>1. GlyphHeight \in Nat /\ m \in Nat \ {0} /\ line \in 0 .. m - 1 /\ n - 1 = m * p + line
  BY FontSizes
<1>2. (n - 1) \div m = p /\ (n - 1) % m = line
  <2>1. (m * p + line) \div m = p
    BY <1>1
  <2>2. (m * p + line) % m = line
    BY <1>1
  <2> QED BY <1>1, <2>1, <2>2
<1>3. m * N \in Nat /\ m * p + m <= m * N /\ m * p \in Nat
  <2>1. p + 1 <= N
    OBVIOUS
  <2> HIDE DEF m, N
  <2>2. N \in Nat
    BY DEF N
  <2>3. m * (p + 1) <= m * N /\ m * (p + 1) = m * p + m
    BY <1>1, <2>1, <2>2
  <2> QED BY <1>1, <2>2, <2>3
<1>4. n \in 1 .. m * N
  BY <1>1, <1>3
<1>5. Source(pictures) = [k \in 1 .. m * N |-> FileLine(pictures, (k - 1) \div m, (k - 1) % m)]
  BY DEF Source, FileLine
<1> HIDE DEF m, n, N
<1>6. Len(Source(pictures)) = m * N
  BY <1>3, <1>5
<1>7. Source(pictures)[n] = FileLine(pictures, p, line)
  BY <1>2, <1>4, <1>5
<1> QED BY <1>4, <1>6, <1>7 DEF m, n

FontFiles == Seq([1 .. GlyphHeight -> Seq(Dots) \ {<<>>}])

LEMMA LineKinds ==
  ASSUME NEW pictures \in FontFiles, NEW p \in Nat, p < Len(pictures), NEW line \in 0 .. GlyphHeight + 1
  PROVE  /\ line \in 1 .. GlyphHeight =>
              /\ pictures[p + 1][line] \in Seq(Dots)
              /\ Matched(FileLine(pictures, p, line)) = pictures[p + 1][line]
              /\ IsBitmap(FileLine(pictures, p, line))
         /\ line \in {0, GlyphHeight + 1} =>
              /\ Matched(FileLine(pictures, p, line)) = <<>>
              /\ ~IsBitmap(FileLine(pictures, p, line))
<1>0. GlyphHeight \in Nat \ {0}
  BY FontSizes
<1>1. CASE line \in 1 .. GlyphHeight
  <2>1. p + 1 \in 1 .. Len(pictures)
    OBVIOUS
  <2>2. pictures[p + 1] \in [1 .. GlyphHeight -> Seq(Dots) \ {<<>>}]
    BY <2>1 DEF FontFiles
  <2>3. pictures[p + 1][line] \in Seq(Dots) /\ pictures[p + 1][line] # <<>>
    BY <1>1, <2>2
  <2>4. FileLine(pictures, p, line) = pictures[p + 1][line]
    BY <1>0, <1>1 DEF FileLine
  <2>5. Matched(pictures[p + 1][line]) = pictures[p + 1][line]
    BY <2>3, MatchedDots
  <2> QED BY <1>0, <1>1, <2>3, <2>4, <2>5 DEF IsBitmap
<1>2. CASE line = 0
  <2>1. <<"0", "x">> \in Seq({"0", "x"}) /\ <<"0", "x">>[1] \notin Dots
    <3>1. "0" \notin Dots
      BY DEF Dots
    <3> QED BY <3>1
  <2>2. Matched(<<"0", "x">>) = <<>>
    BY <2>1, MatchedNothing
  <2>3. FileLine(pictures, p, line) = <<"0", "x">>
    BY <1>0, <1>2 DEF FileLine
  <2> QED BY <1>0, <1>2, <2>2, <2>3 DEF IsBitmap
<1>3. CASE line = GlyphHeight + 1
  <2>1. <<>> \in Seq(STRING)
    OBVIOUS
  <2>2. Matched(<<>>) = <<>>
    BY <2>1, MatchedNothing
  <2>3. FileLine(pictures, p, line) = <<>>
    BY <1>0, <1>3 DEF FileLine
  <2> QED BY <1>0, <1>3, <2>2, <2>3 DEF IsBitmap
<1> QED BY <1>0, <1>1, <1>2, <1>3

\* Every line of a font file is one of these.
LEMMA SourceLines ==
  ASSUME NEW pictures \in FontFiles
  PROVE  /\ Len(Source(pictures)) = (GlyphHeight + 2) * Len(pictures)
         /\ Len(Source(pictures)) \in Nat
         /\ \A k \in 1 .. Len(Source(pictures)) :
              \E p \in Nat, line \in 0 .. GlyphHeight + 1 :
                p < Len(pictures) /\ k = (GlyphHeight + 2) * p + line + 1
<1> DEFINE m == GlyphHeight + 2
           N == Len(pictures)
<1>1. N \in Nat /\ m \in Nat \ {0} /\ GlyphHeight + 1 = m - 1
  BY FontSizes DEF FontFiles
<1>2. Len(Source(pictures)) = m * N /\ m * N \in Nat
  <2>1. m * N \in Nat
    BY <1>1
  <2> QED BY <2>1 DEF Source
<1>3. ASSUME NEW k \in 1 .. m * N
      PROVE  \E p \in Nat, line \in 0 .. m - 1 : p < N /\ k = m * p + line + 1
  <2> HIDE DEF m, N
  <2> DEFINE p == (k - 1) \div m
             line == (k - 1) % m
  <2>1. k - 1 \in Nat
    BY <1>1
  <2>2. p \in Nat /\ line \in 0 .. m - 1 /\ k - 1 = m * p + line
    BY <1>1, <2>1
  <2> HIDE DEF p, line
  <2>3. p < N
    <3>1. m * p < m * N
      BY <1>1, <2>2
    <3>2. p >= N => m * p >= m * N
      BY <1>1, <2>2
    <3> QED BY <1>1, <2>2, <3>1, <3>2
  <2> QED BY <2>2, <2>3
<1> QED BY <1>1, <1>2, <1>3

LEMMA SourceMatched ==
  ASSUME NEW pictures \in FontFiles, NEW k \in 1 .. Len(Source(pictures))
  PROVE  Len(Matched(Source(pictures)[k])) \in Nat
<1>1. PICK p \in Nat, line \in 0 .. GlyphHeight + 1 :
        p < Len(pictures) /\ k = (GlyphHeight + 2) * p + line + 1
  BY SourceLines
<1>2. Source(pictures)[k] = FileLine(pictures, p, line)
  BY <1>1, SourceLine DEF FontFiles
<1>3. line \in 1 .. GlyphHeight \/ line \in {0, GlyphHeight + 1}
  BY FontSizes
<1>4. Matched(FileLine(pictures, p, line)) \in Seq(Dots)
  <2>1. <<>> \in Seq(Dots)
    OBVIOUS
  <2> QED BY <1>1, <1>3, <2>1, LineKinds
<1> QED BY <1>2, <1>4

\* The table has the rows of the pictures, one after the other.
LEMMA TableRows ==
  ASSUME NEW pictures \in FontFiles
  PROVE  /\ Len(compile(Source(pictures))) = GlyphHeight * Len(pictures)
         /\ \A p \in 0 .. Len(pictures) - 1, s \in 1 .. GlyphHeight :
              compile(Source(pictures))[GlyphHeight * p + s] = Packed(pictures[p + 1][s])
<1> DEFINE H == GlyphHeight
           m == GlyphHeight + 2
           N == Len(pictures)
           src == Source(pictures)
           L == Len(src)
<1>1. /\ H \in Nat \ {0} /\ m \in Nat \ {0} /\ N \in Nat /\ m = H + 2
      /\ L = m * N /\ L \in Nat
  <2>1. L = m * N /\ L \in Nat
    BY SourceLines
  <2>2. N \in Nat
    BY DEF FontFiles
  <2> QED BY FontSizes, <2>1, <2>2
<1>2. PICK result : Collects(src, result) /\ compile(src) = result[L]
  BY <1>1, SourceMatched, CompiledList
<1> DEFINE Right(n, p, line) ==
             /\ Len(result[n]) = H * p + (IF line = 0 THEN 0 ELSE line - 1)
             /\ \A q \in 0 .. N - 1, s \in 1 .. H :
                  H * q + s <= Len(result[n]) => result[n][H * q + s] = Packed(pictures[q + 1][s])
           S == {n \in Nat : \A p \in Nat, line \in 0 .. H + 1 :
                   n <= L /\ n = m * p + line => Right(n, p, line)}
<1>3. 0 \in S
  <2> SUFFICES ASSUME NEW p \in Nat, NEW line \in 0 .. H + 1, 0 = m * p + line
               PROVE  Right(0, p, line)
    OBVIOUS
  <2>1. line = 0 /\ m * p = 0
    <3>1. m * p >= 0
      BY <1>1
    <3> HIDE DEF m, H
    <3> QED BY <1>1, <3>1
  <2>2. p = 0
    BY <1>1, <2>1
  <2>3. result[0] = <<>> /\ Len(result[0]) = 0
    BY <1>2 DEF Collects
  <2>4. \A q \in 0 .. N - 1, s \in 1 .. H : H * q + s > 0
    BY <1>1
  <2>5. H * p = 0 /\ H \in Nat /\ N \in Nat
    BY <1>1, <2>2
  <2> HIDE DEF H, N
  <2> QED BY <1>1, <2>1, <2>3, <2>4, <2>5
<1>4. ASSUME NEW n \in Nat, n \in S PROVE n + 1 \in S
  <2> SUFFICES ASSUME NEW p \in Nat, NEW line \in 0 .. H + 1, n + 1 <= L, n + 1 = m * p + line
               PROVE  Right(n + 1, p, line)
    OBVIOUS
  <2>0. n \in 0 .. L - 1 /\ n <= L /\ n + 1 \in 1 .. L
    BY <1>1
  <2>1. /\ result[n] \in Seq(Nat)
        /\ result[n + 1] = IF IsBitmap(src[n + 1])
                             THEN Append(result[n], Packed(Matched(src[n + 1])))
                             ELSE result[n]
    BY <1>2, <2>0 DEF Collects
  <2>2. CASE line = 0
    <3>1. p # 0 /\ p - 1 \in Nat
      <4>1. p = 0 => m * p = 0
        BY <1>1
      <4> QED BY <2>2, <4>1
    <3>2. n = m * (p - 1) + (H + 1)
      <4>1. m * p = m * (p - 1) + m
        BY <1>1, <3>1
      <4>2. m * (p - 1) \in Nat
        BY <1>1, <3>1
      <4> HIDE DEF m, H
      <4> QED BY <1>1, <2>2, <4>1, <4>2
    <3>3. Right(n, p - 1, H + 1)
      <4>1. H + 1 \in 0 .. H + 1
        BY <1>1
      <4> HIDE DEF Right
      <4> QED BY <1>4, <2>0, <3>1, <3>2, <4>1
    <3>4. p - 1 < N
      <4>1. p >= N + 1 => m * (p - 1) >= m * N
        BY <1>1, <3>1
      <4>2. m * (p - 1) < m * N
        <5>1. m * (p - 1) \in Nat /\ m * N \in Nat
          BY <1>1, <3>1
        <5> HIDE DEF m, H
        <5> QED BY <1>1, <2>0, <3>2, <5>1
      <4> HIDE DEF m, N
      <4> QED BY <1>1, <3>1, <4>1, <4>2
    <3>5. src[n + 1] = FileLine(pictures, p - 1, H + 1)
      BY <1>1, <3>1, <3>2, <3>4, SourceLine
    <3>6. result[n + 1] = result[n]
      <4>1. ~IsBitmap(FileLine(pictures, p - 1, H + 1))
        BY <1>1, <3>1, <3>4, LineKinds
      <4> QED BY <2>1, <3>5, <4>1
    <3>7. H * (p - 1) + H = H * p
      BY <1>1, <3>1
    <3>8. Len(result[n]) = H * p
      <4>1. Len(result[n]) = H * (p - 1) + H
        <5>1. H + 1 # 0 /\ (H + 1) - 1 = H
          BY <1>1
        <5> QED BY <3>3, <5>1
      <4> QED BY <3>7, <4>1
    <3> QED BY <2>2, <3>3, <3>6, <3>8, <1>1
  <2>3. CASE line # 0
    <3> DEFINE before == line - 1
    <3>1. before \in 0 .. H + 1 /\ n = m * p + before /\ before \in Nat
      <4>1. m * p \in Nat
        BY <1>1
      <4> HIDE DEF m, H
      <4> QED BY <1>1, <2>3, <4>1
    <3>2. Right(n, p, before)
      <4> HIDE DEF Right, before
      <4> QED BY <1>4, <2>0, <3>1
    <3>3. p < N
      <4>1. p >= N => m * p >= m * N
        BY <1>1
      <4>2. m * p < m * N
        <5>1. m * p \in Nat /\ m * N \in Nat
          BY <1>1
        <5> HIDE DEF m, H
        <5> QED BY <1>1, <2>0, <3>1, <5>1
      <4> HIDE DEF m, N
      <4> QED BY <1>1, <4>1, <4>2
    <3>4. src[n + 1] = FileLine(pictures, p, before)
      BY <1>1, <3>1, <3>3, SourceLine
    <3>5. CASE before = 0
      <4>1. result[n + 1] = result[n]
        <5>1. ~IsBitmap(FileLine(pictures, p, before))
          BY <1>1, <3>1, <3>3, <3>5, LineKinds
        <5> QED BY <2>1, <3>4, <5>1
      <4>2. line = 1
        BY <2>3, <3>5
      <4> QED BY <1>1, <3>2, <3>5, <4>1, <4>2
    <3>6. CASE before # 0
      <4> DEFINE byte == Packed(pictures[p + 1][before])
                 list == result[n]
      <4>1. before \in 1 .. H
        BY <1>1, <3>1, <3>6
      <4>2. result[n + 1] = Append(list, byte)
        <5>1. /\ IsBitmap(FileLine(pictures, p, before))
              /\ Matched(FileLine(pictures, p, before)) = pictures[p + 1][before]
          BY <1>1, <3>1, <3>3, <4>1, LineKinds
        <5> QED BY <2>1, <3>4, <5>1
      <4>3. Len(list) = H * p + (before - 1) /\ H * p \in Nat
        <5>1. H * p \in Nat
          BY <1>1, <3>1
        <5>2. Len(list) = H * p + (before - 1)
          BY <3>2, <3>6
        <5> QED BY <5>1, <5>2
      <4> HIDE DEF byte, list
      <4>4. list \in Seq(Nat)
        BY <2>1 DEF list
      <4>5. Len(result[n + 1]) = H * p + before
        BY <3>1, <4>2, <4>3, <4>4
      <4>6. ASSUME NEW q \in 0 .. N - 1, NEW s \in 1 .. H, H * q + s <= Len(result[n + 1])
            PROVE  result[n + 1][H * q + s] = Packed(pictures[q + 1][s])
        <5>0. H * q \in Nat /\ q \in Nat
          BY <1>1
        <5>1. CASE H * q + s <= Len(list)
          <6>1. list[H * q + s] = Packed(pictures[q + 1][s])
            BY <3>2, <4>6, <5>1 DEF list
          <6>2. H * q + s \in 1 .. Len(list)
            BY <1>1, <5>0, <5>1, <4>3
          <6> HIDE DEF H
          <6>3. Append(list, byte)[H * q + s] = list[H * q + s]
            BY <4>4, <6>2
          <6> QED BY <4>2, <6>1, <6>3
        <5>2. CASE H * q + s > Len(list)
          <6>1. H * q + s = H * p + before
            BY <1>1, <3>1, <4>3, <4>5, <4>6, <5>0, <5>2
          <6>2. q = p /\ s = before
            BY <1>1, <4>1, <5>0, <6>1, SamePlace
          <6>3. Append(list, byte)[Len(list) + 1] = byte
            BY <4>4
          <6>4. Len(list) + 1 = H * q + s
            BY <1>1, <3>1, <4>3, <6>1, <6>2
          <6> QED BY <4>2, <6>2, <6>3, <6>4 DEF byte
        <5>3. H * q + s <= Len(list) \/ H * q + s > Len(list)
          <6>1. Len(list) \in Nat
            BY <4>4
          <6>2. s \in Nat
            BY <1>1
          <6> HIDE DEF H
          <6> QED BY <5>0, <6>1, <6>2
        <5> QED BY ONLY <5>1, <5>2, <5>3
      <4>7. line # 0 /\ before = line - 1
        BY <2>3
      <4> HIDE DEF H, N
      <4> QED BY <4>5, <4>6, <4>7
    <3> QED BY <3>5, <3>6
  <2> QED BY <2>2, <2>3
<1>5. \A n \in Nat : n >= 0 => n \in S
  <2> HIDE DEF S
  <2> QED BY <1>3, <1>4, Induction
<1>6. Right(L, N, 0)
  <2>1. L = m * N + 0 /\ L \in Nat /\ N \in Nat /\ 0 \in 0 .. H + 1 /\ L <= L
    BY <1>1
  <2> HIDE DEF Right, L, N, H, m
  <2> QED BY <1>5, <2>1
<1>7. Len(result[L]) = H * N
  BY <1>1, <1>6
<1>8. ASSUME NEW q \in 0 .. N - 1, NEW s \in 1 .. H
      PROVE  result[L][H * q + s] = Packed(pictures[q + 1][s])
  <2>1. H * q + s <= H * N
    <3>1. H * (q + 1) <= H * N /\ H * (q + 1) = H * q + H
      BY <1>1
    <3>2. H * q \in Nat /\ H * N \in Nat
      BY <1>1
    <3> HIDE DEF H, N
    <3> QED BY <1>1, <3>1, <3>2
  <2> QED BY <1>6, <1>7, <2>1
<1> QED BY <1>2, <1>7, <1>8

\* The build succeeds if and only if each row of the pictures fits the byte.
LEMMA CompilesRows ==
  ASSUME NEW pictures \in FontFiles
  PROVE  Compiles(Source(pictures)) <=>
           \A p \in 0 .. Len(pictures) - 1, s \in 1 .. GlyphHeight :
             Packed(pictures[p + 1][s]) < ByteModulus
<1> DEFINE H == GlyphHeight
           m == GlyphHeight + 2
           N == Len(pictures)
           src == Source(pictures)
           L == Len(src)
           Fits(line) == IsBitmap(line) => Packed(Matched(line)) < ByteModulus
<1>1. L \in Nat /\ N \in Nat /\ H \in Nat \ {0} /\ DOMAIN src = 1 .. L
  <2>1. L \in Nat /\ L = m * N
    BY SourceLines
  <2>2. N \in Nat
    BY DEF FontFiles
  <2>3. DOMAIN src = 1 .. m * N
    BY DEF Source
  <2> QED BY FontSizes, <2>1, <2>2, <2>3
<1>2. Compiles(src) <=> \A k \in 1 .. L : Fits(src[k])
  BY <1>1 DEF Compiles
<1>3. ASSUME NEW p \in 0 .. N - 1, NEW s \in 1 .. H
      PROVE  Fits(FileLine(pictures, p, s)) <=> Packed(pictures[p + 1][s]) < ByteModulus
  <2>1. p \in Nat /\ p < N /\ s \in 0 .. H + 1
    BY <1>1
  <2> QED BY <2>1, LineKinds
<1>4. ASSUME Compiles(src), NEW p \in 0 .. N - 1, NEW s \in 1 .. H
      PROVE  Packed(pictures[p + 1][s]) < ByteModulus
  <2>1. p \in Nat /\ p < N /\ s \in 0 .. H + 1
    BY <1>1
  <2>2. m * p + s + 1 \in 1 .. L /\ src[m * p + s + 1] = FileLine(pictures, p, s)
    BY <2>1, <1>1, SourceLine
  <2> HIDE DEF Fits, src, L, m
  <2>3. Fits(FileLine(pictures, p, s))
    BY <1>2, <1>4, <2>2
  <2> QED BY <1>3, <2>3
<1>5. ASSUME \A p \in 0 .. N - 1, s \in 1 .. H : Packed(pictures[p + 1][s]) < ByteModulus,
             NEW k \in 1 .. L
      PROVE  Fits(src[k])
  <2>1. PICK p \in Nat, line \in 0 .. H + 1 : p < N /\ k = m * p + line + 1
    BY SourceLines
  <2>2. src[k] = FileLine(pictures, p, line)
    BY <1>1, <2>1, SourceLine
  <2>3. line \in 1 .. H \/ line \in {0, H + 1}
    BY <1>1
  <2>4. CASE line \in 1 .. H
    <3>1. p \in 0 .. N - 1
      BY <1>1, <2>1
    <3> HIDE DEF Fits, src
    <3> QED BY <1>3, <1>5, <2>2, <2>4, <3>1
  <2>5. CASE line \in {0, H + 1}
    BY <2>1, <2>2, <2>5, LineKinds
  <2> QED BY <2>3, <2>4, <2>5
<1> HIDE DEF src, L, Fits
<1> QED BY <1>2, <1>4, <1>5 DEF src

-----------------------------------------------------------------------------
(***************************************************************************)
(* The steps of FontFile                                                   *)
(***************************************************************************)
FontInv ==
  /\ font \in Pictures
  /\ pc \in {"Build", "Failed", "Draw", "Drawn"}
  /\ pc # "Build" => table = IF Compiles(Source(font)) THEN compile(Source(font)) ELSE <<>>
  /\ pc = "Failed" => ~Compiles(Source(font))
  /\ pc = "Drawn" => c \in Characters /\ drawn = WriteAscii(table, 0, 0, c)

LEMMA FontStart == Init => FontInv
BY DEF Init, FontInv

LEMMA FontStep == FontInv /\ [Next]_vars => FontInv'
<1> SUFFICES ASSUME FontInv, [Next]_vars PROVE FontInv'
  OBVIOUS
<1>1. CASE Build
  BY <1>1 DEF Build, FontInv
<1>2. CASE MakeAgain \/ \E char \in Characters : Draw(char)
  BY <1>2 DEF MakeAgain, Draw, FontInv
<1>3. CASE UNCHANGED vars
  BY <1>3 DEF vars, FontInv
<1> QED BY <1>1, <1>2, <1>3 DEF Next

LEMMA FontHolds == Spec => []FontInv
BY FontStart, FontStep, PTL DEF Spec

LEMMA TooWideRow ==
  ASSUME font \in FontFiles, ~Compiles(Source(font))
  PROVE  TooWide
<1>2. PICK p \in 0 .. Len(font) - 1, s \in 1 .. GlyphHeight :
        ~(Packed(font[p + 1][s]) < ByteModulus)
  BY CompilesRows
<1>3. p + 1 \in DOMAIN font /\ s \in DOMAIN font[p + 1] /\ Len(font[p + 1][s]) \in Nat
  <2>1. Len(font) \in Nat /\ p + 1 \in 1 .. Len(font) /\ DOMAIN font = 1 .. Len(font)
    BY DEF FontFiles
  <2>2. font[p + 1] \in [1 .. GlyphHeight -> Seq(Dots) \ {<<>>}]
    BY <2>1 DEF FontFiles
  <2>3. font[p + 1][s] \in Seq(Dots) /\ DOMAIN font[p + 1] = 1 .. GlyphHeight
    BY <2>2
  <2> QED BY <2>1, <2>3
<1>4. Packed(font[p + 1][s]) < PowerOfTwo[Len(font[p + 1][s])]
  BY <1>3, PackedBound
<1>5. Len(font[p + 1][s]) > GlyphWidth
  <2> DEFINE len == Len(font[p + 1][s])
             byte == Packed(font[p + 1][s])
  <2>1. len \in Nat /\ GlyphWidth \in Nat /\ byte \in Nat /\ byte < PowerOfTwo[len]
    BY <1>3, <1>4, FontSizes, PackedBound
  <2>2. ~(byte < PowerOfTwo[GlyphWidth])
    BY <1>2 DEF ByteModulus
  <2> HIDE DEF len, byte
  <2>3. PowerOfTwo[len] \in Nat /\ PowerOfTwo[GlyphWidth] \in Nat
    BY <2>1, PowerSteps
  <2>4. len <= GlyphWidth => PowerOfTwo[len] <= PowerOfTwo[GlyphWidth]
    BY <2>1, PowerMonotone
  <2> QED BY <2>1, <2>2, <2>3, <2>4 DEF len
<1> QED BY <1>3, <1>5 DEF TooWide

\* The build makes GlyphHeight bytes of every picture, so no glyph starts in the middle
\* of another; it fails only for a row that is longer than a glyph is wide, and a kernel
\* without a whole table has none at all and was linked after such a failure.
THEOREM TableIsWhole == Spec => []TableWhole
<1>1. ASSUME FontInv, pc \in {"Draw", "Drawn"}, Compiles(Source(font))
      PROVE  Len(table) = GlyphHeight * Len(font)
  <2>1. font \in FontFiles /\ table = compile(Source(font))
    BY <1>1, FontPictures DEF FontInv, FontFiles
  <2> QED BY <2>1, TableRows
<1>2. ASSUME FontInv, pc # "Build", ~Compiles(Source(font)) PROVE table = <<>> /\ TooWide
  <2>1. font \in FontFiles /\ table = <<>>
    BY <1>2, FontPictures DEF FontInv, FontFiles
  <2> QED BY <1>2, <2>1, TooWideRow
<1>3. FontInv => TableWhole
  BY <1>1, <1>2 DEF TableWhole, FontInv
<1> QED BY <1>3, FontHolds, PTL

\* A char that has a picture is found at it; the negative ones and the others are not found.
LEMMA Indexes ==
  ASSUME NEW char \in Characters, font \in Pictures, font \in FontFiles,
         Len(table) = GlyphHeight * Len(font)
  PROVE  /\ char >= 0 => Index(char) = GlyphHeight * char
         /\ HasFont(table, char) <=> char >= 0 /\ char < Len(font)
<1> DEFINE H == GlyphHeight
           M == IndexModulus
           N == Len(font)
<1>1. /\ H \in Nat \ {0} /\ M \in Nat \ {0} /\ N \in Nat /\ char \in Int
      /\ H * char < M
      /\ char < 0 => H * N < M + H * char
  <2>1. N \in Nat
    BY DEF FontFiles
  <2> QED BY <2>1, FontSizes, FontCharacters
<1>2. Index(char) = (H * (char % M)) % M /\ (HasFont(table, char) <=> Index(char) < H * N)
  BY DEF Index, HasFont
<1> HIDE DEF H, M, N
<1>3. CASE char >= 0
  <2>1. H * char \in 0 .. M - 1
    BY <1>1, <1>3
  <2>2. char \in 0 .. M - 1
    <3>1. char <= H * char
      BY <1>1, <1>3
    <3> QED BY <1>1, <1>3, <2>1, <3>1
  <2>3. char % M = char /\ (H * char) % M = H * char
    <3>1. (0 * M + char) % M = char
      BY ONLY <1>1, <2>2, Remainder
    <3>2. (0 * M + H * char) % M = H * char
      BY ONLY <1>1, <2>1, Remainder
    <3> QED BY <1>1, <2>1, <3>1, <3>2
  <2>4. Index(char) = H * char
    BY <1>2, <2>3
  <2>5. H * char < H * N <=> char < N
    BY <1>1, <1>3
  <2> QED BY <1>2, <1>3, <2>4, <2>5 DEF H, N
<1>4. CASE char < 0
  <2>1. H * N \in Nat /\ H * char \in Int /\ M + H * char \in 0 .. M - 1
    <3>1. H * N \in Nat /\ H * char < 0 /\ H * char \in Int
      BY <1>1, <1>4
    <3> QED BY <1>1, <1>4, <3>1
  <2>2. M + char \in 0 .. M - 1
    <3>1. H * char <= char
      BY <1>1, <1>4
    <3> QED BY <1>1, <1>4, <2>1, <3>1
  <2>3. char % M = M + char
    <3>1. (-1 * M + (M + char)) % M = M + char
      BY ONLY <1>1, <2>2, Remainder
    <3>2. -1 * M + (M + char) = char
      BY <1>1
    <3> QED BY <3>1, <3>2
  <2>4. (H * (M + char)) % M = M + H * char
    <3>1. H * (M + char) = (H - 1) * M + (M + H * char)
      BY <1>1
    <3>2. H - 1 \in Int
      BY <1>1
    <3>3. ((H - 1) * M + (M + H * char)) % M = M + H * char
      BY ONLY <1>1, <2>1, <3>2, Remainder
    <3> QED BY <3>1, <3>3
  <2>5. Index(char) = M + H * char
    BY <1>2, <2>3, <2>4
  <2>6. ~(Index(char) < H * N)
    BY <1>1, <1>4, <2>1, <2>5
  <2> QED BY <1>1, <1>2, <1>4, <2>6 DEF N
<1> QED BY <1>1, <1>3, <1>4 DEF N

\* What WriteAscii (font.cc:42-56) draws for a character is its picture in the font file,
\* dot for dot, for every font whose lines have the width of a glyph; and for a char
\* without a picture, the negative ones above all, it draws nothing.
THEOREM PictureDrawn == Spec => []DrawsPicture
<1>1. ASSUME FontInv, pc = "Drawn", Regular
      PROVE  drawn = IF c >= 0 /\ c < Len(font) THEN Shown(font[c + 1]) ELSE {}
  <2> DEFINE Place == (0 .. GlyphWidth - 1) \X (0 .. GlyphHeight - 1)
             Written(d) == HasFont(table, c) /\ BitShown(FontRow(table, c, d[2]), d[1])
  <2>0. font \in FontFiles
    BY <1>1, FontPictures DEF FontInv, FontFiles
  <2>7. Compiles(Source(font))
    <3>1. GlyphWidth \in Nat
      BY FontSizes
    <3>2. ~TooWide
      BY <1>1, <3>1 DEF Regular, TooWide
    <3> QED BY <2>0, <3>2, TooWideRow
  <2>1. /\ font \in Pictures /\ font \in FontFiles /\ c \in Characters
        /\ table = compile(Source(font)) /\ drawn = WriteAscii(table, 0, 0, c)
    BY <1>1, <2>0, <2>7 DEF FontInv
  <2>2. Len(table) = GlyphHeight * Len(font)
    BY <2>1, TableRows
  <2>3. /\ c >= 0 => Index(c) = GlyphHeight * c
        /\ HasFont(table, c) <=> c >= 0 /\ c < Len(font)
    BY <2>1, <2>2, Indexes
  <2>4. drawn = {d \in Place : Written(d)}
    <3>1. drawn = {<<0 + d[1], 0 + d[2]>> : d \in {d \in Place : Written(d)}}
      BY <2>1 DEF WriteAscii
    <3>2. \A d \in Place : <<0 + d[1], 0 + d[2]>> = d
      OBVIOUS
    <3> HIDE DEF Written, Place
    <3> QED BY <3>1, <3>2
  <2>5. CASE c >= 0 /\ c < Len(font)
    <3>1. c \in Nat /\ c \in 0 .. Len(font) - 1 /\ c + 1 \in DOMAIN font
      BY <2>1, <2>5, FontCharacters DEF FontFiles
    <3>2. ASSUME NEW d \in Place PROVE Written(d) <=> font[c + 1][d[2] + 1][d[1] + 1] # "."
      <4> DEFINE row == d[2] + 1
      <4>1. row \in 1 .. GlyphHeight /\ d[1] \in 0 .. GlyphWidth - 1
        BY FontSizes
      <4>2. font[c + 1] \in [1 .. GlyphHeight -> Seq(Dots) \ {<<>>}]
        BY <2>1, <3>1 DEF FontFiles
      <4>3. Len(font[c + 1][row]) = GlyphWidth
        BY <1>1, <3>1, <4>1, <4>2 DEF Regular
      <4>4. FontRow(table, c, d[2]) = Packed(font[c + 1][row])
        <5>1. table[GlyphHeight * c + row] = Packed(font[c + 1][row])
          BY <2>1, <3>1, <4>1, TableRows
        <5>2. Index(c) + d[2] + 1 = GlyphHeight * c + row
          <6>1. GlyphHeight * c \in Nat /\ d[2] \in Nat
            BY <3>1, FontSizes
          <6> QED BY <2>3, <2>5, <6>1
        <5> QED BY <5>1, <5>2 DEF FontRow
      <4>5. BitShown(Packed(font[c + 1][row]), d[1]) <=> font[c + 1][row][d[1] + 1] # "."
        BY <4>1, <4>3, BitOfDot
      <4> QED BY <2>3, <2>5, <4>4, <4>5
    <3> HIDE DEF Written
    <3>3. drawn = {d \in Place : font[c + 1][d[2] + 1][d[1] + 1] # "."}
      BY <2>4, <3>2
    <3> QED BY <2>5, <3>3 DEF Shown
  <2>6. CASE ~(c >= 0 /\ c < Len(font))
    BY <2>3, <2>4, <2>6
  <2> QED BY <2>5, <2>6
<1>2. FontInv => DrawsPicture
  BY <1>1 DEF DrawsPicture
<1> QED BY <1>2, FontHolds, PTL
=============================================================================
