---------------------------- MODULE MipsAluProofs ----------------------------
(***************************************************************************)
(* Theorems about integer arithmetic, for every width of a word and of an  *)
(* immediate operand, and every number of registers.                       *)
(*                                                                         *)
(* The only facts about powers of two that are assumed are those that      *)
(* define them; the rest is shown by induction on the exponent.            *)
(***************************************************************************)
EXTENDS MipsAlu, TLAPS, WellFoundedInduction

-----------------------------------------------------------------------------
(* Powers of two. *)

\* Induction, for a set: its least counterexample does not exist.
LEMMA Induction ==
  ASSUME NEW S, 0 \in S, \A n \in Nat : n \in S => n + 1 \in S
  PROVE  \A n \in Nat : n \in S
<1>. DEFINE T == {n \in Nat : n \notin S}
<1>1. SUFFICES ASSUME T # {} PROVE FALSE
  OBVIOUS
<1>2. T \subseteq Nat
  OBVIOUS
<1>3. PICK m \in T : \A j \in T : ~(<<j, m>> \in OpToRel(<, Nat))
  BY <1>1, <1>2, NatLessThanWellFounded, WFMin, Zenon
<1>4. m \in Nat /\ m # 0
  OBVIOUS
<1>5. m - 1 \in T => <<m - 1, m>> \in OpToRel(<, Nat)
  BY <1>4 DEF OpToRel
<1>6. m - 1 + 1 = m /\ m - 1 \in Nat
  BY <1>4
<1>7. m - 1 \notin T
  BY <1>3, <1>5
<1>8. m - 1 \in S
  BY <1>6, <1>7
<1>9. QED BY <1>6, <1>8

\* Powers are positive.
LEMMA PowNat ==
  ASSUME NEW n \in 0 .. 2 * Bits
  PROVE  Pow(n) \in Nat \ {0}
<1>. DEFINE S == {k \in Nat : k <= 2 * Bits => Pow(k) \in Nat \ {0}}
<1>. Bits \in Nat
  BY AluAssumption
<1>1. 0 \in S
  BY PowerAssumption
<1>2. ASSUME NEW k \in Nat, k \in S
      PROVE  k + 1 \in S
  <2>1. CASE k + 1 <= 2 * Bits
    BY <1>2, <2>1, PowerAssumption
  <2>2. QED BY <2>1
<1>. HIDE DEF S
<1>3. \A k \in Nat : k \in S
  BY <1>1, <1>2, Induction
<1>4. n \in S
  BY <1>3
<1>5. QED BY <1>4 DEF S

\* The power of a sum is the product of the powers.
LEMMA PowSum ==
  ASSUME NEW a \in Nat, NEW b \in Nat, a + b <= 2 * Bits
  PROVE  Pow(a + b) = Pow(a) * Pow(b)
<1>. DEFINE S == {k \in Nat : a + k <= 2 * Bits => Pow(a + k) = Pow(a) * Pow(k)}
<1>. Bits \in Nat
  BY AluAssumption
<1>1. 0 \in S
  BY PowerAssumption, PowNat
<1>2. ASSUME NEW k \in Nat, k \in S
      PROVE  k + 1 \in S
  <2>1. SUFFICES ASSUME a + k + 1 <= 2 * Bits
                 PROVE  Pow(a + (k + 1)) = Pow(a) * Pow(k + 1)
    OBVIOUS
  <2>2. /\ a + k \in 0 .. 2 * Bits - 1 /\ k \in 0 .. 2 * Bits - 1
        /\ a + (k + 1) = (a + k) + 1
    BY <2>1
  <2>3. Pow(a + (k + 1)) = 2 * Pow(a + k) /\ Pow(k + 1) = 2 * Pow(k)
    BY <2>2, PowerAssumption
  <2>4. Pow(a + k) = Pow(a) * Pow(k)
    BY <1>2, <2>1
  <2>5. Pow(a) \in Nat /\ Pow(k) \in Nat
    BY <2>2, PowNat
  <2>6. QED BY <2>3, <2>4, <2>5
<1>. HIDE DEF S
<1>3. \A k \in Nat : k \in S
  BY <1>1, <1>2, Induction
<1>4. b \in S
  BY <1>3
<1>5. QED BY <1>4 DEF S

\* Half a word, and a word by a word.
Half == Pow(Bits - 1)

\* How the sizes relate: a word is two halves, a doubleword a word by a word, and an
\* immediate operand fits in half a word.
LEMMA Sizes ==
  /\ Half \in Nat /\ Half >= 2 /\ W32 = 2 * Half /\ W32 \in Nat
  /\ W64 \in Nat /\ W64 = W32 * W32 /\ W64 >= 2 * W32
  /\ W64 = 2 * (Half * W32) /\ Half * W32 \in Nat /\ Half * W32 >= W32
  /\ Pow(ImmBits) \in Nat /\ Pow(ImmBits) > 0 /\ Pow(ImmBits) <= Half
  /\ Pow(ImmBits) % 2 = 0
<1>. Bits \in Nat /\ ImmBits \in 1 .. Bits - 1
  BY AluAssumption
<1>1. Pow(1) = 2
  <2>1. 0 \in 0 .. 2 * Bits - 1 /\ 0 + 1 = 1
    OBVIOUS
  <2>2. QED BY <2>1, PowerAssumption
<1>2. Half \in Nat /\ W32 = 2 * Half /\ W32 \in Nat \ {0}
  <2>1. Bits - 1 \in 0 .. 2 * Bits - 1 /\ Bits - 1 + 1 = Bits
    OBVIOUS
  <2>2. QED BY <2>1, PowerAssumption, PowNat DEF Half, W32
<1>3. Half >= 2
  <2>1. Bits - 2 \in 0 .. 2 * Bits - 1 /\ Bits - 2 + 1 = Bits - 1
    OBVIOUS
  <2>2. Half = 2 * Pow(Bits - 2) /\ Pow(Bits - 2) \in Nat \ {0}
    BY <2>1, PowerAssumption, PowNat DEF Half
  <2>3. QED BY <2>2
<1>4. W64 = W32 * W32
  <2>1. 2 * Bits = Bits + Bits
    OBVIOUS
  <2>2. QED BY <2>1, PowSum DEF W32, W64
<1>5. /\ Half * W32 \in Nat /\ W64 = 2 * (Half * W32) /\ Half * W32 >= 2 * W32
  BY <1>2, <1>3, <1>4
<1>6. /\ Pow(ImmBits) \in Nat /\ Pow(ImmBits) > 0 /\ Pow(ImmBits) <= Half
      /\ Pow(ImmBits) % 2 = 0
  <2>. DEFINE p == Pow(ImmBits)
              d == Pow(Bits - 1 - ImmBits)
              e == Pow(ImmBits - 1)
  <2>1. p \in Nat \ {0} /\ d \in Nat \ {0} /\ e \in Nat
    BY PowNat
  <2>2. Half = p * d
    <3>1. ImmBits + (Bits - 1 - ImmBits) = Bits - 1
      OBVIOUS
    <3>2. QED BY <3>1, PowSum DEF Half
  <2>3. p = 2 * e
    <3>1. ImmBits - 1 \in 0 .. 2 * Bits - 1 /\ ImmBits - 1 + 1 = ImmBits
      OBVIOUS
    <3>2. QED BY <3>1, PowerAssumption
  <2>. HIDE DEF p, d, e
  <2>4. p * d >= p
    BY <2>1
  <2>5. p % 2 = 0
    BY <2>1, <2>3
  <2>6. QED BY <1>2, <2>1, <2>2, <2>4, <2>5 DEF p
<1>7. QED BY <1>2, <1>3, <1>4, <1>5, <1>6

-----------------------------------------------------------------------------
(* Signs.  A size is that of a word or of a doubleword. *)

\* The sizes, and what is needed of them.
IsSize(m) == m \in Nat /\ m >= 2 /\ m % 2 = 0

\* The three sizes are such.
LEMMA SizesAre == IsSize(W32) /\ IsSize(W64) /\ IsSize(Pow(ImmBits))
<1>1. \A h \in Nat : h >= 1 => IsSize(2 * h)
  BY DEF IsSize
<1>2. IsSize(2 * Half) /\ IsSize(2 * (Half * W32))
  <2>1. Half \in Nat /\ Half >= 1 /\ Half * W32 \in Nat /\ Half * W32 >= 1
    BY Sizes
  <2>. DEFINE d == Half * W32
  <2>. HIDE DEF d
  <2>2. QED BY <1>1, <2>1 DEF d
<1>3. QED BY <1>2, Sizes DEF IsSize

\* The signed number of a pattern is the one in range that the pattern stands for.
LEMMA SignedIs ==
  ASSUME NEW m, IsSize(m), NEW x \in 0 .. m - 1
  PROVE  /\ Signed(x, m) \in Int /\ InRange(Signed(x, m), m)
         /\ Signed(x, m) % m = x
         /\ Signed(x, m) < 0 <=> Msb(x, m)
BY DEF IsSize, Signed, Msb, InRange

\* A number in range is the one its pattern stands for.
LEMMA SignedOf ==
  ASSUME NEW m, IsSize(m), NEW n \in Int, InRange(n, m)
  PROVE  n % m \in 0 .. m - 1 /\ Signed(n % m, m) = n
<1>1. n % m = IF n < 0 THEN n + m ELSE n
  BY DEF IsSize, InRange
<1>2. QED BY <1>1 DEF IsSize, Signed, Msb, InRange

\* The two tests are those of the signed sum and difference, which the result is
\* if they fail.
LEMMA AddOverflow ==
  ASSUME NEW m, IsSize(m), NEW x \in 0 .. m - 1, NEW y \in 0 .. m - 1
  PROVE  LET s == (x + y) % m
             n == Signed(x, m) + Signed(y, m)
         IN  /\ s \in 0 .. m - 1
             /\ OverflowAdd(s, x, y, m) <=> ~InRange(n, m)
             /\ InRange(n, m) => Signed(s, m) = n
<1>. DEFINE s == (x + y) % m
<1>1. s = IF x + y < m THEN x + y ELSE x + y - m
  BY DEF IsSize
<1>. HIDE DEF s
<1>2. /\ s \in 0 .. m - 1
      /\ OverflowAdd(s, x, y, m) <=> ~InRange(Signed(x, m) + Signed(y, m), m)
      /\ InRange(Signed(x, m) + Signed(y, m), m) => Signed(s, m) = Signed(x, m) + Signed(y, m)
  BY <1>1 DEF IsSize, Signed, Msb, InRange, OverflowAdd
<1>3. QED BY <1>2 DEF s
\* The same for the difference.
LEMMA SubOverflow ==
  ASSUME NEW m, IsSize(m), NEW x \in 0 .. m - 1, NEW y \in 0 .. m - 1
  PROVE  LET s == (x - y) % m
             n == Signed(x, m) - Signed(y, m)
         IN  /\ s \in 0 .. m - 1
             /\ OverflowSub(s, x, y, m) <=> ~InRange(n, m)
             /\ InRange(n, m) => Signed(s, m) = n
<1>. DEFINE s == (x - y) % m
<1>1. s = IF x < y THEN x - y + m ELSE x - y
  BY DEF IsSize
<1>. HIDE DEF s
<1>2. /\ s \in 0 .. m - 1
      /\ OverflowSub(s, x, y, m) <=> ~InRange(Signed(x, m) - Signed(y, m), m)
      /\ InRange(Signed(x, m) - Signed(y, m), m) => Signed(s, m) = Signed(x, m) - Signed(y, m)
  BY <1>1 DEF IsSize, Signed, Msb, InRange, OverflowSub
<1>3. QED BY <1>2 DEF s

-----------------------------------------------------------------------------
(* Extension. *)

\* A number put together from a quotient and a remainder comes apart again.
LEMMA Division ==
  ASSUME NEW m \in Nat \ {0}, NEW q \in Int, NEW r \in 0 .. m - 1
  PROVE  (m * q + r) \div m = q /\ (m * q + r) % m = r
OBVIOUS

\* Either kind of word is below its size.
LEMMA Ranges ==
  /\ \A n \in Int : n % W32 \in Word /\ n % W64 \in DWord
  /\ Word \subseteq DWord /\ Word \subseteq Nat /\ DWord \subseteq Nat
  /\ 0 \in Word /\ 1 \in Word
BY Sizes DEF Word, DWord

\* An extended word is a doubleword that is the same signed number and has the
\* word as its lower half.
LEMMA SextIs ==
  ASSUME NEW w \in Word
  PROVE  /\ Sext(w) \in DWord
         /\ Signed(Sext(w), W64) = Signed(w, W32)
         /\ Sext(w) % W32 = w /\ Canon(Sext(w))
<1>. DEFINE n == Signed(w, W32)
            v == Sext(w)
            D == Half * W32
<1>1. n \in Int /\ InRange(n, W32) /\ n % W32 = w /\ (n < 0 <=> Msb(w, W32))
  BY SizesAre, SignedIs DEF Word
<1>2. InRange(n, W64)
  BY <1>1, Sizes DEF InRange
<1>3. v \in DWord /\ Signed(v, W64) = n
  BY <1>1, <1>2, SizesAre, SignedOf DEF Sext, DWord
<1>4. v % W32 = w
  <2>1. CASE n >= 0
    <3>1. v = n
      BY <1>1, <1>2, <2>1, Sizes DEF Sext, InRange
    <3>2. QED BY <1>1, <3>1
  <2>2. CASE n < 0
    <3>1. n = w - W32 /\ w \in Nat /\ w < W32
      BY <1>1, <2>2, Sizes DEF Word, Signed
    <3>2. v = n + W64
      BY <1>1, <1>2, <2>2, Sizes DEF Sext, InRange
    <3>3. v = W32 * (W32 - 1) + w
      BY <3>1, <3>2, Sizes
    <3>. DEFINE q == W32 - 1
    <3>4. q \in Nat /\ W32 \in Nat \ {0} /\ v = W32 * q + w
      BY <3>3, Sizes
    <3>. HIDE DEF q, v
    <3>5. QED BY <3>1, <3>4
  <2>3. QED BY <1>1, <2>1, <2>2
<1>5. QED BY <1>3, <1>4 DEF Canon

\* The extended words are those less than half a word from either end.
LEMMA CanonEnds ==
  ASSUME NEW v \in DWord
  PROVE  Canon(v) <=> v < Half \/ v >= W64 - Half
<1>. DEFINE w == v % W32
<1>1. v \in Nat /\ v < W64 /\ w \in Word /\ w \in Nat
  BY Sizes DEF DWord, Word
<1>2. Sext(w) = IF w < Half THEN w ELSE w - W32 + W64
  BY <1>1, Sizes DEF Sext, Signed, Msb, Word
<1>3. CASE v < Half
  <2>1. w = v
    BY <1>1, <1>3, Sizes
  <2>2. QED BY <1>2, <1>3, <2>1 DEF Canon
<1>4. CASE v >= W64 - Half
  <2>. DEFINE t == W64 - v
              u == W32 - t
              q == W32 - 1
  <2>1. /\ q \in Nat /\ u \in Nat /\ u < W32 /\ u >= Half /\ W32 \in Nat \ {0}
        /\ u = v - W64 + W32
    BY <1>1, <1>4, Sizes
  <2>2. W64 - W32 = W32 * q
    BY Sizes
  <2>3. v = W32 * q + u
    BY <1>1, <2>1, <2>2, Sizes
  <2>. HIDE DEF t, u, q
  <2>4. w = u
    <3>1. q \in Int /\ u \in 0 .. W32 - 1 /\ W32 \in Nat \ {0}
      BY <2>1
    <3>2. (W32 * q + u) % W32 = u
      BY <3>1, Division
    <3>3. QED BY <2>3, <3>2
  <2>5. QED BY <1>1, <1>2, <1>4, <2>1, <2>4, Sizes DEF Canon
<1>5. CASE ~(v < Half \/ v >= W64 - Half)
  <2>. HIDE DEF w
  <2>1. Sext(w) # v
    BY <1>1, <1>2, <1>5, Sizes DEF Word
  <2>2. QED BY <1>5, <2>1 DEF Canon, w
<1>6. QED BY <1>3, <1>4, <1>5

\* An extended immediate operand.
LEMMA SextImmIs ==
  ASSUME NEW j \in Imm
  PROVE  /\ SextImm(j, W32) \in Word /\ SextImm(j, W64) \in DWord
         /\ j \in Nat /\ j \in DWord /\ Canon(j)
<1>1. j \in Nat /\ j < Half /\ Signed(j, Pow(ImmBits)) \in Int
  BY Sizes DEF Imm, Signed
<1>2. SextImm(j, W32) \in Word /\ SextImm(j, W64) \in DWord
  BY <1>1, Ranges DEF SextImm
<1>3. j \in DWord
  BY <1>1, Sizes DEF DWord
<1>4. QED BY <1>1, <1>2, <1>3, CanonEnds

-----------------------------------------------------------------------------
(* Bits. *)

\* A quotient by a power is twice the next one and a bit.
LEMMA BitIs ==
  ASSUME NEW v \in DWord, NEW j \in 0 .. 2 * Bits - 1
  PROVE  /\ v \div Pow(j) \in Nat /\ v \div Pow(j + 1) \in Nat
         /\ Bit(v, j) \in {0, 1}
         /\ v \div Pow(j) = 2 * (v \div Pow(j + 1)) + Bit(v, j)
<1>. DEFINE P == Pow(j)
            q == v \div (2 * P)
            r == v % (2 * P)
<1>1. P \in Nat \ {0} /\ Pow(j + 1) = 2 * P /\ v \in Nat
  BY PowNat, PowerAssumption, AluAssumption, Ranges
<1>. HIDE DEF P
<1>2. q \in Nat /\ r \in 0 .. 2 * P - 1 /\ v = (2 * P) * q + r
  <2>. DEFINE m == 2 * P
  <2>1. m \in Nat \ {0}
    BY <1>1
  <2>. HIDE DEF m
  <2>2. v \div m \in Nat /\ v % m \in 0 .. m - 1 /\ v = m * (v \div m) + (v % m)
    BY <1>1, <2>1
  <2>3. QED BY <2>2 DEF m
<1>. HIDE DEF q, r
<1>3. v \div P = IF r < P THEN 2 * q ELSE 2 * q + 1
  <2>1. CASE r < P
    <3>1. 2 * q \in Int /\ r \in 0 .. P - 1 /\ v = P * (2 * q) + r
      BY <1>1, <1>2, <2>1
    <3>2. QED BY <1>1, <2>1, <3>1, Division
  <2>2. CASE ~(r < P)
    <3>1. 2 * q + 1 \in Int /\ r - P \in 0 .. P - 1 /\ v = P * (2 * q + 1) + (r - P)
      BY <1>1, <1>2, <2>2
    <3>2. QED BY <1>1, <2>2, <3>1, Division
  <2>3. QED BY <2>1, <2>2
<1>4. Bit(v, j) = IF r < P THEN 0 ELSE 1
  BY <1>2, <1>3 DEF Bit, P
<1>5. v \div P = 2 * q + Bit(v, j) /\ v \div P \in Nat
  BY <1>2, <1>3, <1>4
<1>6. QED BY <1>1, <1>2, <1>4, <1>5 DEF P, q

\* The bits from the sign of the lower word upwards.
High(v, c) == \A j \in Bits - 1 .. 2 * Bits - 1 : Bit(v, j) = c

\* They are all 0, or all 1, in the numbers less than half a word from an end.
LEMMA HighEnds ==
  ASSUME NEW v \in DWord, NEW c \in {0, 1}, High(v, c)
  PROVE  IF c = 0 THEN v < Half ELSE v >= W64 - Half
<1>. Bits \in Nat /\ Bits >= 2
  BY AluAssumption
<1>. v \in Nat /\ v < W64 /\ W64 \in Nat
  BY Sizes DEF DWord
<1>. DEFINE S == {k \in Nat : k <= Bits + 1 =>
                    v \div Pow(2 * Bits - k) = c * (Pow(k) - 1)}
<1>1. 0 \in S
  <2>1. v \div W64 = 0
    BY Sizes
  <2>2. Pow(2 * Bits - 0) = W64 /\ Pow(0) = 1
    BY PowerAssumption DEF W64
  <2>3. QED BY <2>1, <2>2
<1>2. ASSUME NEW k \in Nat, k \in S
      PROVE  k + 1 \in S
  <2>1. SUFFICES ASSUME k + 1 <= Bits + 1
                 PROVE  v \div Pow(2 * Bits - (k + 1)) = c * (Pow(k + 1) - 1)
    OBVIOUS
  <2>. DEFINE j == 2 * Bits - (k + 1)
  <2>2. /\ j \in 0 .. 2 * Bits - 1 /\ j \in Bits - 1 .. 2 * Bits - 1
        /\ j + 1 = 2 * Bits - k /\ k \in 0 .. 2 * Bits - 1
    BY <2>1
  <2>3. v \div Pow(j) = 2 * (v \div Pow(j + 1)) + c
    BY <2>2, BitIs DEF High
  <2>4. v \div Pow(j + 1) = c * (Pow(k) - 1)
    BY <1>2, <2>1, <2>2
  <2>5. Pow(k + 1) = 2 * Pow(k) /\ Pow(k) \in Nat
    BY <2>2, PowNat, PowerAssumption
  <2>. HIDE DEF j
  <2>6. v \div Pow(j) = 2 * (c * (Pow(k) - 1)) + c
    BY <2>3, <2>4
  <2>7. 2 * (c * (Pow(k) - 1)) + c = c * (2 * Pow(k) - 1)
    BY <2>5
  <2>8. QED BY <2>5, <2>6, <2>7 DEF j
<1>. HIDE DEF S
<1>3. Bits + 1 \in S
  BY <1>1, <1>2, Induction
<1>4. v \div Half = c * (Pow(Bits + 1) - 1)
  <2>1. 2 * Bits - (Bits + 1) = Bits - 1
    OBVIOUS
  <2>2. QED BY <1>3, <2>1 DEF S, Half
<1>5. W64 = Half * Pow(Bits + 1) /\ Pow(Bits + 1) \in Nat
  <2>. DEFINE m == Bits - 1
              n == Bits + 1
  <2>1. m \in Nat /\ n \in Nat /\ m + n = 2 * Bits /\ n \in 0 .. 2 * Bits
    OBVIOUS
  <2>. HIDE DEF m, n
  <2>2. Pow(n) \in Nat
    BY <2>1, PowNat
  <2>3. Pow(2 * Bits) = Pow(m) * Pow(n)
    <3>1. m + n <= 2 * Bits
      BY <2>1
    <3>2. Pow(m + n) = Pow(m) * Pow(n)
      BY <2>1, <3>1, PowSum
    <3>3. QED BY <2>1, <3>2
  <2>4. QED BY <2>2, <2>3 DEF W64, Half, m, n
<1>. DEFINE q == v \div Half
            r == v % Half
<1>6. q \in Nat /\ r \in 0 .. Half - 1 /\ v = Half * q + r /\ Half \in Nat
  BY Sizes
<1>7. CASE c = 0
  <2>1. q = 0
    BY <1>4, <1>5, <1>7
  <2>. HIDE DEF q, r
  <2>2. v = r
    BY <1>6, <2>1
  <2>3. QED BY <1>6, <1>7, <2>2
<1>8. CASE c = 1
  <2>1. q = Pow(Bits + 1) - 1
    BY <1>4, <1>5, <1>8
  <2>. HIDE DEF q, r
  <2>2. Half * q = W64 - Half
    BY <1>5, <1>6, <2>1
  <2>3. QED BY <1>6, <1>8, <2>2
<1>9. QED BY <1>7, <1>8

\* And conversely.
LEMMA EndsHigh ==
  ASSUME NEW v \in DWord, NEW c \in {0, 1}, IF c = 0 THEN v < Half ELSE v >= W64 - Half
  PROVE  High(v, c)
<1>. Bits \in Nat /\ Bits >= 2
  BY AluAssumption
<1>. v \in Nat /\ v < W64 /\ W64 \in Nat /\ Half \in Nat /\ Half >= 2
  BY Sizes DEF DWord
<1>1. SUFFICES ASSUME NEW j \in Bits - 1 .. 2 * Bits - 1
               PROVE  Bit(v, j) = c
  BY DEF High
<1>. DEFINE P == Pow(j)
            d == Pow(j - (Bits - 1))
            e == Pow(2 * Bits - 1 - j)
            K == 2 * e
<1>2. P \in Nat \ {0} /\ d \in Nat \ {0} /\ e \in Nat \ {0}
  BY PowNat
<1>3. P = Half * d
  <2>1. Bits - 1 + (j - (Bits - 1)) = j
    OBVIOUS
  <2>2. QED BY <2>1, PowSum DEF Half
<1>4. W64 = P * K
  <2>1. /\ 2 * Bits - 1 - j \in 0 .. 2 * Bits - 1 /\ j + (2 * Bits - 1 - j + 1) = 2 * Bits
        /\ 2 * Bits - 1 - j + 1 \in Nat
    OBVIOUS
  <2>2. Pow(2 * Bits - 1 - j + 1) = K
    BY <2>1, PowerAssumption
  <2>3. QED BY <2>1, <2>2, PowSum DEF W64
<1>. HIDE DEF P, d, e
<1>5. P >= Half
  BY <1>2, <1>3
<1>6. v \div P = IF c = 0 THEN 0 ELSE K - 1
  <2>1. CASE c = 0
    BY <1>2, <1>5, <2>1
  <2>2. CASE c = 1
    <3>. DEFINE r == v - P * (K - 1)
    <3>1. P * (K - 1) = W64 - P /\ K - 1 \in Int
      BY <1>2, <1>4
    <3>2. r \in 0 .. P - 1
      BY <1>2, <1>5, <2>2, <3>1
    <3>3. v = P * (K - 1) + r
      BY <1>2, <3>1
    <3>. HIDE DEF r, K
    <3>. DEFINE k == K - 1
    <3>4. k \in Int /\ v = P * k + r
      BY <3>1, <3>3
    <3>. HIDE DEF k
    <3>5. (P * k + r) \div P = k
      BY <1>2, <3>2, <3>4, Division
    <3>6. QED BY <2>2, <3>4, <3>5 DEF k
  <2>3. QED BY <2>1, <2>2
<1>7. Bit(v, j) = (v \div P) % 2
  BY DEF Bit, P
<1>8. (K - 1) % 2 = 1 /\ 0 % 2 = 0
  BY <1>2
<1>9. QED BY <1>6, <1>7, <1>8

\* So the extended words are those whose upper half repeats the sign of the lower.
LEMMA CanonBits ==
  ASSUME NEW v \in DWord
  PROVE  Canon(v) <=> \E c \in {0, 1} : High(v, c)
<1>1. Canon(v) => \E c \in {0, 1} : High(v, c)
  BY CanonEnds, EndsHigh
<1>2. ASSUME NEW c \in {0, 1}, High(v, c)
      PROVE  Canon(v)
  BY <1>2, CanonEnds, HighEnds
<1>3. QED BY <1>1, <1>2

LogicOps == {"AND", "ANDI", "OR", "ORI", "XOR", "XORI", "NOR"}

\* A gate of two bits is a bit.
LEMMA GateBit ==
  ASSUME NEW op \in LogicOps, NEW p \in {0, 1}, NEW q \in {0, 1}
  PROVE  Gate(op, p, q) \in {0, 1}
<1>1. /\ p * q \in {0, 1} /\ p + q - p * q \in {0, 1} /\ (p + q) % 2 \in {0, 1}
      /\ 1 - (p + q - p * q) \in {0, 1}
  <2>1. CASE p = 0 /\ q = 0
    BY <2>1
  <2>2. CASE p = 0 /\ q = 1
    BY <2>2
  <2>3. CASE p = 1 /\ q = 0
    BY <2>3
  <2>4. CASE p = 1 /\ q = 1
    BY <2>4
  <2>5. QED BY <2>1, <2>2, <2>3, <2>4
<1>2. /\ op \in {"AND", "ANDI"} => Gate(op, p, q) = p * q
      /\ op \in {"OR", "ORI"} => Gate(op, p, q) = p + q - p * q
      /\ op \in {"XOR", "XORI"} => Gate(op, p, q) = (p + q) % 2
      /\ op = "NOR" => Gate(op, p, q) = 1 - (p + q - p * q)
  BY DEF Gate
<1>3. QED BY <1>1, <1>2 DEF LogicOps

\* Logic on extended words makes an extended word, without reading any width.
LEMMA LogicCanon ==
  ASSUME NEW op \in LogicOps, NEW x \in DWord, NEW y \in DWord, NEW v \in DWord,
         Canon(x), Canon(y),
         \A j \in 0 .. 2 * Bits - 1 : Bit(v, j) = Gate(op, Bit(x, j), Bit(y, j))
  PROVE  Canon(v)
<1>1. PICK p \in {0, 1}, q \in {0, 1} : High(x, p) /\ High(y, q)
  BY CanonBits
<1>2. Gate(op, p, q) \in {0, 1}
  BY GateBit
<1>3. \A j \in Bits - 1 .. 2 * Bits - 1 : j \in 0 .. 2 * Bits - 1
  BY AluAssumption
<1>4. High(v, Gate(op, p, q))
  BY <1>1, <1>3 DEF High
<1>5. QED BY <1>2, <1>4, CanonBits

-----------------------------------------------------------------------------
(* The invariant.  Apart from the types, what a step must establish is about *)
(* the instruction it runs, and only Canonical leans on the state before.    *)

IInv == TypeOK /\ TrapsIffOverflows /\ DivMulExact /\ Canonical

TrapOps == {"ADD", "ADDI", "SUB", "DADD", "DADDI", "DSUB"}
HiLoOps == {"MULT", "MULTU", "DMULT", "DMULTU", "DIV", "DIVU", "DDIV", "DDIVU"}

\* What the registers hold after a write.
LEMMA Written ==
  ASSUME TypeOK, NEW dst \in Regs, NEW v \in DWord, WriteGpr64(dst, v)
  PROVE  /\ gpr' \in [Regs -> DWord] /\ gpr'[0] = 0
         /\ dst # 0 => gpr'[dst] = v
         /\ \A r \in Regs : gpr'[r] = gpr[r] \/ gpr'[r] = v
<1>. 0 \in Regs
  BY AluAssumption
<1>1. QED BY DEF TypeOK, WriteGpr64

\* An instruction that is no multiplication or division is none of DivMulExact's.
LEMMA NotHiLo ==
  ASSUME last'.op \notin HiLoOps
  PROVE  DivMulExact'
BY DEF DivMulExact, HiLoOps
\* And one that cannot trap none of TrapsIffOverflows's.
LEMMA NotTrapping ==
  ASSUME last'.op \notin TrapOps
  PROVE  TrapsIffOverflows'
BY DEF TrapsIffOverflows, IsTrapping, TrapOps

\* An instruction that cannot trap and writes a general register, in 32-bit code
\* an extended word.
LEMMA Ordinary ==
  ASSUME IInv, insts < MaxInsts, NEW op, op \notin TrapOps, op \notin HiLoOps,
         NEW wide \in BOOLEAN, NEW x, NEW y, NEW dst \in Regs, NEW v \in DWord,
         narrow /\ ~wide => Canon(v), Result64(op, wide, x, y, dst, v)
  PROVE  IInv'
<1>1. TypeOK
  BY DEF IInv
<1>2. /\ gpr' \in [Regs -> DWord] /\ gpr'[0] = 0
      /\ \A r \in Regs : gpr'[r] = gpr[r] \/ gpr'[r] = v
  BY <1>1, Written DEF Result64
<1>3. TypeOK'
  <2>1. narrow' \in BOOLEAN /\ ovf' \in BOOLEAN /\ hasException' = hasException
    BY <1>1, Zenon DEF TypeOK, Result64, Inst, Plain
  <2>2. hi' = hi /\ lo' = lo /\ insts' = insts + 1
    BY DEF Result64, Inst, Plain
  <2>3. insts' \in 0 .. MaxInsts
    BY <1>1, <2>2, AluAssumption DEF TypeOK
  <2>4. QED BY <1>1, <1>2, <2>1, <2>2, <2>3, Zenon DEF TypeOK
<1>4. last'.op = op
  BY DEF Result64, Inst
<1>5. TrapsIffOverflows' /\ DivMulExact'
  BY <1>4, NotHiLo, NotTrapping
<1>6. Canonical'
  <2>1. SUFFICES ASSUME narrow' PROVE Canon(hi)' /\ Canon(lo)' /\ \A r \in Regs : Canon(gpr'[r])
    BY DEF Canonical
  <2>2. narrow /\ ~wide /\ hi' = hi /\ lo' = lo
    BY <2>1 DEF Result64, Inst, Plain
  <2>3. Canon(v) /\ Canon(hi) /\ Canon(lo) /\ \A r \in Regs : Canon(gpr[r])
    BY <2>2 DEF IInv, Canonical
  <2>4. \A r \in Regs : Canon(gpr'[r])
    BY <1>2, <2>3
  <2>5. Canon(hi)' /\ Canon(lo)'
    BY <2>2, <2>3 DEF Canon, Sext, Signed, Msb
  <2>6. QED BY <2>4, <2>5
<1>7. QED BY <1>3, <1>5, <1>6 DEF IInv

\* One that writes a word.
LEMMA Ordinary32 ==
  ASSUME IInv, insts < MaxInsts, NEW op, op \notin TrapOps, op \notin HiLoOps,
         NEW x, NEW y, NEW dst \in Regs, NEW w \in Word, Result32(op, x, y, dst, w)
  PROVE  IInv'
<1>1. Sext(w) \in DWord /\ Canon(Sext(w))
  BY SextIs
<1>2. Result64(op, FALSE, x, y, dst, Sext(w))
  BY DEF Result32, Result64, WriteGpr32Sext
<1>3. QED BY <1>1, <1>2, Ordinary

\* A trapping instruction of one width, given what its result is.
LEMMA Traps ==
  ASSUME IInv, insts < MaxInsts, NEW op \in TrapOps, NEW wide \in BOOLEAN,
         NEW x, NEW y, NEW dst \in Regs, NEW v \in DWord,
         NEW overflows \in BOOLEAN,
         Exact([op |-> op, x |-> x, y |-> y, dst |-> dst, file |-> gpr]) \in Int,
         LET n == Exact([op |-> op, x |-> x, y |-> y, dst |-> dst, file |-> gpr])
         IN  /\ overflows <=> ~InRange(n, Size(op)) /\ (Size(op) = W32 => hasException)
             /\ InRange(n, Size(op)) => Signed(v, W64) = n,
         ~wide => Canon(v),
         Inst(op, wide, x, y, dst), Trapping(overflows, WriteGpr64(dst, v))
  PROVE  IInv'
<1>. DEFINE l == [op |-> op, x |-> x, y |-> y, dst |-> dst, file |-> gpr]
<1>1. TypeOK
  BY DEF IInv
<1>2. /\ gpr' \in [Regs -> DWord] /\ gpr'[0] = 0
      /\ ~overflows /\ dst # 0 => gpr'[dst] = v
      /\ overflows => gpr' = gpr
      /\ \A r \in Regs : gpr'[r] = gpr[r] \/ gpr'[r] = v
  <2>1. CASE overflows
    BY <1>1, <2>1 DEF Trapping, TypeOK
  <2>2. CASE ~overflows
    BY <1>1, <2>2, Written DEF Trapping
  <2>3. QED BY <2>1, <2>2
<1>3. TypeOK'
  <2>1. narrow' \in BOOLEAN /\ ovf' \in BOOLEAN /\ hasException' = hasException
    BY <1>1, Zenon DEF TypeOK, Trapping, Inst
  <2>2. hi' = hi /\ lo' = lo /\ insts' = insts + 1
    BY DEF Trapping, Inst
  <2>3. insts' \in 0 .. MaxInsts
    BY <1>1, <2>2, AluAssumption DEF TypeOK
  <2>4. QED BY <1>1, <1>2, <2>1, <2>2, <2>3, Zenon DEF TypeOK
<1>4. last' = l /\ ovf' = overflows /\ hasException' = hasException
  BY DEF Inst, Trapping
<1>5. DivMulExact'
  <2>1. last'.op \notin HiLoOps
    BY <1>4 DEF TrapOps, HiLoOps
  <2>2. QED BY <2>1, NotHiLo
<1>6. TrapsIffOverflows'
  <2>1. /\ last'.op = op /\ last'.dst = dst /\ last'.file = gpr
        /\ Exact(last') = Exact(l) /\ Exact(last)' = Exact(last') 
    BY <1>4 DEF Exact, Size, Signed, Msb
  <2>2. Size(last'.op) = Size(op)
    BY <2>1
  <2>3. QED BY <1>2, <1>4, <2>1, <2>2 DEF TrapsIffOverflows, InRange, Signed, Msb
<1>7. Canonical'
  <2>1. SUFFICES ASSUME narrow' PROVE Canon(hi)' /\ Canon(lo)' /\ \A r \in Regs : Canon(gpr'[r])
    BY DEF Canonical
  <2>2. narrow /\ ~wide /\ hi' = hi /\ lo' = lo
    BY <2>1 DEF Inst, Trapping
  <2>3. Canon(v) /\ Canon(hi) /\ Canon(lo) /\ \A r \in Regs : Canon(gpr[r])
    BY <2>2 DEF IInv, Canonical
  <2>4. \A r \in Regs : Canon(gpr'[r])
    BY <1>2, <2>3
  <2>5. Canon(hi)' /\ Canon(lo)'
    BY <2>2, <2>3 DEF Canon, Sext, Signed, Msb
  <2>6. QED BY <2>4, <2>5
<1>8. QED BY <1>3, <1>5, <1>6, <1>7 DEF IInv

\* What an addition or a subtraction is exact about.
LEMMA ExactIs ==
  ASSUME NEW op, NEW x, NEW y, NEW dst, NEW f
  PROVE  LET l == [op |-> op, x |-> x, y |-> y, dst |-> dst, file |-> f]
         IN  /\ op \in {"ADD", "ADDI"} => Exact(l) = Signed(x, W32) + Signed(y, W32)
             /\ op = "SUB" => Exact(l) = Signed(x, W32) - Signed(y, W32)
             /\ op \in {"DADD", "DADDI"} => Exact(l) = Signed(x, W64) + Signed(y, W64)
             /\ op = "DSUB" => Exact(l) = Signed(x, W64) - Signed(y, W64)
             /\ op \in {"ADD", "ADDI", "SUB"} => Size(op) = W32
             /\ op \in {"DADD", "DADDI", "DSUB"} => Size(op) = W64
BY DEF Exact, Size

\* The sizes of a word and of a doubleword differ.
LEMMA TwoSizes == W32 # W64
BY Sizes

\* The 32-bit additions that may trap.
LEMMA Adds32 ==
  ASSUME IInv, insts < MaxInsts, NEW op \in {"ADD", "ADDI"},
         NEW x \in Word, NEW y \in Word, NEW dst \in Regs, Add32(op, x, y, dst)
  PROVE  IInv'
<1>. DEFINE w == (x + y) % W32
            n == Signed(x, W32) + Signed(y, W32)
            l == [op |-> op, x |-> x, y |-> y, dst |-> dst, file |-> gpr]
            o == hasException /\ OverflowAdd(w, x, y, W32)
<1>1. w \in Word /\ (OverflowAdd(w, x, y, W32) <=> ~InRange(n, W32))
      /\ (InRange(n, W32) => Signed(w, W32) = n)
  BY SizesAre, AddOverflow DEF Word
<1>2. n \in Int
  BY SizesAre, SignedIs DEF Word
<1>3. Sext(w) \in DWord /\ Canon(Sext(w)) /\ Signed(Sext(w), W64) = Signed(w, W32)
  BY <1>1, SextIs
<1>4. Exact(l) = n /\ Size(op) = W32
  BY ExactIs
<1>5. Inst(op, FALSE, x, y, dst) /\ Trapping(o, WriteGpr64(dst, Sext(w)))
  BY DEF Add32, WriteGpr32Sext
<1>6. o \in BOOLEAN /\ (o <=> ~InRange(n, W32) /\ hasException)
  BY <1>1, Zenon DEF IInv, TypeOK
<1>7. op \in TrapOps
  BY DEF TrapOps
<1>. HIDE DEF w, n, o
<1>8. QED BY <1>1, <1>2, <1>3, <1>4, <1>5, <1>6, <1>7, Traps

\* The 32-bit subtraction that may trap.
LEMMA Subs32 ==
  ASSUME IInv, insts < MaxInsts,
         NEW x \in Word, NEW y \in Word, NEW dst \in Regs, Sub32("SUB", x, y, dst)
  PROVE  IInv'
<1>. DEFINE w == (x - y) % W32
            n == Signed(x, W32) - Signed(y, W32)
            l == [op |-> "SUB", x |-> x, y |-> y, dst |-> dst, file |-> gpr]
            o == hasException /\ OverflowSub(w, x, y, W32)
<1>1. w \in Word /\ (OverflowSub(w, x, y, W32) <=> ~InRange(n, W32))
      /\ (InRange(n, W32) => Signed(w, W32) = n)
  BY SizesAre, SubOverflow DEF Word
<1>2. n \in Int
  BY SizesAre, SignedIs DEF Word
<1>3. Sext(w) \in DWord /\ Canon(Sext(w)) /\ Signed(Sext(w), W64) = Signed(w, W32)
  BY <1>1, SextIs
<1>4. Exact(l) = n /\ Size("SUB") = W32
  BY ExactIs
<1>5. Inst("SUB", FALSE, x, y, dst) /\ Trapping(o, WriteGpr64(dst, Sext(w)))
  BY DEF Sub32, WriteGpr32Sext
<1>6. o \in BOOLEAN /\ (o <=> ~InRange(n, W32) /\ hasException)
  BY <1>1, Zenon DEF IInv, TypeOK
<1>7. "SUB" \in TrapOps
  BY DEF TrapOps
<1>. HIDE DEF w, n, o
<1>8. QED BY <1>1, <1>2, <1>3, <1>4, <1>5, <1>6, <1>7, Traps

\* The 64-bit additions that may trap, with exceptions enabled or not.
LEMMA Adds64 ==
  ASSUME IInv, insts < MaxInsts, NEW op \in {"DADD", "DADDI"},
         NEW x \in DWord, NEW y \in DWord, NEW dst \in Regs, Add64(op, x, y, dst)
  PROVE  IInv'
<1>. DEFINE w == (x + y) % W64
            n == Signed(x, W64) + Signed(y, W64)
            l == [op |-> op, x |-> x, y |-> y, dst |-> dst, file |-> gpr]
            o == OverflowAdd(w, x, y, W64)
<1>1. w \in DWord /\ (o <=> ~InRange(n, W64)) /\ (InRange(n, W64) => Signed(w, W64) = n)
  BY SizesAre, AddOverflow DEF DWord
<1>2. n \in Int
  BY SizesAre, SignedIs DEF DWord
<1>3. Exact(l) = n /\ Size(op) = W64
  BY ExactIs
<1>4. Inst(op, TRUE, x, y, dst) /\ Trapping(o, WriteGpr64(dst, w))
  BY DEF Add64
<1>5. o \in BOOLEAN
  BY Zenon DEF OverflowAdd
<1>6. op \in TrapOps
  BY DEF TrapOps
<1>. HIDE DEF w, n, o
<1>7. QED BY <1>1, <1>2, <1>3, <1>4, <1>5, <1>6, Traps, TwoSizes

\* The 64-bit subtraction that may trap.
LEMMA Subs64 ==
  ASSUME IInv, insts < MaxInsts,
         NEW x \in DWord, NEW y \in DWord, NEW dst \in Regs, Sub64("DSUB", x, y, dst)
  PROVE  IInv'
<1>. DEFINE w == (x - y) % W64
            n == Signed(x, W64) - Signed(y, W64)
            l == [op |-> "DSUB", x |-> x, y |-> y, dst |-> dst, file |-> gpr]
            o == OverflowSub(w, x, y, W64)
<1>1. w \in DWord /\ (o <=> ~InRange(n, W64)) /\ (InRange(n, W64) => Signed(w, W64) = n)
  BY SizesAre, SubOverflow DEF DWord
<1>2. n \in Int
  BY SizesAre, SignedIs DEF DWord
<1>3. Exact(l) = n /\ Size("DSUB") = W64
  BY ExactIs
<1>4. Inst("DSUB", TRUE, x, y, dst) /\ Trapping(o, WriteGpr64(dst, w))
  BY DEF Sub64
<1>5. o \in BOOLEAN
  BY Zenon DEF OverflowSub
<1>6. "DSUB" \in TrapOps
  BY DEF TrapOps
<1>. HIDE DEF w, n, o
<1>7. QED BY <1>1, <1>2, <1>3, <1>4, <1>5, <1>6, Traps, TwoSizes

-----------------------------------------------------------------------------
(* Products and quotients. *)

\* The upper half of a product fits, as the operands do: of signed numbers it is
\* in range, of patterns it is a pattern.
LEMMA UpperSigned ==
  ASSUME NEW m, IsSize(m), NEW x \in Int, NEW y \in Int, InRange(x, m), InRange(y, m)
  PROVE  (x * y) \div m \in Int /\ InRange((x * y) \div m, m)
<1>1. PICK a \in Nat : m = 2 * a /\ a >= 1
  BY DEF IsSize
<1>2. -a <= x /\ x <= a /\ -a <= y /\ y <= a
  BY <1>1 DEF InRange
<1>. DEFINE p == x * y
            h == p \div m
            r == p % m
            b == a * a
<1>3. p <= b /\ -b <= p
  <2>1. (a - x) * (a + y) >= 0 /\ (a + x) * (a - y) >= 0
    BY <1>2
  <2>2. (a - x) * (a - y) >= 0 /\ (a + x) * (a + y) >= 0
    BY <1>2
  <2>3. /\ (a - x) * (a + y) = b + a * y - x * a - p
        /\ (a + x) * (a - y) = b - a * y + x * a - p
        /\ (a - x) * (a - y) = b - a * y - x * a + p
        /\ (a + x) * (a + y) = b + a * y + x * a + p
    OBVIOUS
  <2>. DEFINE c == a * y
              d == x * a
  <2>4. c \in Int /\ d \in Int /\ p \in Int /\ b \in Int
    OBVIOUS
  <2>5. /\ b + c - d - p >= 0 /\ b - c + d - p >= 0
        /\ b - c - d + p >= 0 /\ b + c + d + p >= 0
    BY <2>1, <2>2, <2>3
  <2>. HIDE DEF p, b, c, d
  <2>6. QED BY <2>4, <2>5
<1>4. p \in Int /\ m \in Nat \ {0}
  BY <1>1
<1>. HIDE DEF p
<1>5. h \in Int /\ r \in 0 .. m - 1 /\ p = m * h + r
  BY <1>4
<1>. HIDE DEF h, r
<1>6. h < a
  <2>1. SUFFICES ASSUME h >= a PROVE FALSE
    BY <1>1, <1>5
  <2>2. a * h >= a * a
    BY <1>1, <1>5, <2>1
  <2>3. b >= 1 /\ b \in Nat
    BY <1>1
  <2>4. m * h = 2 * (a * h)
    BY <1>1, <1>5
  <2>. DEFINE e == a * h
  <2>5. e \in Int /\ p = 2 * e + r /\ e >= b
    BY <1>1, <1>5, <2>2, <2>4
  <2>. HIDE DEF b, e
  <2>6. QED BY <1>3, <1>5, <2>3, <2>5
<1>7. h >= -a
  <2>1. SUFFICES ASSUME h <= -a - 1 PROVE FALSE
    BY <1>1, <1>5
  <2>2. a * h <= a * (-a - 1)
    BY <1>1, <1>5, <2>1
  <2>3. a * (-a - 1) = -b - a /\ b \in Nat
    BY <1>1
  <2>4. m * h = 2 * (a * h)
    BY <1>1, <1>5
  <2>. DEFINE e == a * h
  <2>5. e \in Int /\ p = 2 * e + r /\ e <= -b - a
    BY <1>1, <1>5, <2>2, <2>3, <2>4
  <2>. HIDE DEF b, e
  <2>6. QED BY <1>1, <1>3, <1>5, <2>3, <2>5
<1>8. QED BY <1>1, <1>5, <1>6, <1>7 DEF InRange, h, p

\* The unsigned case.
LEMMA UpperUnsigned ==
  ASSUME NEW m, IsSize(m), NEW x \in 0 .. m - 1, NEW y \in 0 .. m - 1
  PROVE  (x * y) \div m \in 0 .. m - 1
<1>. DEFINE p == x * y
            h == p \div m
            r == p % m
<1>1. m \in Nat \ {0} /\ p \in Nat
  BY DEF IsSize
<1>2. p <= (m - 1) * (m - 1)
  <2>1. x * y <= (m - 1) * y
    BY <1>1
  <2>2. (m - 1) * y <= (m - 1) * (m - 1)
    BY <1>1
  <2>3. x * y \in Int /\ (m - 1) * y \in Int /\ (m - 1) * (m - 1) \in Int
    BY <1>1
  <2>4. QED BY <2>1, <2>2, <2>3
<1>3. (m - 1) * (m - 1) < m * m /\ m * m \in Nat
  BY <1>1
<1>. HIDE DEF p
<1>4. h \in Nat /\ r \in 0 .. m - 1 /\ p = m * h + r
  BY <1>1
<1>. HIDE DEF h, r
<1>5. h < m
  <2>1. SUFFICES ASSUME h >= m PROVE FALSE
    BY <1>1, <1>4
  <2>2. m * h >= m * m
    BY <1>1, <1>4, <2>1
  <2>3. m * h \in Nat /\ (m - 1) * (m - 1) \in Int
    BY <1>1, <1>4
  <2>4. QED BY <1>1, <1>2, <1>3, <1>4, <2>2, <2>3
<1>6. QED BY <1>1, <1>4, <1>5 DEF h, p

\* What division towards zero gives, for a quotient that is in range.
LEMMA QuotientIs ==
  ASSUME NEW m, IsSize(m), NEW n \in Int, NEW d \in Int, InRange(n, m), InRange(d, m),
         d # 0, ~(2 * n = -m /\ d = -1)
  PROVE  LET q == Quotient(n, d)
             r == Remainder(n, d)
         IN  /\ q \in Int /\ InRange(q, m) /\ r \in Int /\ InRange(r, m)
             /\ r + q * d = n
             /\ Magnitude(r) < Magnitude(d)
             /\ r # 0 => (r < 0) = (n < 0)
<1>. DEFINE N == Magnitude(n)
            D == Magnitude(d)
            k == N \div D
            s == N % D
            q == Quotient(n, d)
            r == Remainder(n, d)
<1>1. N \in Nat /\ D \in Nat \ {0} /\ m \in Nat /\ 2 * N <= m /\ 2 * D <= m
  BY DEF Magnitude, InRange, IsSize
<1>2. n = (IF n < 0 THEN -N ELSE N) /\ d = (IF d < 0 THEN -D ELSE D)
  BY DEF Magnitude
<1>3. q = IF (n < 0) = (d < 0) THEN k ELSE -k
  BY DEF Quotient
<1>4. r = n - d * q
  BY DEF Remainder
<1>. HIDE DEF N, D, q, r
<1>5. k \in Nat /\ s \in 0 .. D - 1 /\ N = D * k + s
  BY <1>1
<1>. HIDE DEF k, s
<1>6. r = IF n < 0 THEN -s ELSE s
  <2>1. CASE n < 0 /\ d < 0
    BY <1>1, <1>2, <1>3, <1>4, <1>5, <2>1
  <2>2. CASE n < 0 /\ ~(d < 0)
    BY <1>1, <1>2, <1>3, <1>4, <1>5, <2>2
  <2>3. CASE ~(n < 0) /\ d < 0
    BY <1>1, <1>2, <1>3, <1>4, <1>5, <2>3
  <2>4. CASE ~(n < 0) /\ ~(d < 0)
    BY <1>1, <1>2, <1>3, <1>4, <1>5, <2>4
  <2>5. QED BY <2>1, <2>2, <2>3, <2>4
<1>7. q \in Int /\ r \in Int
  BY <1>3, <1>5, <1>6
<1>8. InRange(q, m)
  <2>1. CASE D = 1
    <3>1. k = N
      BY <1>5, <2>1
    <3>2. QED BY <1>1, <1>2, <1>3, <3>1, <2>1 DEF InRange
  <2>2. CASE D >= 2
    <3>1. D * k >= 2 * k
      BY <1>1, <1>5, <2>2
    <3>2. D * k \in Nat
      BY <1>1, <1>5
    <3>3. 2 * k <= N
      BY <1>1, <1>5, <3>1, <3>2
    <3>4. 2 * k < m
      BY <1>1, <1>5, <3>3 DEF IsSize
    <3>5. QED BY <1>1, <1>3, <1>5, <3>4 DEF InRange
  <2>3. QED BY <1>1, <2>1, <2>2
<1>9. InRange(r, m) /\ Magnitude(r) < D /\ (r # 0 => (r < 0) = (n < 0))
  BY <1>1, <1>5, <1>6 DEF InRange, Magnitude
<1>10. r + q * d = n
  <2>1. d * q \in Int /\ d * q = q * d
    BY <1>7
  <2>2. QED BY <1>4, <2>1
<1>11. QED BY <1>7, <1>8, <1>9, <1>10 DEF D, q, r

-----------------------------------------------------------------------------
(* HI and LO. *)

\* What DivMulExact asks of a multiplication, and of a division, of numbers x and y
\* that leave the numbers h in HI and l in LO, whose pattern is p.
ProductOK(x, y, h, p, size) == h * size + p = x * y
DivisionOK(x, y, h, l, p, size) ==
  IF y = 0 THEN h = x /\ Signed(p, size) = IF x < 0 THEN 1 ELSE -1
  ELSE /\ h + l * y = x \/ (2 * x = -size /\ y = -1 /\ h = 0 /\ l = x)
       /\ Magnitude(h) < Magnitude(y)
       /\ h # 0 => (h < 0) = (x < 0)

\* How each instruction reads its operands and its results.
SignedOps == {"MULT", "DMULT", "DIV", "DDIV"}
ProductOps == {"MULT", "MULTU", "DMULT", "DMULTU"}
WideOps == {"DMULT", "DMULTU", "DDIV", "DDIVU"}
OpSize(op) == IF op \in WideOps THEN W64 ELSE W32
Num(op, v) == IF op \in SignedOps THEN Signed(v % OpSize(op), OpSize(op)) ELSE v % OpSize(op)

\* DivMulExact asks one of them of the instruction that ran.
LEMMA Asked ==
  ASSUME NEW op \in HiLoOps, last'.op = op,
         op \in ProductOps =>
           ProductOK(Num(op, last'.x), Num(op, last'.y), Num(op, hi'), lo' % OpSize(op), OpSize(op)),
         op \notin ProductOps =>
           DivisionOK(Num(op, last'.x), Num(op, last'.y), Num(op, hi'), Num(op, lo'),
                      lo' % OpSize(op), OpSize(op))
  PROVE  DivMulExact'
<1>. DEFINE size == IF last'.op \in WideOps THEN W64 ELSE W32
            N(v, signed) == IF signed THEN Signed(v % size, size) ELSE v % size
<1>1. ASSUME NEW signed \in BOOLEAN
      PROVE  /\ last'.op \in (IF signed THEN {"MULT", "DMULT"} ELSE {"MULTU", "DMULTU"})
                => ProductOK(N(last'.x, signed), N(last'.y, signed), N(hi', signed), lo' % size, size)
             /\ last'.op \in (IF signed THEN {"DIV", "DDIV"} ELSE {"DIVU", "DDIVU"})
                => DivisionOK(N(last'.x, signed), N(last'.y, signed), N(hi', signed),
                              N(lo', signed), lo' % size, size)
  <2>1. size = OpSize(op)
    BY DEF OpSize
  <2>2. CASE op \in SignedOps
    <3>1. signed \/ (/\ last'.op \notin {"MULTU", "DMULTU"}
                     /\ last'.op \notin {"DIVU", "DDIVU"})
      BY <2>2 DEF SignedOps
    <3>2. signed => \A v : N(v, signed) = Num(op, v)
      BY <2>1, <2>2 DEF Num
    <3>. HIDE DEF size, N
    <3>3. /\ op \in {"MULT", "DMULT"} => op \in ProductOps
          /\ op \in {"DIV", "DDIV"} => op \notin ProductOps
      BY DEF ProductOps
    <3>4. QED BY <2>1, <3>1, <3>2, <3>3
  <2>3. CASE op \notin SignedOps
    <3>1. ~signed \/ (/\ last'.op \notin {"MULT", "DMULT"}
                      /\ last'.op \notin {"DIV", "DDIV"})
      BY <2>3 DEF SignedOps
    <3>2. ~signed => \A v : N(v, signed) = Num(op, v)
      BY <2>1, <2>3 DEF Num
    <3>. HIDE DEF size, N
    <3>3. /\ op \in {"MULTU", "DMULTU"} => op \in ProductOps
          /\ op \in {"DIVU", "DDIVU"} => op \notin ProductOps
      BY DEF ProductOps
    <3>4. QED BY <2>1, <3>1, <3>2, <3>3
  <2>4. QED BY <2>2, <2>3
<1>2. QED BY <1>1, Zenon DEF DivMulExact, ProductOK, DivisionOK, WideOps

\* A multiplication or division of words.
LEMMA HiLo32 ==
  ASSUME IInv, insts < MaxInsts, NEW op \in HiLoOps, op \notin WideOps,
         NEW x \in Word, NEW y \in Word, NEW u \in Word, NEW v \in Word,
         Inst(op, FALSE, x, y, 0), hi' = Sext(u), lo' = Sext(v), ovf' = FALSE, UNCHANGED gpr,
         op \in ProductOps => ProductOK(Num(op, x), Num(op, y), Num(op, u), v, W32),
         op \notin ProductOps =>
           DivisionOK(Num(op, x), Num(op, y), Num(op, u), Num(op, v), v, W32)
  PROVE  IInv'
<1>1. /\ hi' \in DWord /\ Canon(hi') /\ hi' % W32 = u
      /\ lo' \in DWord /\ Canon(lo') /\ lo' % W32 = v
  BY SextIs
<1>2. OpSize(op) = W32 /\ u % W32 = u /\ v % W32 = v
  BY Sizes DEF OpSize, Word
<1>3. Num(op, hi') = Num(op, u) /\ Num(op, lo') = Num(op, v)
  BY <1>1, <1>2 DEF Num
<1>4. last'.op = op /\ last'.x = x /\ last'.y = y
  BY DEF Inst
<1>5. DivMulExact'
  BY <1>1, <1>2, <1>3, <1>4, Asked
<1>6. TrapsIffOverflows'
  <2>1. last'.op \notin TrapOps
    BY <1>4 DEF HiLoOps, TrapOps
  <2>2. QED BY <2>1, NotTrapping
<1>7. TypeOK'
  <2>1. narrow' \in BOOLEAN /\ ovf' \in BOOLEAN /\ hasException' \in BOOLEAN
    BY Zenon DEF IInv, TypeOK, Inst
  <2>2. insts' \in 0 .. MaxInsts
    BY AluAssumption DEF IInv, TypeOK, Inst
  <2>3. QED BY <1>1, <2>1, <2>2, Zenon DEF IInv, TypeOK
<1>8. Canonical'
  <2>1. SUFFICES ASSUME narrow' PROVE Canon(hi') /\ Canon(lo') /\ \A r \in Regs : Canon(gpr'[r])
    BY DEF Canonical, Canon, Sext, Signed, Msb
  <2>2. narrow
    BY <2>1 DEF Inst
  <2>3. \A r \in Regs : Canon(gpr[r])
    BY <2>2 DEF IInv, Canonical
  <2>4. QED BY <1>1, <2>3
<1>9. QED BY <1>5, <1>6, <1>7, <1>8 DEF IInv

\* One of doublewords, after which the code is no longer 32-bit code.
LEMMA HiLo64 ==
  ASSUME IInv, insts < MaxInsts, NEW op \in HiLoOps, op \in WideOps,
         NEW x \in DWord, NEW y \in DWord, NEW u \in DWord, NEW v \in DWord,
         Inst(op, TRUE, x, y, 0), hi' = u, lo' = v, ovf' = FALSE, UNCHANGED gpr,
         op \in ProductOps => ProductOK(Num(op, x), Num(op, y), Num(op, u), v, W64),
         op \notin ProductOps =>
           DivisionOK(Num(op, x), Num(op, y), Num(op, u), Num(op, v), v, W64)
  PROVE  IInv'
<1>1. OpSize(op) = W64 /\ v % W64 = v
  BY Sizes DEF OpSize, DWord
<1>2. last'.op = op /\ last'.x = x /\ last'.y = y
  BY DEF Inst
<1>3. DivMulExact'
  BY <1>1, <1>2, Asked
<1>4. TrapsIffOverflows'
  <2>1. last'.op \notin TrapOps
    BY <1>2 DEF HiLoOps, TrapOps
  <2>2. QED BY <2>1, NotTrapping
<1>5. TypeOK'
  <2>1. narrow' \in BOOLEAN /\ ovf' \in BOOLEAN /\ hasException' \in BOOLEAN
    BY Zenon DEF IInv, TypeOK, Inst
  <2>2. insts' \in 0 .. MaxInsts
    BY AluAssumption DEF IInv, TypeOK, Inst
  <2>3. QED BY <2>1, <2>2, Zenon DEF IInv, TypeOK
<1>6. Canonical'
  BY DEF Canonical, Inst
<1>7. QED BY <1>3, <1>4, <1>5, <1>6 DEF IInv

\* A pattern is its own remainder.
LEMMA ModSelf ==
  ASSUME NEW m, IsSize(m)
  PROVE  /\ \A n \in Int : n % m \in 0 .. m - 1
         /\ \A x \in 0 .. m - 1 : x % m = x
BY DEF IsSize

\* A number is put together again from its quotient and its remainder.
LEMMA DivMod ==
  ASSUME NEW m \in Nat \ {0}, NEW p \in Int
  PROVE  (p \div m) * m + (p % m) = p /\ p % m \in 0 .. m - 1
OBVIOUS

\* The two halves of a product of signed numbers.
LEMMA SignedProduct ==
  ASSUME NEW m, IsSize(m), NEW x \in 0 .. m - 1, NEW y \in 0 .. m - 1,
         NEW p, p = Signed(x, m) * Signed(y, m)
  PROVE  /\ (p \div m) % m \in 0 .. m - 1 /\ p % m \in 0 .. m - 1
         /\ ProductOK(Signed(x, m), Signed(y, m), Signed((p \div m) % m, m), p % m, m)
<1>. DEFINE X == Signed(x, m)
            Y == Signed(y, m)
            h == p \div m
<1>1. X \in Int /\ InRange(X, m) /\ Y \in Int /\ InRange(Y, m)
  BY SignedIs
<1>. HIDE DEF X, Y
<1>2. p = X * Y
  BY DEF X, Y
<1>3. h \in Int /\ InRange(h, m)
  BY <1>1, <1>2, UpperSigned
<1>4. Signed(h % m, m) = h
  BY <1>3, SignedOf
<1>5. p \in Int /\ m \in Nat \ {0}
  BY <1>1, <1>2 DEF IsSize
<1>6. h * m + (p % m) = p /\ p % m \in 0 .. m - 1
  BY <1>5, DivMod
<1>7. h % m \in 0 .. m - 1
  BY <1>3, ModSelf
<1>8. ProductOK(X, Y, Signed(h % m, m), p % m, m)
  BY <1>2, <1>4, <1>6, Zenon DEF ProductOK
<1>9. QED BY <1>6, <1>7, <1>8 DEF X, Y

\* Of unsigned numbers.
LEMMA UnsignedProduct ==
  ASSUME NEW m, IsSize(m), NEW x \in 0 .. m - 1, NEW y \in 0 .. m - 1, NEW p, p = x * y
  PROVE  /\ (p \div m) % m \in 0 .. m - 1 /\ p % m \in 0 .. m - 1
         /\ ProductOK(x, y, (p \div m) % m, p % m, m)
<1>. DEFINE h == p \div m
<1>1. h \in 0 .. m - 1
  BY UpperUnsigned
<1>2. h % m = h
  BY <1>1, ModSelf
<1>3. p \in Int /\ m \in Nat \ {0}
  BY DEF IsSize
<1>4. h * m + (p % m) = p /\ p % m \in 0 .. m - 1
  BY <1>3, DivMod
<1>5. ProductOK(x, y, h % m, p % m, m)
  BY <1>2, <1>4, Zenon DEF ProductOK
<1>6. QED BY <1>1, <1>2, <1>4, <1>5

\* The results of a signed division, the two without an answer among them.
LEMMA SignedQuotient ==
  ASSUME NEW m, IsSize(m), m >= 4, NEW x \in 0 .. m - 1, NEW y \in 0 .. m - 1
  PROVE  LET n == Signed(x, m)
             d == Signed(y, m)
             result == SignedDivision(n, d, m)
             u == result.r % m
             v == result.q % m
         IN  /\ u \in 0 .. m - 1 /\ v \in 0 .. m - 1
             /\ DivisionOK(n, d, Signed(u, m), Signed(v, m), v, m)
<1>. DEFINE n == Signed(x, m)
            d == Signed(y, m)
            result == SignedDivision(n, d, m)
            u == result.r % m
            v == result.q % m
<1>1. n \in Int /\ InRange(n, m) /\ d \in Int /\ InRange(d, m) /\ m \in Nat
  BY SignedIs DEF IsSize
<1>. HIDE DEF n, d
<1>2. CASE d = 0
  <2>1. result.r = n /\ result.q = IF n < 0 THEN 1 ELSE -1
    BY <1>2 DEF SignedDivision
  <2>2. result.q \in Int /\ InRange(result.q, m)
    BY <1>1, <2>1 DEF InRange
  <2>3. u \in 0 .. m - 1 /\ Signed(u, m) = n /\ v \in 0 .. m - 1 /\ Signed(v, m) = result.q
    BY <1>1, <2>1, <2>2, SignedOf
  <2>4. QED BY <1>2, <2>1, <2>3 DEF DivisionOK, n, d
<1>3. CASE d # 0 /\ 2 * n = -m /\ d = -1
  <2>1. result.r = 0 /\ result.q = n
    BY <1>3 DEF SignedDivision
  <2>2. u = 0 /\ u \in 0 .. m - 1 /\ Signed(u, m) = 0
    BY <1>1, <2>1 DEF Signed, Msb, IsSize
  <2>3. v \in 0 .. m - 1 /\ Signed(v, m) = n
    BY <1>1, <2>1, SignedOf
  <2>4. DivisionOK(n, d, 0, n, v, m)
    BY <1>3 DEF DivisionOK, Magnitude
  <2>5. QED BY <2>2, <2>3, <2>4 DEF n, d
<1>4. CASE d # 0 /\ ~(2 * n = -m /\ d = -1)
  <2>1. result.r = Remainder(n, d) /\ result.q = Quotient(n, d)
    BY <1>4 DEF SignedDivision
  <2>2. /\ result.q \in Int /\ InRange(result.q, m) /\ result.r \in Int /\ InRange(result.r, m)
        /\ result.r + result.q * d = n
        /\ Magnitude(result.r) < Magnitude(d)
        /\ result.r # 0 => (result.r < 0) = (n < 0)
    BY <1>1, <1>4, <2>1, QuotientIs
  <2>3. /\ u \in 0 .. m - 1 /\ Signed(u, m) = result.r
        /\ v \in 0 .. m - 1 /\ Signed(v, m) = result.q
    BY <2>2, SignedOf
  <2>4. DivisionOK(n, d, result.r, result.q, v, m)
    BY <1>4, <2>2, Zenon DEF DivisionOK
  <2>5. QED BY <2>3, <2>4 DEF n, d
<1>5. QED BY <1>2, <1>3, <1>4

\* Of an unsigned one.
LEMMA UnsignedQuotient ==
  ASSUME NEW m, IsSize(m), m >= 4, NEW x \in 0 .. m - 1, NEW y \in 0 .. m - 1
  PROVE  LET result == UnsignedDivision(x, y, m)
             u == result.r % m
             v == result.q % m
         IN  /\ u \in 0 .. m - 1 /\ v \in 0 .. m - 1
             /\ DivisionOK(x, y, u, v, v, m)
<1>. DEFINE result == UnsignedDivision(x, y, m)
            u == result.r % m
            v == result.q % m
<1>1. CASE y = 0
  <2>1. result.r = x /\ result.q = m - 1
    BY <1>1 DEF UnsignedDivision
  <2>2. u = x /\ v = m - 1 /\ v \in 0 .. m - 1
    BY <2>1, ModSelf DEF IsSize
  <2>3. Signed(m - 1, m) = -1 /\ ~(x < 0)
    BY DEF Signed, Msb, IsSize
  <2>4. QED BY <1>1, <2>2, <2>3 DEF DivisionOK
<1>2. CASE y # 0
  <2>1. result.r = x % y /\ result.q = x \div y
    BY <1>2 DEF UnsignedDivision
  <2>. DEFINE q == x \div y
              r == x % y
  <2>2. q \in Nat /\ r \in 0 .. y - 1 /\ x = y * q + r /\ y \in Nat \ {0} /\ m \in Nat
    BY <1>2 DEF IsSize
  <2>. HIDE DEF q, r
  <2>3. y * q >= q /\ y * q \in Nat /\ y * q = q * y
    BY <2>2
  <2>4. q \in 0 .. m - 1 /\ r \in 0 .. m - 1 /\ r + q * y = x
    BY <2>2, <2>3
  <2>5. u = r /\ v = q
    BY <2>1, <2>4, ModSelf DEF q, r
  <2>6. DivisionOK(x, y, r, q, q, m)
    BY <1>2, <2>2, <2>4 DEF DivisionOK, Magnitude
  <2>7. QED BY <2>4, <2>5, <2>6
<1>3. QED BY <1>1, <1>2

\* Both sizes are large enough for 1 and -1.
LEMMA SizesHold == W32 >= 4 /\ W64 >= 4
BY Sizes

\* How the instructions read a pattern.
LEMMA NumIs ==
  ASSUME NEW op
  PROVE  /\ op \in {"MULT", "DIV"} => \A v \in Word : Num(op, v) = Signed(v, W32)
         /\ op \in {"MULTU", "DIVU"} => \A v \in Word : Num(op, v) = v
         /\ op \in {"DMULT", "DDIV"} => \A v \in DWord : Num(op, v) = Signed(v, W64)
         /\ op \in {"DMULTU", "DDIVU"} => \A v \in DWord : Num(op, v) = v
<1>1. /\ \A v \in Word : v % W32 = v
      /\ \A v \in DWord : v % W64 = v
  BY SizesAre, ModSelf DEF Word, DWord
<1>2. /\ op \in {"MULT", "DIV"} => op \in SignedOps /\ op \notin WideOps
      /\ op \in {"MULTU", "DIVU"} => op \notin SignedOps /\ op \notin WideOps
      /\ op \in {"DMULT", "DDIV"} => op \in SignedOps /\ op \in WideOps
      /\ op \in {"DMULTU", "DDIVU"} => op \notin SignedOps /\ op \in WideOps
  BY DEF SignedOps, WideOps
<1>3. QED BY <1>1, <1>2 DEF Num, OpSize

-----------------------------------------------------------------------------
(* The steps. *)

\* What the registers read as.
LEMMA Reads ==
  ASSUME TypeOK, NEW r \in Regs
  PROVE  ReadGpr32(r) \in Word /\ ReadGpr64(r) \in DWord
<1>1. gpr[r] \in DWord
  BY DEF TypeOK
<1>2. gpr[r] \in Nat
  BY <1>1, Ranges, Zenon
<1>3. gpr[r] % W32 \in Word
  BY <1>2, Ranges
<1>4. QED BY <1>1, <1>3 DEF ReadGpr32, ReadGpr64

\* Additions and subtractions.
LEMMA AddSubStep ==
  ASSUME IInv, insts < MaxInsts, AddSub
  PROVE  IInv'
<1>1. TypeOK
  BY DEF IInv
<1>2. \A r \in Regs : ReadGpr32(r) \in Word /\ ReadGpr64(r) \in DWord
  BY <1>1, Reads
<1>3. \A n \in Int : n % W32 \in Word /\ n % W64 \in DWord
  BY Ranges
<1>4. Word \subseteq Int /\ DWord \subseteq Int
  BY Ranges
<1>5. \A op \in {"ADDU", "SUBU", "DADDU", "DSUBU", "ADDIU", "DADDIU"} :
        op \notin TrapOps /\ op \notin HiLoOps
  BY DEF TrapOps, HiLoOps
<1>6. ASSUME NEW rd \in Regs, NEW rs \in Regs, NEW rt \in Regs
      PROVE  /\ InstAdd(rd, rs, rt) => IInv'
             /\ InstAddu(rd, rs, rt) => IInv'
             /\ InstSub(rd, rs, rt) => IInv'
             /\ InstSubu(rd, rs, rt) => IInv'
             /\ InstDadd(rd, rs, rt) => IInv'
             /\ InstDaddu(rd, rs, rt) => IInv'
             /\ InstDsub(rd, rs, rt) => IInv'
             /\ InstDsubu(rd, rs, rt) => IInv'
  <2>. DEFINE x == ReadGpr32(rs)
              y == ReadGpr32(rt)
              X == ReadGpr64(rs)
              Y == ReadGpr64(rt)
  <2>1. x \in Word /\ y \in Word /\ X \in DWord /\ Y \in DWord
    BY <1>2
  <2>2. /\ (x + y) % W32 \in Word /\ (x - y) % W32 \in Word
        /\ (X + Y) % W64 \in DWord /\ (X - Y) % W64 \in DWord
    <3>. HIDE DEF x, y, X, Y
    <3>1. x + y \in Int /\ x - y \in Int /\ X + Y \in Int /\ X - Y \in Int
      BY <1>4, <2>1
    <3>2. QED BY <1>3, <3>1
  <2>3. InstAdd(rd, rs, rt) => IInv'
    BY <2>1, Adds32 DEF InstAdd
  <2>4. InstAddu(rd, rs, rt) => IInv'
    BY <1>5, <2>2, Ordinary32 DEF InstAddu
  <2>5. InstSub(rd, rs, rt) => IInv'
    BY <2>1, Subs32 DEF InstSub
  <2>6. InstSubu(rd, rs, rt) => IInv'
    BY <1>5, <2>2, Ordinary32 DEF InstSubu
  <2>7. InstDadd(rd, rs, rt) => IInv'
    BY <2>1, Adds64 DEF InstDadd
  <2>8. InstDaddu(rd, rs, rt) => IInv'
    BY <1>5, <2>2, Ordinary DEF InstDaddu
  <2>9. InstDsub(rd, rs, rt) => IInv'
    BY <2>1, Subs64 DEF InstDsub
  <2>10. InstDsubu(rd, rs, rt) => IInv'
    BY <1>5, <2>2, Ordinary DEF InstDsubu
  <2>11. QED BY <2>3, <2>4, <2>5, <2>6, <2>7, <2>8, <2>9, <2>10
<1>7. ASSUME NEW rt \in Regs, NEW rs \in Regs, NEW i \in Imm
      PROVE  /\ InstAddi(rt, rs, i) => IInv'
             /\ InstAddiu(rt, rs, i) => IInv'
             /\ InstDaddi(rt, rs, i) => IInv'
             /\ InstDaddiu(rt, rs, i) => IInv'
  <2>. DEFINE x == ReadGpr32(rs)
              y == SextImm(i, W32)
              X == ReadGpr64(rs)
              Y == SextImm(i, W64)
  <2>1. x \in Word /\ y \in Word /\ X \in DWord /\ Y \in DWord
    BY <1>2, SextImmIs
  <2>2. (x + y) % W32 \in Word /\ (X + Y) % W64 \in DWord
    <3>. HIDE DEF x, y, X, Y
    <3>1. x + y \in Int /\ X + Y \in Int
      BY <1>4, <2>1
    <3>2. QED BY <1>3, <3>1
  <2>3. InstAddi(rt, rs, i) => IInv'
    BY <2>1, Adds32 DEF InstAddi
  <2>4. InstAddiu(rt, rs, i) => IInv'
    BY <1>5, <2>2, Ordinary32 DEF InstAddiu
  <2>5. InstDaddi(rt, rs, i) => IInv'
    BY <2>1, Adds64 DEF InstDaddi
  <2>6. InstDaddiu(rt, rs, i) => IInv'
    BY <1>5, <2>2, Ordinary DEF InstDaddiu
  <2>7. QED BY <2>3, <2>4, <2>5, <2>6
<1>8. QED BY <1>6, <1>7, Zenon DEF AddSub

\* Logic, given that an immediate operand is an extended word as it stands.
LEMMA LogicStep ==
  ASSUME IInv, insts < MaxInsts, NEW op \in LogicOps, NEW x \in DWord, NEW y \in DWord,
         narrow => Canon(x) /\ Canon(y), NEW dst \in Regs, Logic(op, x, y, dst)
  PROVE  IInv'
<1>1. PICK v \in DWord :
        /\ \A j \in 0 .. 2 * Bits - 1 : Bit(v, j) = Gate(op, Bit(x, j), Bit(y, j))
        /\ Result64(op, FALSE, x, y, dst, v)
  BY DEF Logic
<1>2. narrow => Canon(v)
  BY <1>1, LogicCanon
<1>3. op \notin TrapOps /\ op \notin HiLoOps
  BY DEF LogicOps, TrapOps, HiLoOps
<1>4. QED BY <1>1, <1>2, <1>3, Ordinary

\* Comparison: 0 and 1 are extended words.
LEMMA SetIfStep ==
  ASSUME IInv, insts < MaxInsts, NEW op \in {"SLT", "SLTU", "SLTI", "SLTIU"},
         NEW x, NEW y, NEW dst \in Regs, NEW cond, SetIf(op, x, y, dst, cond)
  PROVE  IInv'
<1>. DEFINE v == IF cond THEN 1 ELSE 0
<1>1. v \in DWord /\ Canon(v)
  <2>1. 0 \in DWord /\ 1 \in DWord /\ 0 < Half /\ 1 < Half
    BY Ranges, Sizes
  <2>2. Canon(0) /\ Canon(1)
    BY <2>1, CanonEnds
  <2>3. QED BY <2>1, <2>2
<1>2. Result64(op, FALSE, x, y, dst, v)
  BY DEF SetIf, Result64, WriteGpr32
<1>3. op \notin TrapOps /\ op \notin HiLoOps
  BY DEF TrapOps, HiLoOps
<1>. HIDE DEF v
<1>4. QED BY <1>1, <1>2, <1>3, Ordinary

\* Logic and comparison.
LEMMA LogicCompareStep ==
  ASSUME IInv, insts < MaxInsts, LogicCompare
  PROVE  IInv'
<1>1. TypeOK
  BY DEF IInv
<1>2. \A r \in Regs : ReadGpr64(r) \in DWord /\ (narrow => Canon(ReadGpr64(r)))
  BY <1>1, Reads DEF IInv, Canonical, ReadGpr64
<1>3. \A i \in Imm : i \in DWord /\ Canon(i)
  BY SextImmIs
<1>4. \A op \in {"AND", "OR", "XOR", "NOR", "ANDI", "ORI", "XORI"} : op \in LogicOps
  BY DEF LogicOps
<1>5. ASSUME NEW rd \in Regs, NEW rs \in Regs, NEW rt \in Regs
      PROVE  /\ InstAnd(rd, rs, rt) => IInv'
             /\ InstOr(rd, rs, rt) => IInv'
             /\ InstXor(rd, rs, rt) => IInv'
             /\ InstNor(rd, rs, rt) => IInv'
             /\ InstSlt(rd, rs, rt) => IInv'
             /\ InstSltu(rd, rs, rt) => IInv'
  <2>1. InstAnd(rd, rs, rt) => IInv'
    BY <1>2, <1>4, LogicStep DEF InstAnd
  <2>2. InstOr(rd, rs, rt) => IInv'
    BY <1>2, <1>4, LogicStep DEF InstOr
  <2>3. InstXor(rd, rs, rt) => IInv'
    BY <1>2, <1>4, LogicStep DEF InstXor
  <2>4. InstNor(rd, rs, rt) => IInv'
    BY <1>2, <1>4, LogicStep DEF InstNor
  <2>5. InstSlt(rd, rs, rt) => IInv'
    BY SetIfStep DEF InstSlt
  <2>6. InstSltu(rd, rs, rt) => IInv'
    BY SetIfStep DEF InstSltu
  <2>7. QED BY <2>1, <2>2, <2>3, <2>4, <2>5, <2>6
<1>6. ASSUME NEW rt \in Regs, NEW rs \in Regs, NEW i \in Imm
      PROVE  /\ InstAndi(rt, rs, i) => IInv'
             /\ InstOri(rt, rs, i) => IInv'
             /\ InstXori(rt, rs, i) => IInv'
             /\ InstSlti(rt, rs, i) => IInv'
             /\ InstSltiu(rt, rs, i) => IInv'
  <2>1. InstAndi(rt, rs, i) => IInv'
    BY <1>2, <1>3, <1>4, LogicStep DEF InstAndi
  <2>2. InstOri(rt, rs, i) => IInv'
    BY <1>2, <1>3, <1>4, LogicStep DEF InstOri
  <2>3. InstXori(rt, rs, i) => IInv'
    BY <1>2, <1>3, <1>4, LogicStep DEF InstXori
  <2>4. InstSlti(rt, rs, i) => IInv'
    BY SetIfStep DEF InstSlti
  <2>5. InstSltiu(rt, rs, i) => IInv'
    BY SetIfStep DEF InstSltiu
  <2>6. QED BY <2>1, <2>2, <2>3, <2>4, <2>5
<1>7. ASSUME NEW rt \in Regs, NEW i \in Imm
      PROVE  InstLui(rt, i) => IInv'
  <2>1. i \in Nat /\ Pow(ImmBits) \in Nat
    BY SextImmIs, Sizes
  <2>2. i * Pow(ImmBits) \in Int
    BY <2>1
  <2>3. (i * Pow(ImmBits)) % W32 \in Word
    BY <2>2, Ranges
  <2>4. "LUI" \notin TrapOps /\ "LUI" \notin HiLoOps
    BY DEF TrapOps, HiLoOps
  <2>5. QED BY <2>3, <2>4, Ordinary32 DEF InstLui
<1>8. QED BY <1>5, <1>6, <1>7, Zenon DEF LogicCompare

\* A shift amount has a power, by which a pattern that is shifted stays one.
LEMMA Shifted ==
  ASSUME NEW s \in 0 .. 2 * Bits - 1
  PROVE  /\ \A x \in Word : Left(x, s, W32) \in Word /\ Right(x, s) \in Word
                            /\ Arith(x, s, W32) \in Word
         /\ \A x \in DWord : Left(x, s, W64) \in DWord /\ Right(x, s) \in DWord
                             /\ Arith(x, s, W64) \in DWord
<1>1. Pow(s) \in Nat \ {0}
  <2>1. s \in 0 .. 2 * Bits
    BY AluAssumption
  <2>2. QED BY <2>1, PowNat
<1>2. ASSUME NEW m, IsSize(m), NEW x \in 0 .. m - 1
      PROVE  /\ Left(x, s, m) \in 0 .. m - 1 /\ Right(x, s) \in 0 .. m - 1
             /\ Arith(x, s, m) \in 0 .. m - 1
  <2>. DEFINE P == Pow(s)
              X == Signed(x, m)
  <2>1. P \in Nat \ {0} /\ X \in Int
    BY <1>1, <1>2, SignedIs
  <2>. HIDE DEF P, X
  <2>2. x * P \in Int /\ X \div P \in Int
    BY <2>1
  <2>3. (x * P) % m \in 0 .. m - 1 /\ (X \div P) % m \in 0 .. m - 1
    BY <1>2, <2>2, ModSelf
  <2>4. x \div P \in 0 .. m - 1
    <3>. DEFINE q == x \div P
                r == x % P
    <3>1. q \in Nat /\ r \in Nat /\ x = P * q + r
      BY <2>1
    <3>. HIDE DEF q, r
    <3>2. P * q >= q /\ P * q \in Nat
      BY <2>1, <3>1
    <3>3. q <= x /\ x < m /\ m \in Nat
      BY <1>2, <3>1, <3>2 DEF IsSize
    <3>4. QED BY <3>1, <3>3 DEF q
  <2>5. QED BY <2>3, <2>4 DEF Left, Right, Arith, P, X
<1>3. QED BY <1>2, SizesAre, Zenon DEF Word, DWord

ShiftOps ==
  {"SLL", "SRL", "SRA", "SLLV", "SRLV", "SRAV", "DSLL", "DSRL", "DSRA", "DSLL32", "DSRL32",
   "DSRA32", "DSLLV", "DSRLV", "DSRAV"}

\* A shift of either width, to either side.
LEMMA AShift ==
  ASSUME IInv, insts < MaxInsts, NEW op \in ShiftOps, NEW rd \in Regs, NEW rt \in Regs,
         NEW s \in 0 .. 2 * Bits - 1
  PROVE  /\ Sll(op, rd, rt, s) => IInv'
         /\ Srl(op, rd, rt, s) => IInv'
         /\ Sra(op, rd, rt, s) => IInv'
         /\ Dsll(op, rd, rt, s) => IInv'
         /\ Dsrl(op, rd, rt, s) => IInv'
         /\ Dsra(op, rd, rt, s) => IInv'
<1>1. ReadGpr32(rt) \in Word /\ ReadGpr64(rt) \in DWord
  BY Reads DEF IInv
<1>2. op \notin TrapOps /\ op \notin HiLoOps
  BY DEF ShiftOps, TrapOps, HiLoOps
<1>3. Sll(op, rd, rt, s) => IInv'
  BY <1>1, <1>2, Shifted, Ordinary32 DEF Sll
<1>4. Srl(op, rd, rt, s) => IInv'
  BY <1>1, <1>2, Shifted, Ordinary32 DEF Srl
<1>5. Sra(op, rd, rt, s) => IInv'
  BY <1>1, <1>2, Shifted, Ordinary32 DEF Sra
<1>6. Dsll(op, rd, rt, s) => IInv'
  BY <1>1, <1>2, Shifted, Ordinary DEF Dsll
<1>7. Dsrl(op, rd, rt, s) => IInv'
  BY <1>1, <1>2, Shifted, Ordinary DEF Dsrl
<1>8. Dsra(op, rd, rt, s) => IInv'
  BY <1>1, <1>2, Shifted, Ordinary DEF Dsra
<1>9. QED BY <1>3, <1>4, <1>5, <1>6, <1>7, <1>8

\* Shifts.
LEMMA ShiftStep ==
  ASSUME IInv, insts < MaxInsts, Shift
  PROVE  IInv'
<1>. Bits \in Nat /\ Bits >= 2
  BY AluAssumption
<1>1. ShiftOps = {"SLL", "SRL", "SRA", "SLLV", "SRLV", "SRAV", "DSLL", "DSRL", "DSRA", "DSLL32",
                  "DSRL32", "DSRA32", "DSLLV", "DSRLV", "DSRAV"}
  BY DEF ShiftOps
<1>2. \A r \in Regs : Amount32(r) \in 0 .. 2 * Bits - 1 /\ Amount64(r) \in 0 .. 2 * Bits - 1
  <2>1. ASSUME NEW r \in Regs
        PROVE  Amount32(r) \in 0 .. 2 * Bits - 1 /\ Amount64(r) \in 0 .. 2 * Bits - 1
    <3>1. ReadGpr32(r) \in Nat /\ ReadGpr64(r) \in Nat
      BY Reads, Ranges, Zenon DEF IInv
    <3>2. QED BY <3>1 DEF Amount32, Amount64
  <2>2. QED BY <2>1
<1>3. ASSUME NEW rd \in Regs, NEW rt \in Regs, NEW f \in ShiftField
      PROVE  /\ InstSll(rd, rt, f) => IInv'
             /\ InstSrl(rd, rt, f) => IInv'
             /\ InstSra(rd, rt, f) => IInv'
             /\ InstDsll(rd, rt, f) => IInv'
             /\ InstDsrl(rd, rt, f) => IInv'
             /\ InstDsra(rd, rt, f) => IInv'
             /\ InstDsll32(rd, rt, f) => IInv'
             /\ InstDsrl32(rd, rt, f) => IInv'
             /\ InstDsra32(rd, rt, f) => IInv'
  <2>1. f \in 0 .. 2 * Bits - 1 /\ f + Bits \in 0 .. 2 * Bits - 1
    BY DEF ShiftField
  <2>2. /\ InstSll(rd, rt, f) => IInv'
        /\ InstSrl(rd, rt, f) => IInv'
        /\ InstSra(rd, rt, f) => IInv'
    BY <1>1, <2>1, AShift DEF InstSll, InstSrl, InstSra
  <2>3. /\ InstDsll(rd, rt, f) => IInv'
        /\ InstDsrl(rd, rt, f) => IInv'
        /\ InstDsra(rd, rt, f) => IInv'
    BY <1>1, <2>1, AShift DEF InstDsll, InstDsrl, InstDsra
  <2>4. /\ InstDsll32(rd, rt, f) => IInv'
        /\ InstDsrl32(rd, rt, f) => IInv'
        /\ InstDsra32(rd, rt, f) => IInv'
    BY <1>1, <2>1, AShift DEF InstDsll32, InstDsrl32, InstDsra32
  <2>5. QED BY <2>2, <2>3, <2>4
<1>4. ASSUME NEW rd \in Regs, NEW rt \in Regs, NEW rs \in Regs
      PROVE  /\ InstSllv(rd, rt, rs) => IInv'
             /\ InstSrlv(rd, rt, rs) => IInv'
             /\ InstSrav(rd, rt, rs) => IInv'
             /\ InstDsllv(rd, rt, rs) => IInv'
             /\ InstDsrlv(rd, rt, rs) => IInv'
             /\ InstDsrav(rd, rt, rs) => IInv'
  <2>1. /\ InstSllv(rd, rt, rs) => IInv'
        /\ InstSrlv(rd, rt, rs) => IInv'
        /\ InstSrav(rd, rt, rs) => IInv'
    BY <1>1, <1>2, AShift DEF InstSllv, InstSrlv, InstSrav
  <2>2. /\ InstDsllv(rd, rt, rs) => IInv'
        /\ InstDsrlv(rd, rt, rs) => IInv'
        /\ InstDsrav(rd, rt, rs) => IInv'
    BY <1>1, <1>2, AShift DEF InstDsllv, InstDsrlv, InstDsrav
  <2>3. QED BY <2>1, <2>2
<1>5. QED BY <1>3, <1>4, Zenon DEF Shift

\* The instructions that read HI and LO.
LEMMA FromHiLo ==
  ASSUME IInv, insts < MaxInsts, NEW r \in Regs
  PROVE  /\ InstMfhi(r) => IInv'
         /\ InstMflo(r) => IInv'
<1>1. hi \in DWord /\ lo \in DWord /\ (narrow => Canon(hi) /\ Canon(lo))
  BY DEF IInv, TypeOK, Canonical
<1>2. \A op \in {"MFHI", "MFLO"} : op \notin TrapOps /\ op \notin HiLoOps
  BY DEF TrapOps, HiLoOps
<1>3. InstMfhi(r) => IInv'
  BY <1>1, <1>2, Ordinary DEF InstMfhi
<1>4. InstMflo(r) => IInv'
  BY <1>1, <1>2, Ordinary DEF InstMflo
<1>5. QED BY <1>3, <1>4

\* And those that write one of them.
LEMMA ToHiLo ==
  ASSUME IInv, insts < MaxInsts, NEW r \in Regs, InstMthi(r) \/ InstMtlo(r)
  PROVE  IInv'
<1>1. TypeOK /\ ReadGpr64(r) \in DWord /\ (narrow => Canon(ReadGpr64(r)))
  BY Reads DEF IInv, Canonical, ReadGpr64
<1>2. PICK op \in {"MTHI", "MTLO"} :
        /\ Inst(op, FALSE, ReadGpr64(r), 0, 0) /\ ovf' = FALSE /\ gpr' = gpr
        /\ hi' = hi \/ hi' = ReadGpr64(r)
        /\ lo' = lo \/ lo' = ReadGpr64(r)
  BY Zenon DEF InstMthi, InstMtlo
<1>3. TypeOK'
  <2>1. narrow' \in BOOLEAN /\ ovf' \in BOOLEAN /\ hasException' \in BOOLEAN
    BY <1>1, <1>2, Zenon DEF TypeOK, Inst
  <2>2. insts' \in 0 .. MaxInsts
    BY <1>1, <1>2, AluAssumption DEF TypeOK, Inst
  <2>3. hi' \in DWord /\ lo' \in DWord
    BY <1>1, <1>2, Zenon DEF TypeOK
  <2>4. QED BY <1>1, <1>2, <2>1, <2>2, <2>3, Zenon DEF TypeOK
<1>4. TrapsIffOverflows' /\ DivMulExact'
  <2>1. last'.op = op
    BY <1>2 DEF Inst
  <2>2. last'.op \notin TrapOps /\ last'.op \notin HiLoOps
    BY <2>1 DEF TrapOps, HiLoOps
  <2>3. QED BY <2>2, NotHiLo, NotTrapping
<1>5. Canonical'
  <2>1. SUFFICES ASSUME narrow' PROVE Canon(hi') /\ Canon(lo') /\ \A s \in Regs : Canon(gpr'[s])
    BY DEF Canonical, Canon, Sext, Signed, Msb
  <2>2. narrow
    BY <1>2, <2>1 DEF Inst
  <2>3. Canon(hi) /\ Canon(lo) /\ Canon(ReadGpr64(r)) /\ \A s \in Regs : Canon(gpr[s])
    BY <1>1, <2>2 DEF IInv, Canonical
  <2>4. QED BY <1>2, <2>3
<1>6. QED BY <1>3, <1>4, <1>5 DEF IInv

\* Multiplications.
LEMMA MultStep ==
  ASSUME IInv, insts < MaxInsts, NEW rs \in Regs, NEW rt \in Regs
  PROVE  /\ InstMult(rs, rt) => IInv'
         /\ InstMultu(rs, rt) => IInv'
         /\ InstDmult(rs, rt) => IInv'
         /\ InstDmultu(rs, rt) => IInv'
<1>. DEFINE x == ReadGpr32(rs)
            y == ReadGpr32(rt)
            X == ReadGpr64(rs)
            Y == ReadGpr64(rt)
<1>1. x \in Word /\ y \in Word /\ X \in DWord /\ Y \in DWord
  BY Reads DEF IInv
<1>2. /\ Word = 0 .. W32 - 1 /\ DWord = 0 .. W64 - 1 /\ IsSize(W32) /\ IsSize(W64)
  BY SizesAre DEF Word, DWord
<1>3. /\ {"MULT", "MULTU", "DMULT", "DMULTU"} \subseteq HiLoOps \cap ProductOps
      /\ "DMULT" \in WideOps /\ "DMULTU" \in WideOps
      /\ "MULT" \notin WideOps /\ "MULTU" \notin WideOps
  BY DEF HiLoOps, ProductOps, WideOps
<1>. HIDE DEF x, y, X, Y
<1>4. ASSUME NEW op \in {"MULT", "MULTU"}, NEW p, Product32(op, x, y, p),
             (p \div W32) % W32 \in Word, p % W32 \in Word,
             ProductOK(Num(op, x), Num(op, y), Num(op, (p \div W32) % W32), p % W32, W32)
      PROVE  IInv'
  BY <1>1, <1>3, <1>4, HiLo32 DEF Product32
<1>5. ASSUME NEW op \in {"DMULT", "DMULTU"}, NEW p, Product64(op, X, Y, p),
             (p \div W64) % W64 \in DWord, p % W64 \in DWord,
             ProductOK(Num(op, X), Num(op, Y), Num(op, (p \div W64) % W64), p % W64, W64)
      PROVE  IInv'
  BY <1>1, <1>3, <1>5, HiLo64 DEF Product64
<1>6. InstMult(rs, rt) => IInv'
  <2>. DEFINE p == Signed(x, W32) * Signed(y, W32)
  <2>1. /\ (p \div W32) % W32 \in Word /\ p % W32 \in Word
        /\ ProductOK(Signed(x, W32), Signed(y, W32), Signed((p \div W32) % W32, W32), p % W32, W32)
    BY <1>1, <1>2, SignedProduct
  <2>2. InstMult(rs, rt) => Product32("MULT", x, y, p)
    BY DEF InstMult, x, y
  <2>. HIDE DEF p
  <2>3. \A v \in Word : Num("MULT", v) = Signed(v, W32)
    BY NumIs
  <2>4. ProductOK(Num("MULT", x), Num("MULT", y), Num("MULT", (p \div W32) % W32), p % W32, W32)
    BY <1>1, <2>1, <2>3
  <2>5. QED BY <1>4, <2>1, <2>2, <2>4
<1>7. InstMultu(rs, rt) => IInv'
  <2>. DEFINE p == x * y
  <2>1. /\ (p \div W32) % W32 \in Word /\ p % W32 \in Word
        /\ ProductOK(x, y, (p \div W32) % W32, p % W32, W32)
    BY <1>1, <1>2, UnsignedProduct
  <2>2. InstMultu(rs, rt) => Product32("MULTU", x, y, p)
    BY DEF InstMultu, x, y
  <2>. HIDE DEF p
  <2>3. \A v \in Word : Num("MULTU", v) = v
    BY NumIs
  <2>4. ProductOK(Num("MULTU", x), Num("MULTU", y), Num("MULTU", (p \div W32) % W32), p % W32, W32)
    BY <1>1, <2>1, <2>3
  <2>5. QED BY <1>4, <2>1, <2>2, <2>4
<1>8. InstDmult(rs, rt) => IInv'
  <2>. DEFINE p == Signed(X, W64) * Signed(Y, W64)
  <2>1. /\ (p \div W64) % W64 \in DWord /\ p % W64 \in DWord
        /\ ProductOK(Signed(X, W64), Signed(Y, W64), Signed((p \div W64) % W64, W64), p % W64, W64)
    BY <1>1, <1>2, SignedProduct
  <2>2. InstDmult(rs, rt) => Product64("DMULT", X, Y, p)
    BY DEF InstDmult, X, Y
  <2>. HIDE DEF p
  <2>3. \A v \in DWord : Num("DMULT", v) = Signed(v, W64)
    BY NumIs
  <2>4. ProductOK(Num("DMULT", X), Num("DMULT", Y), Num("DMULT", (p \div W64) % W64), p % W64, W64)
    BY <1>1, <2>1, <2>3
  <2>5. QED BY <1>5, <2>1, <2>2, <2>4
<1>9. InstDmultu(rs, rt) => IInv'
  <2>. DEFINE p == X * Y
  <2>1. /\ (p \div W64) % W64 \in DWord /\ p % W64 \in DWord
        /\ ProductOK(X, Y, (p \div W64) % W64, p % W64, W64)
    BY <1>1, <1>2, UnsignedProduct
  <2>2. InstDmultu(rs, rt) => Product64("DMULTU", X, Y, p)
    BY DEF InstDmultu, X, Y
  <2>. HIDE DEF p
  <2>3. \A v \in DWord : Num("DMULTU", v) = v
    BY NumIs
  <2>4. ProductOK(Num("DMULTU", X), Num("DMULTU", Y), Num("DMULTU", (p \div W64) % W64), p % W64, W64)
    BY <1>1, <2>1, <2>3
  <2>5. QED BY <1>5, <2>1, <2>2, <2>4
<1>10. QED BY <1>6, <1>7, <1>8, <1>9

\* Divisions.
LEMMA DivStep ==
  ASSUME IInv, insts < MaxInsts, NEW rs \in Regs, NEW rt \in Regs
  PROVE  /\ InstDiv(rs, rt) => IInv'
         /\ InstDivu(rs, rt) => IInv'
         /\ InstDdiv(rs, rt) => IInv'
         /\ InstDdivu(rs, rt) => IInv'
<1>. DEFINE x == ReadGpr32(rs)
            y == ReadGpr32(rt)
            X == ReadGpr64(rs)
            Y == ReadGpr64(rt)
<1>1. x \in Word /\ y \in Word /\ X \in DWord /\ Y \in DWord
  BY Reads DEF IInv
<1>2. /\ Word = 0 .. W32 - 1 /\ DWord = 0 .. W64 - 1 /\ IsSize(W32) /\ IsSize(W64)
      /\ W32 >= 4 /\ W64 >= 4
  BY SizesAre, SizesHold DEF Word, DWord
<1>3. /\ {"DIV", "DIVU", "DDIV", "DDIVU"} \subseteq HiLoOps
      /\ \A op \in {"DIV", "DIVU", "DDIV", "DDIVU"} : op \notin ProductOps
      /\ "DDIV" \in WideOps /\ "DDIVU" \in WideOps
      /\ "DIV" \notin WideOps /\ "DIVU" \notin WideOps
  BY DEF HiLoOps, ProductOps, WideOps
<1>. HIDE DEF x, y, X, Y
<1>4. ASSUME NEW op \in {"DIV", "DIVU"}, NEW d, Division32(op, x, y, d),
             d.r % W32 \in Word, d.q % W32 \in Word,
             DivisionOK(Num(op, x), Num(op, y), Num(op, d.r % W32), Num(op, d.q % W32), d.q % W32, W32)
      PROVE  IInv'
  BY <1>1, <1>3, <1>4, HiLo32 DEF Division32
<1>5. ASSUME NEW op \in {"DDIV", "DDIVU"}, NEW d, Division64(op, X, Y, d),
             d.r % W64 \in DWord, d.q % W64 \in DWord,
             DivisionOK(Num(op, X), Num(op, Y), Num(op, d.r % W64), Num(op, d.q % W64), d.q % W64, W64)
      PROVE  IInv'
  BY <1>1, <1>3, <1>5, HiLo64 DEF Division64
<1>6. InstDiv(rs, rt) => IInv'
  <2>. DEFINE d == SignedDivision(Signed(x, W32), Signed(y, W32), W32)
  <2>1. /\ d.r % W32 \in Word /\ d.q % W32 \in Word
        /\ DivisionOK(Signed(x, W32), Signed(y, W32), Signed(d.r % W32, W32), Signed(d.q % W32, W32), d.q % W32, W32)
    BY <1>1, <1>2, SignedQuotient
  <2>2. InstDiv(rs, rt) => Division32("DIV", x, y, d)
    BY DEF InstDiv, x, y
  <2>. HIDE DEF d
  <2>3. \A v \in Word : Num("DIV", v) = Signed(v, W32)
    BY NumIs
  <2>4. DivisionOK(Num("DIV", x), Num("DIV", y), Num("DIV", d.r % W32), Num("DIV", d.q % W32), d.q % W32, W32)
    BY <1>1, <2>1, <2>3
  <2>5. QED BY <1>4, <2>1, <2>2, <2>4
<1>7. InstDivu(rs, rt) => IInv'
  <2>. DEFINE d == UnsignedDivision(x, y, W32)
  <2>1. /\ d.r % W32 \in Word /\ d.q % W32 \in Word
        /\ DivisionOK(x, y, d.r % W32, d.q % W32, d.q % W32, W32)
    BY <1>1, <1>2, UnsignedQuotient
  <2>2. InstDivu(rs, rt) => Division32("DIVU", x, y, d)
    BY DEF InstDivu, x, y
  <2>. HIDE DEF d
  <2>3. \A v \in Word : Num("DIVU", v) = v
    BY NumIs
  <2>4. DivisionOK(Num("DIVU", x), Num("DIVU", y), Num("DIVU", d.r % W32), Num("DIVU", d.q % W32), d.q % W32, W32)
    BY <1>1, <2>1, <2>3
  <2>5. QED BY <1>4, <2>1, <2>2, <2>4
<1>8. InstDdiv(rs, rt) => IInv'
  <2>. DEFINE d == SignedDivision(Signed(X, W64), Signed(Y, W64), W64)
  <2>1. /\ d.r % W64 \in DWord /\ d.q % W64 \in DWord
        /\ DivisionOK(Signed(X, W64), Signed(Y, W64), Signed(d.r % W64, W64), Signed(d.q % W64, W64), d.q % W64, W64)
    BY <1>1, <1>2, SignedQuotient
  <2>2. InstDdiv(rs, rt) => Division64("DDIV", X, Y, d)
    BY DEF InstDdiv, X, Y
  <2>. HIDE DEF d
  <2>3. \A v \in DWord : Num("DDIV", v) = Signed(v, W64)
    BY NumIs
  <2>4. DivisionOK(Num("DDIV", X), Num("DDIV", Y), Num("DDIV", d.r % W64), Num("DDIV", d.q % W64), d.q % W64, W64)
    BY <1>1, <2>1, <2>3
  <2>5. QED BY <1>5, <2>1, <2>2, <2>4
<1>9. InstDdivu(rs, rt) => IInv'
  <2>. DEFINE d == UnsignedDivision(X, Y, W64)
  <2>1. /\ d.r % W64 \in DWord /\ d.q % W64 \in DWord
        /\ DivisionOK(X, Y, d.r % W64, d.q % W64, d.q % W64, W64)
    BY <1>1, <1>2, UnsignedQuotient
  <2>2. InstDdivu(rs, rt) => Division64("DDIVU", X, Y, d)
    BY DEF InstDdivu, X, Y
  <2>. HIDE DEF d
  <2>3. \A v \in DWord : Num("DDIVU", v) = v
    BY NumIs
  <2>4. DivisionOK(Num("DDIVU", X), Num("DDIVU", Y), Num("DDIVU", d.r % W64), Num("DDIVU", d.q % W64), d.q % W64, W64)
    BY <1>1, <2>1, <2>3
  <2>5. QED BY <1>5, <2>1, <2>2, <2>4
<1>10. QED BY <1>6, <1>7, <1>8, <1>9

\* Multiplication, division and the moves of HI and LO.
LEMMA MultDivStep ==
  ASSUME IInv, insts < MaxInsts, MultDiv
  PROVE  IInv'
<1>1. CASE \E rs, rt \in Regs :
             \/ InstMult(rs, rt) \/ InstMultu(rs, rt) \/ InstDmult(rs, rt) \/ InstDmultu(rs, rt)
             \/ InstDiv(rs, rt) \/ InstDivu(rs, rt) \/ InstDdiv(rs, rt) \/ InstDdivu(rs, rt)
  BY <1>1, MultStep, DivStep, Zenon
<1>2. CASE \E r \in Regs : InstMfhi(r) \/ InstMflo(r) \/ InstMthi(r) \/ InstMtlo(r)
  BY <1>2, FromHiLo, ToHiLo, Zenon
<1>3. QED BY <1>1, <1>2, Zenon DEF MultDiv

\* At the start no instruction has run, and narrow is defined to be what Canonical asks.
LEMMA InitIInv == Init => IInv
<1>1. SUFFICES ASSUME Init PROVE IInv
  OBVIOUS
<1>2. TypeOK
  <2>1. 0 \in DWord /\ MaxInsts \in Nat /\ Values \cup {0} \subseteq DWord
    BY Ranges, AluAssumption
  <2>2. hi \in DWord /\ lo \in DWord
    BY <1>1, AluAssumption DEF Init
  <2>3. narrow \in BOOLEAN
    BY <1>1, Zenon DEF Init, Canon
  <2>4. gpr \in [Regs -> DWord] /\ gpr[0] = 0
    BY <1>1, <2>1 DEF Init
  <2>5. insts \in 0 .. MaxInsts
    <3>1. insts = 0
      BY <1>1 DEF Init
    <3>2. QED BY <2>1, <3>1
  <2>6. QED BY <1>1, <2>2, <2>3, <2>4, <2>5 DEF Init, TypeOK
<1>3. last.op = ""
  BY <1>1 DEF Init
<1>4. TrapsIffOverflows
  BY <1>3 DEF TrapsIffOverflows, IsTrapping
<1>5. DivMulExact
  BY <1>3 DEF DivMulExact
<1>6. Canonical
  BY <1>1, Zenon DEF Init, Canonical
<1>7. QED BY <1>2, <1>4, <1>5, <1>6 DEF IInv

\* DivMulExact as a condition on the five values it reads.
HiLoExact(op, x0, y0, h0, l0) ==
  LET wide == op \in {"DMULT", "DMULTU", "DDIV", "DDIVU"}
      size == IF wide THEN W64 ELSE W32
      N(v, signed) == IF signed THEN Signed(v % size, size) ELSE v % size
  IN  \A signed \in BOOLEAN :
        LET x == N(x0, signed)
            y == N(y0, signed)
            h == N(h0, signed)
            l == N(l0, signed)
        IN  /\ op \in (IF signed THEN {"MULT", "DMULT"} ELSE {"MULTU", "DMULTU"})
               => h * size + (l0 % size) = x * y
            /\ op \in (IF signed THEN {"DIV", "DDIV"} ELSE {"DIVU", "DDIVU"})
               => IF y = 0 THEN h = x /\ Signed(l0 % size, size) = IF x < 0 THEN 1 ELSE -1
                  ELSE /\ h + l * y = x \/ (2 * x = -size /\ y = -1 /\ h = 0 /\ l = x)
                       /\ Magnitude(h) < Magnitude(y)
                       /\ h # 0 => (h < 0) = (x < 0)

\* Every step keeps the invariant.
LEMMA NextIInv == IInv /\ [Next]_vars => IInv'
<1>1. SUFFICES ASSUME IInv, [Next]_vars PROVE IInv'
  OBVIOUS
<1>2. CASE Next
  BY <1>1, <1>2, AddSubStep, LogicCompareStep, ShiftStep, MultDivStep DEF Next
<1>3. CASE UNCHANGED vars
  <2>1. UNCHANGED <<gpr, hi, lo, hasException, ovf, insts, last, narrow>>
    BY <1>3 DEF vars
  <2>2. TypeOK'
    BY <1>1, <2>1 DEF IInv, TypeOK
  <2>3. TrapsIffOverflows'
    BY <1>1, <2>1, Zenon DEF IInv, TrapsIffOverflows
  <2>4. DivMulExact'
    <3>1. HiLoExact(last.op, last.x, last.y, hi, lo)
      BY <1>1, Zenon DEF IInv, DivMulExact, HiLoExact
    <3>2. HiLoExact(last'.op, last'.x, last'.y, hi', lo')
      BY <2>1, <3>1, Zenon
    <3>3. QED BY <3>2, Zenon DEF DivMulExact, HiLoExact
  <2>5. Canonical'
    BY <1>1, <2>1, Zenon DEF IInv, Canonical
  <2>6. QED BY <2>2, <2>3, <2>4, <2>5 DEF IInv
<1>4. QED BY <1>1, <1>2, <1>3

-----------------------------------------------------------------------------
(* The theorems. *)

\* The registers hold doublewords and register 0 is 0.
THEOREM TypesAreRight == Spec => []TypeOK
BY InitIInv, NextIInv, PTL DEF Spec, IInv

\* The bit tricks of get_overflow_* say exactly when a signed sum or difference does
\* not fit, the instructions note it exactly then, the 32-bit ones only with
\* exceptions enabled, and they write the exact result or nothing.
THEOREM TrapsAreExact == Spec => []TrapsIffOverflows
BY InitIInv, NextIInv, PTL DEF Spec, IInv

\* Multiplication and division leave the exact product, and a quotient and a
\* remainder that give the dividend back, in HI and LO.
THEOREM HiLoIsExact == Spec => []DivMulExact
BY InitIInv, NextIInv, PTL DEF Spec, IInv

\* 32-bit code on 32-bit values never leaves anything but extended words.
THEOREM WordsStayExtended == Spec => []Canonical
BY InitIInv, NextIInv, PTL DEF Spec, IInv
=============================================================================
