--------------------------- MODULE InstructionProofs ---------------------------
(***************************************************************************)
(* Proofs about AluCheck for words of every width, where TLC enumerates    *)
(* words of 4 bits and the machine has 32; and about the floating-point    *)
(* unit in InstructionCheck, for all control words and all numbers.        *)
(***************************************************************************)
EXTENDS InstructionCheck, TLAPS

-----------------------------------------------------------------------------
(* Widths *)

W == 2^WordBits
H == 2^(WordBits - 1)
S == 2^HalfBits
B == 2^(HalfBits - 1)

LEMMA Sizes ==
  /\ W \in Nat /\ H \in Nat /\ S \in Nat /\ B \in Nat
  /\ W = 2 * H /\ S = 2 * B /\ 1 <= B /\ S <= H /\ W = S * S
  <1>1. /\ W \in Nat /\ H \in Nat /\ S \in Nat /\ B \in Nat
        /\ W = 2 * H /\ S = 2 * B /\ 1 <= B /\ W = S * S
    BY PowersAssumption DEF W, H, S, B
  <1>2. 2 * S <= S * S
    BY <1>1
  <1> QED
    BY <1>1, <1>2

-----------------------------------------------------------------------------
(* Words *)

\* What is kept of a number that is less than a word away from one.
LEMMA WordIs ==
  ASSUME NEW x \in Int, -W <= x, x < 2 * W
  PROVE  Word(x) = IF x < 0 THEN x + W ELSE IF x < W THEN x ELSE x - W
  <1>1. Word(x) = x % W
    BY DEF Word, W
  <1>2. CASE x < 0
    <2>1. x = W * (-1) + (x + W) /\ 0 <= x + W /\ x + W < W
      BY <1>2, Sizes
    <2> QED
      BY <1>1, <1>2, <2>1, Sizes
  <1>3. CASE 0 <= x /\ x < W
    BY <1>1, <1>3, Sizes
  <1>4. CASE W <= x
    <2>1. x = W * 1 + (x - W) /\ 0 <= x - W /\ x - W < W
      BY <1>4, Sizes
    <2> QED
      BY <1>1, <1>4, <2>1, Sizes
  <1> QED
    BY <1>2, <1>3, <1>4, Sizes

LEMMA SignedIs ==
  ASSUME NEW x \in Words
  PROVE  /\ x \in 0 .. W - 1
         /\ Signed(x) = IF x >= H THEN x - W ELSE x
         /\ SIGN_BIT(x) = IF x >= H THEN 1 ELSE 0
  <1>1. /\ x \in 0 .. W - 1
        /\ Signed(x) = IF x >= H THEN x - W ELSE x
    BY DEF Words, Signed, SignedOf, W, H
  <1>2. SIGN_BIT(x) = x \div H
    BY DEF SIGN_BIT, H
  <1>3. CASE x >= H
    <2>1. x = H * 1 + (x - H) /\ 0 <= x - H /\ x - H < H
      BY <1>1, <1>3, Sizes
    <2> QED
      BY <1>1, <1>2, <1>3, <2>1, Sizes
  <1>4. CASE x < H
    BY <1>1, <1>2, <1>4, Sizes
  <1> QED
    BY <1>1, <1>3, <1>4, Sizes

\* A sign-extended immediate field is a word, and of the value of the field.
LEMMA ImmediateOperand ==
  ASSUME NEW u \in Words
  PROVE  /\ Imm(Low(u)) \in Words /\ ShortValue(Low(u)) \in Int
         /\ Signed(Imm(Low(u))) = ShortValue(Low(u))
  <1> DEFINE x == Low(u)
             v == ShortValue(x)
  <1>1. x = u % S /\ x \in 0 .. S - 1
    BY SignedIs, Sizes DEF Low, S
  <1>2. x % S = x
    BY <1>1, Sizes
  <1>3. v = IF x >= B THEN x - S ELSE x
    BY <1>2 DEF ShortValue, SignedOf, S, B
  <1>4. v \in -B .. B - 1
    BY <1>1, <1>3, Sizes
  <1>5. Imm(x) = IF v < 0 THEN v + W ELSE v
    BY <1>4, WordIs, Sizes DEF Imm
  <1>6. Imm(x) \in 0 .. W - 1
    BY <1>4, <1>5, Sizes
  <1>7. Imm(x) \in Words
    BY <1>6 DEF Words, W
  <1> QED
    BY <1>4, <1>5, <1>7, SignedIs, Sizes

-----------------------------------------------------------------------------
(* Addition and subtraction *)

SignedFits(n) == n \in -H .. H - 1

LEMMA SumOfWords ==
  ASSUME NEW x \in Words, NEW y \in Words
  PROVE  /\ ArithOvfl(Word(x + y), x, y) <=> ~SignedFits(Signed(x) + Signed(y))
         /\ SignedFits(Signed(x) + Signed(y)) => Signed(Word(x + y)) = Signed(x) + Signed(y)
  <1> DEFINE z == Word(x + y)
  <1>1. x \in 0 .. W - 1 /\ y \in 0 .. W - 1
    BY SignedIs
  <1>2. z = IF x + y < W THEN x + y ELSE x + y - W
    BY <1>1, WordIs, Sizes
  <1>3. z \in Words
    BY <1>1, <1>2, Sizes DEF Words, W
  <1>4. /\ Signed(x) = (IF x >= H THEN x - W ELSE x) /\ SIGN_BIT(x) = (IF x >= H THEN 1 ELSE 0)
        /\ Signed(y) = (IF y >= H THEN y - W ELSE y) /\ SIGN_BIT(y) = (IF y >= H THEN 1 ELSE 0)
        /\ Signed(z) = (IF z >= H THEN z - W ELSE z) /\ SIGN_BIT(z) = (IF z >= H THEN 1 ELSE 0)
    BY <1>3, SignedIs
  <1>5. CASE x >= H
    BY <1>1, <1>2, <1>4, <1>5, Sizes DEF ArithOvfl, SignedFits
  <1>6. CASE x < H
    BY <1>1, <1>2, <1>4, <1>6, Sizes DEF ArithOvfl, SignedFits
  <1> QED
    BY <1>1, <1>5, <1>6, Sizes

LEMMA Difference ==
  ASSUME NEW x \in Words, NEW y \in Words
  PROVE  /\ (SIGN_BIT(x) # SIGN_BIT(y) /\ SIGN_BIT(x) # SIGN_BIT(Word(x - y)))
              <=> ~SignedFits(Signed(x) - Signed(y))
         /\ SignedFits(Signed(x) - Signed(y)) => Signed(Word(x - y)) = Signed(x) - Signed(y)
  <1> DEFINE z == Word(x - y)
  <1>1. x \in 0 .. W - 1 /\ y \in 0 .. W - 1
    BY SignedIs
  <1>2. z = IF x - y < 0 THEN x - y + W ELSE x - y
    BY <1>1, WordIs, Sizes
  <1>3. z \in Words
    BY <1>1, <1>2, Sizes DEF Words, W
  <1>4. /\ Signed(x) = (IF x >= H THEN x - W ELSE x) /\ SIGN_BIT(x) = (IF x >= H THEN 1 ELSE 0)
        /\ Signed(y) = (IF y >= H THEN y - W ELSE y) /\ SIGN_BIT(y) = (IF y >= H THEN 1 ELSE 0)
        /\ Signed(z) = (IF z >= H THEN z - W ELSE z) /\ SIGN_BIT(z) = (IF z >= H THEN 1 ELSE 0)
    BY <1>3, SignedIs
  <1>5. CASE x >= H
    BY <1>1, <1>2, <1>4, <1>5, Sizes DEF SignedFits
  <1>6. CASE x < H
    BY <1>1, <1>2, <1>4, <1>6, Sizes DEF SignedFits
  <1> QED
    BY <1>1, <1>5, <1>6, Sizes

\* The word of a number that fits is read back as that number.
LEMMA ReadBack ==
  ASSUME NEW n \in Int, SignedFits(n)
  PROVE  Signed(Word(n)) = n
  <1> DEFINE w == Word(n)
  <1>1. w = IF n < 0 THEN n + W ELSE n
    BY WordIs, Sizes DEF SignedFits
  <1>2. w \in Words
    BY <1>1, Sizes DEF SignedFits, Words, W
  <1>3. Signed(w) = IF w >= H THEN w - W ELSE w
    BY <1>2, SignedIs
  <1> QED
    BY <1>1, <1>3, Sizes DEF SignedFits

-----------------------------------------------------------------------------
(* Division *)

LEMMA Euclid ==
  ASSUME NEW n \in Nat, NEW d \in Nat, d # 0
  PROVE  /\ n \div d \in Nat /\ n % d \in 0 .. d - 1
         /\ n = d * (n \div d) + (n % d)
  <1>1. n = d * (n \div d) + (n % d)
    OBVIOUS
  <1>2. n % d \in 0 .. d - 1
    OBVIOUS
  <1>3. n \div d \in Nat
    OBVIOUS
  <1> QED
    BY <1>1, <1>2, <1>3

\* C's division of two words, as signed numbers: the quotient fits but in one case.
LEMMA Truncated ==
  ASSUME NEW x \in -H .. H - 1, NEW y \in -H .. H - 1, y # 0, ~(x = -H /\ y = -1)
  PROVE  LET q == Quotient(x, y)  r == Remainder(x, y)
         IN  /\ q \in Int /\ r \in Int /\ SignedFits(q) /\ SignedFits(r)
             /\ q * y + r = x /\ r * r < y * y /\ r * x >= 0
  <1> DEFINE n == IF x < 0 THEN -x ELSE x
             d == IF y < 0 THEN -y ELSE y
             k == n \div d
             m == n % d
             q == Quotient(x, y)
             r == Remainder(x, y)
  <1>1. x \in Int /\ y \in Int /\ n \in Nat /\ d \in Nat /\ d # 0 /\ n <= H
    BY Sizes
  <1>2. k \in Nat /\ m \in 0 .. d - 1 /\ n = d * k + m
    BY <1>1, Euclid
  <1>3. q = IF (x < 0) # (y < 0) THEN -k ELSE k
    BY DEF Quotient
  <1>4. r = x - q * y
    BY DEF Remainder
  <1> HIDE DEF n, d, k, m, q, r
  <1>5. r = IF x < 0 THEN -m ELSE m
    BY <1>1, <1>2, <1>3, <1>4 DEF n, d
  <1>6. d * k \in Nat /\ d * k <= n
    BY <1>1, <1>2
  <1>7. k <= H /\ (k = H => d = 1)
    <2>1. d = 1 \/ 2 * k <= d * k
      BY <1>1, <1>2
    <2> QED
      BY <1>1, <1>2, <1>6, <2>1, Sizes
  <1>8. q \in Int /\ r \in Int /\ q * y + r = x
    BY <1>1, <1>2, <1>3, <1>4, <1>5
  <1>9. SignedFits(q)
    BY <1>1, <1>2, <1>3, <1>7, Sizes DEF SignedFits, n, d
  <1>10. SignedFits(r)
    BY <1>1, <1>2, <1>5, Sizes DEF SignedFits, d
  <1>11. r * r = m * m /\ y * y = d * d
    BY <1>1, <1>2, <1>5 DEF d
  <1>12. m * m < d * d
    BY <1>1, <1>2
  <1>13. r * x >= 0
    BY <1>1, <1>2, <1>5
  <1> QED
    BY <1>8, <1>9, <1>10, <1>11, <1>12, <1>13 DEF q, r

-----------------------------------------------------------------------------
(* Multiplication *)

\* HI and LO hold n, up to multiples of a double word.
Holds(p, n) ==
  /\ p.hi \in Words /\ p.lo \in Words
  /\ \E k \in Int : n = Long(p) + k * (W * W)

\* A sum of two words that is too large is less than either of them.
LEMMA Carry ==
  ASSUME NEW x \in Words, NEW y \in Words
  PROVE  LET z == Word(x + y)
         IN  z \in Words /\ x + y = z + W * Flag(z < x \/ z < y)
  <1>1. x \in 0 .. W - 1 /\ y \in 0 .. W - 1
    BY SignedIs
  <1>2. Word(x + y) = IF x + y < W THEN x + y ELSE x + y - W
    BY <1>1, WordIs, Sizes
  <1> QED
    BY <1>1, <1>2, Sizes DEF Flag, Words, W

\* The halves of a word.
LEMMA Halves ==
  ASSUME NEW x \in Words
  PROVE  /\ High(x) \in 0 .. S - 1 /\ Low(x) \in 0 .. S - 1
         /\ x = High(x) * S + Low(x)
  <1>1. x \in Nat /\ x < S * S /\ S \in Nat /\ S # 0
    BY SignedIs, Sizes
  <1>2. High(x) = x \div S /\ Low(x) = x % S
    BY DEF High, Low, S
  <1>3. x \div S \in Nat /\ x % S \in 0 .. S - 1 /\ x = S * (x \div S) + (x % S)
    BY <1>1, Euclid
  <1> DEFINE h == High(x)
             l == Low(x)
  <1> HIDE DEF h, l
  <1>4. h \in Nat /\ l \in 0 .. S - 1 /\ x = S * h + l
    BY <1>2, <1>3 DEF h, l
  <1>5. h < S
    <2> SUFFICES ASSUME h >= S PROVE FALSE
      BY <1>1, <1>4
    <2>1. S * h >= S * S
      BY <1>1, <1>4
    <2> QED
      BY <1>1, <1>4, <2>1
  <1> QED
    BY <1>1, <1>4, <1>5 DEF h, l

LEMMA HalvesMultiply ==
  ASSUME NEW u \in 0 .. S - 1, NEW v \in 0 .. S - 1
  PROVE  u * v \in Words /\ Word(u * v) = u * v
  <1>1. u * v \in Nat /\ u * v <= (S - 1) * (S - 1)
    BY Sizes
  <1>2. (S - 1) * (S - 1) < S * S
    BY Sizes
  <1>3. u * v \in 0 .. W - 1
    BY <1>1, <1>2, Sizes
  <1> QED
    BY <1>3, WordIs, Sizes DEF Words, W

LEMMA UnsignedProduct ==
  ASSUME NEW x \in Words, NEW y \in Words
  PROVE  LET p == UnsignedMultiply(x, y)
         IN  p.hi \in Words /\ p.lo \in Words /\ Long(p) = x * y
  <1> DEFINE a == High(x)
             b == Low(x)
             c == High(y)
             d == Low(y)
             e == High(b * d)
             l == Low(b * d)
             mid == Word(a * d + c * b)
             mid2 == Word(mid + e)
             f == Flag(mid < a * d \/ mid < c * b)
             g == Flag(mid2 < mid \/ mid2 < e)
             h == High(mid2)
             m == Low(mid2)
             top == a * c + (f + g) * S + h
             low == l + m * S
  <1>1. /\ a \in 0 .. S - 1 /\ b \in 0 .. S - 1 /\ x = a * S + b
        /\ c \in 0 .. S - 1 /\ d \in 0 .. S - 1 /\ y = c * S + d
    BY Halves
  <1>2. /\ b * d \in Words /\ Word(b * d) = b * d /\ a * d \in Words /\ Word(a * d) = a * d
        /\ c * b \in Words /\ Word(c * b) = c * b /\ a * c \in Words /\ Word(a * c) = a * c
    <2> HIDE DEF a, b, c, d
    <2> QED
      BY <1>1, HalvesMultiply
  <1>3. UnsignedMultiply(x, y) = Pair(Word(top), low)
    BY <1>2 DEF UnsignedMultiply, S
  <1>4. e \in 0 .. S - 1 /\ l \in 0 .. S - 1 /\ b * d = e * S + l
    BY <1>2, Halves
  <1>5. mid \in Words /\ a * d + c * b = mid + W * f
    BY <1>2, Carry
  <1>6. e \in Words
    BY <1>4, Sizes DEF Words, W
  <1>7. mid2 \in Words /\ mid + e = mid2 + W * g
    BY <1>5, <1>6, Carry
  <1>8. h \in 0 .. S - 1 /\ m \in 0 .. S - 1 /\ mid2 = h * S + m
    BY <1>7, Halves
  <1>9. f \in {0, 1} /\ g \in {0, 1}
    BY DEF Flag
  <1>10. mid \in Nat /\ mid2 \in Nat /\ x \in 0 .. W - 1 /\ y \in 0 .. W - 1
    BY <1>5, <1>7, SignedIs
  <1> HIDE DEF a, b, c, d, e, l, mid, mid2, f, g, h, m
  <1>11. (a * d + c * b) + e = (h * S + m) + W * (f + g)
    BY <1>1, <1>4, <1>5, <1>7, <1>8, <1>9, <1>10, Sizes
  <1>12. x * y = (a * c) * W + ((a * d + c * b) * S + b * d)
    <2>1. x * y = (a * S + b) * (c * S + d)
      BY <1>1
    <2>2. (a * S + b) * (c * S + d) = (a * c) * (S * S) + ((a * d + c * b) * S + b * d)
      BY <1>1, Sizes
    <2> QED
      BY <2>1, <2>2, Sizes
  <1>13. (a * d + c * b) * S + b * d = ((h * S + m) + W * (f + g)) * S + l
    <2>1. (a * d + c * b) * S + b * d = ((a * d + c * b) + e) * S + l
      BY <1>1, <1>4, Sizes
    <2> QED
      BY <1>11, <2>1
  <1>14. ((h * S + m) + W * (f + g)) * S + l = ((f + g) * S + h) * W + low
    <2>1. ((h * S + m) + W * (f + g)) * S + l = h * (S * S) + m * S + ((f + g) * S) * W + l
      BY <1>4, <1>8, <1>9, Sizes
    <2> QED
      BY <2>1, <1>4, <1>8, <1>9, Sizes
  <1>15. x * y = top * W + low
    BY <1>1, <1>4, <1>8, <1>9, <1>12, <1>13, <1>14, Sizes
  <1>16. low \in 0 .. W - 1
    <2>1. m * S <= (S - 1) * S /\ m * S \in Nat
      BY <1>8, Sizes
    <2> QED
      BY <1>4, <2>1, Sizes
  <1>17. top \in Nat
    BY <1>1, <1>8, <1>9, Sizes
  <1> HIDE DEF top, low
  <1>18. top < W
    <2> SUFFICES ASSUME top >= W PROVE FALSE
      BY <1>17, Sizes
    <2>1. top * W >= W * W
      BY <1>17, Sizes
    <2>2. x * y < W * W
      BY <1>10, Sizes
    <2> QED
      BY <1>10, <1>15, <1>16, <1>17, <2>1, <2>2, Sizes
  <1>19. Word(top) = top
    BY <1>17, <1>18, WordIs, Sizes
  <1> QED
    <2>1. UnsignedMultiply(x, y).hi = top /\ UnsignedMultiply(x, y).lo = low
      BY <1>3, <1>19 DEF Pair
    <2>2. top \in Words /\ low \in Words
      BY <1>16, <1>17, <1>18, Sizes DEF Words, W
    <2>3. Long(UnsignedMultiply(x, y)) = x * y
      BY <1>15, <2>1 DEF Long, W
    <2> QED
      BY <2>1, <2>2, <2>3

\* What HI and LO hold is n modulo a double word.
LEMMA HoldsModulo ==
  ASSUME NEW p, NEW n \in Int, Holds(p, n)
  PROVE  Long(p) = n % 2^(2 * WordBits)
  <1> DEFINE D == W * W
             z == Long(p)
  <1>1. 2^(2 * WordBits) = D /\ D \in Nat /\ D # 0
    BY PowersAssumption, Sizes DEF W
  <1>2. PICK k \in Int : n = z + k * D
    BY DEF Holds
  <1>3. z \in 0 .. D - 1
    <2>1. /\ p.hi \in 0 .. W - 1 /\ p.lo \in 0 .. W - 1 /\ z = p.hi * W + p.lo
      BY DEF Holds, Words, W, Long
    <2>2. p.hi * W <= (W - 1) * W
      BY <2>1, Sizes
    <2> QED
      BY <2>1, <2>2, Sizes
  <1> HIDE DEF D, z
  <1>4. n % D = z
    BY <1>1, <1>2, <1>3
  <1> QED
    BY <1>1, <1>4 DEF z

LEMMA Distribute ==
  ASSUME NEW a \in Int, NEW b \in Int, NEW c \in Int, NEW d \in Int
  PROVE  (a + b * W + c + d) * W = a * W + b * (W * W) + c * W + d * W
  BY Sizes

LEMMA UnsignedHolds ==
  ASSUME NEW x \in Words, NEW y \in Words
  PROVE  Holds(UnsignedMultiply(x, y), x * y)
  <1>1. x * y = x * y + 0 * (W * W)
    BY SignedIs, Sizes
  <1> QED
    BY <1>1, UnsignedProduct DEF Holds

\* The two's complement of the pair.
LEMMA NegativeHolds ==
  ASSUME NEW p, NEW n \in Int, Holds(p, n)
  PROVE  Holds(NegatePair(p), -n)
  <1> DEFINE q == NegatePair(p)
             D == W * W
  <1>1. /\ p.hi \in 0 .. W - 1 /\ p.lo \in 0 .. W - 1 /\ D \in Nat
        /\ p.hi * W \in Int
    BY Sizes DEF Holds, Words, W
  <1>2. PICK k \in Int : n = p.hi * W + p.lo + k * D
    BY DEF Holds, Long, W
  <1>3. q.lo = IF p.lo = 0 THEN 0 ELSE W - p.lo
    <2>1. q.lo = Word(W - p.lo)
      BY <1>1, Sizes DEF NegatePair, Pair, BitNot, W
    <2> QED
      BY <1>1, <2>1, WordIs, Sizes
  <1>4. q.hi = Word(W - 1 - p.hi + Flag(q.lo = 0))
    BY DEF NegatePair, Pair, BitNot, W
  <1>5. CASE p.lo = 0 /\ p.hi = 0
    <2>1. q.lo = 0 /\ q.hi = 0
      BY <1>1, <1>3, <1>4, <1>5, WordIs, Sizes DEF Flag
    <2>2. -n = 0 * W + 0 + (-k) * D
      BY <1>1, <1>2, <1>5, Sizes
    <2>3. 0 \in Words
      BY Sizes DEF Words, W
    <2> QED
      BY <2>1, <2>2, <2>3 DEF Holds, Long, W
  <1>6. CASE p.lo = 0 /\ p.hi # 0
    <2>1. q.lo = 0 /\ q.hi = W - p.hi
      BY <1>1, <1>3, <1>4, <1>6, WordIs, Sizes DEF Flag
    <2>2. -n = (W - p.hi) * W + 0 + (-k - 1) * D
      BY <1>1, <1>2, <1>6, Sizes
    <2>3. 0 \in Words /\ W - p.hi \in Words
      BY <1>1, <1>6, Sizes DEF Words, W
    <2> QED
      BY <2>1, <2>2, <2>3 DEF Holds, Long, W
  <1>7. CASE p.lo # 0
    <2>1. q.lo = W - p.lo /\ q.hi = W - 1 - p.hi
      BY <1>1, <1>3, <1>4, <1>7, WordIs, Sizes DEF Flag
    <2>2. -n = (W - 1 - p.hi) * W + (W - p.lo) + (-k - 1) * D
      BY <1>1, <1>2, <1>7, Sizes
    <2>3. W - p.lo \in Words /\ W - 1 - p.hi \in Words
      BY <1>1, <1>7, Sizes DEF Words, W
    <2> QED
      BY <2>1, <2>2, <2>3 DEF Holds, Long, W
  <1> QED
    BY <1>5, <1>6, <1>7

LEMMA SignedHolds ==
  ASSUME NEW x \in Words, NEW y \in Words
  PROVE  Holds(SignedMultiply(x, y), Signed(x) * Signed(y))
  <1> DEFINE a == Magnitude(x)
             b == Magnitude(y)
  <1>1. ASSUME NEW v \in Words
        PROVE  /\ Magnitude(v) \in Words
               /\ Signed(v) = IF SIGN_BIT(v) = 0 THEN Magnitude(v) ELSE -Magnitude(v)
    <2>1. /\ v \in 0 .. W - 1 /\ Signed(v) = (IF v >= H THEN v - W ELSE v)
          /\ SIGN_BIT(v) = (IF v >= H THEN 1 ELSE 0)
      BY SignedIs
    <2>2. CASE v >= H
      <3>1. Word(-v) = W - v
        BY <2>1, <2>2, WordIs, Sizes
      <3>2. Magnitude(v) = W - v
        BY <2>1, <2>2, <3>1, Sizes DEF Magnitude, Negate
      <3> QED
        BY <2>1, <2>2, <3>2, Sizes DEF Words, W
    <2>3. CASE v < H
      <3>1. Magnitude(v) = v
        BY <2>1, <2>3, Sizes DEF Magnitude
      <3> QED
        BY <2>1, <2>3, <3>1, Sizes
    <2> QED
      BY <2>1, <2>2, <2>3, Sizes
  <1>2. /\ a \in Words /\ Signed(x) = (IF SIGN_BIT(x) = 0 THEN a ELSE -a)
        /\ b \in Words /\ Signed(y) = (IF SIGN_BIT(y) = 0 THEN b ELSE -b)
    BY <1>1
  <1>3. Holds(UnsignedMultiply(a, b), a * b)
    BY <1>2, UnsignedHolds
  <1>4. a \in Nat /\ b \in Nat /\ SIGN_BIT(x) \in {0, 1} /\ SIGN_BIT(y) \in {0, 1}
    BY <1>2, SignedIs, Sizes
  <1>5. CASE SIGN_BIT(x) = SIGN_BIT(y)
    <2>1. SignedMultiply(x, y) = UnsignedMultiply(a, b)
      BY <1>5 DEF SignedMultiply
    <2> HIDE DEF a, b
    <2>2. Signed(x) * Signed(y) = a * b
      BY <1>2, <1>4, <1>5
    <2> QED
      BY <1>3, <2>1, <2>2
  <1>6. CASE SIGN_BIT(x) # SIGN_BIT(y)
    <2>1. SignedMultiply(x, y) = NegatePair(UnsignedMultiply(a, b))
      BY <1>6 DEF SignedMultiply
    <2> HIDE DEF a, b
    <2>2. Signed(x) * Signed(y) = -(a * b) /\ a * b \in Int
      BY <1>2, <1>4, <1>6
    <2>3. Holds(NegatePair(UnsignedMultiply(a, b)), -(a * b))
      BY <1>3, <2>2, NegativeHolds
    <2> QED
      BY <2>1, <2>2, <2>3
  <1> QED
    BY <1>5, <1>6

\* madd and maddu.
LEMMA AddHolds ==
  ASSUME NEW p, NEW q, p.hi \in Words, p.lo \in Words, NEW n \in Int, Holds(q, n)
  PROVE  Holds(AddTo(p, q), Long(p) + n)
  <1> DEFINE r == AddTo(p, q)
             D == W * W
             f == Flag(Word(p.lo + q.lo) < q.lo \/ Word(p.lo + q.lo) < p.lo)
  <1>1. /\ p.hi \in 0 .. W - 1 /\ p.lo \in 0 .. W - 1 /\ q.hi \in 0 .. W - 1 /\ q.lo \in 0 .. W - 1
        /\ D \in Nat /\ q.lo \in Words
    BY Sizes DEF Holds, Words, W
  <1>2. PICK k \in Int : n = q.hi * W + q.lo + k * D
    BY DEF Holds, Long, W
  <1>3. r.lo = Word(p.lo + q.lo) /\ r.hi = Word(p.hi + f + q.hi)
    BY DEF AddTo, Pair
  <1>4. f \in {0, 1} /\ r.lo \in Words /\ p.lo + q.lo = r.lo + W * f
    <2>1. f = Flag(Word(p.lo + q.lo) < p.lo \/ Word(p.lo + q.lo) < q.lo)
      BY DEF Flag
    <2> QED
      BY <1>1, <1>3, <2>1, Carry DEF Flag
  <1> HIDE DEF f
  <1>5. PICK g \in {0, 1} : r.hi \in 0 .. W - 1 /\ p.hi + f + q.hi = r.hi + g * W
    <2> DEFINE z == p.hi + f + q.hi
    <2>1. z \in 0 .. 2 * W - 1
      BY <1>1, <1>4, Sizes
    <2>2. r.hi = IF z < W THEN z ELSE z - W
      BY <1>3, <2>1, WordIs, Sizes
    <2>3. CASE z < W
      BY <2>1, <2>2, <2>3, Sizes
    <2>4. CASE z >= W
      BY <2>1, <2>2, <2>4, Sizes
    <2> QED
      BY <2>1, <2>3, <2>4, Sizes
  <1>6. r.lo \in 0 .. W - 1
    BY <1>4, SignedIs
  <1>7. (p.hi * W + p.lo) + n = (r.hi * W + r.lo) + (g + k) * D
    <2> HIDE DEF r
    <2>5. r.hi = p.hi + (-g) * W + f + q.hi
      <3>1. CASE g = 0
        BY <1>1, <1>4, <1>5, <3>1, Sizes
      <3>2. CASE g = 1
        BY <1>1, <1>4, <1>5, <3>2, Sizes
      <3> QED
        BY <3>1, <3>2
    <2>6. p.lo = r.lo + W * f - q.lo
      BY <1>1, <1>4, <1>6, Sizes
    <2>2. p.hi \in Int /\ -g \in Int /\ f \in Int /\ q.hi \in Int
      BY <1>1, <1>4, <1>5, Sizes
    <2>3. (p.hi + (-g) * W + f + q.hi) * W = p.hi * W + (-g) * D + f * W + q.hi * W
      BY <2>2, Distribute
    <2>4. r.hi * W = p.hi * W + (-g) * D + f * W + q.hi * W
      BY <2>5, <2>3
    <2>7. /\ (g + k) * D = k * D - (-g) * D /\ W * f = f * W
          /\ {k * D, (-g) * D, p.hi * W, q.hi * W, r.hi * W, f * W} \subseteq Int
      BY <1>1, <1>4, <1>5, Sizes
    <2> HIDE DEF D
    <2> QED
      BY <2>4, <2>6, <2>7, <1>1, <1>2, <1>6
  <1>8. g + k \in Int /\ r.hi \in Words
    BY <1>5 DEF Words, W
  <1> QED
    BY <1>4, <1>7, <1>8 DEF Holds, Long, W

\* msub and msubu.
LEMMA SubtractHolds ==
  ASSUME NEW p, NEW q, p.hi \in Words, p.lo \in Words, NEW n \in Int, Holds(q, n)
  PROVE  Holds(SubtractFrom(p, q), Long(p) - n)
  <1> DEFINE r == SubtractFrom(p, q)
             D == W * W
             f == Flag(q.lo > p.lo)
  <1>1. /\ p.hi \in 0 .. W - 1 /\ p.lo \in 0 .. W - 1 /\ q.hi \in 0 .. W - 1 /\ q.lo \in 0 .. W - 1
        /\ D \in Nat
    BY Sizes DEF Holds, Words, W
  <1>2. PICK k \in Int : n = q.hi * W + q.lo + k * D
    BY DEF Holds, Long, W
  <1>3. r.lo = Word(p.lo - q.lo) /\ r.hi = Word(p.hi - f - q.hi)
    BY DEF SubtractFrom, Pair
  <1>4. f \in {0, 1} /\ r.lo \in 0 .. W - 1 /\ p.lo - q.lo = r.lo - W * f
    BY <1>1, <1>3, WordIs, Sizes DEF Flag
  <1> HIDE DEF f
  <1>5. PICK g \in {0, 1} : r.hi \in 0 .. W - 1 /\ p.hi - f - q.hi = r.hi - g * W
    <2> DEFINE z == p.hi - f - q.hi
    <2>1. z \in -W .. W - 1
      BY <1>1, <1>4, Sizes
    <2>2. r.hi = IF z < 0 THEN z + W ELSE z
      BY <1>3, <2>1, WordIs, Sizes
    <2>3. CASE z < 0
      BY <2>1, <2>2, <2>3, Sizes
    <2>4. CASE z >= 0
      BY <2>1, <2>2, <2>4, Sizes
    <2> QED
      BY <2>1, <2>3, <2>4, Sizes
  <1>6. (p.hi * W + p.lo) - n = (r.hi * W + r.lo) + (-g - k) * D
    <2> HIDE DEF r
    <2>5. p.hi = r.hi + (-g) * W + f + q.hi
      <3>1. CASE g = 0
        BY <1>1, <1>4, <1>5, <3>1, Sizes
      <3>2. CASE g = 1
        BY <1>1, <1>4, <1>5, <3>2, Sizes
      <3> QED
        BY <3>1, <3>2
    <2>6. p.lo = r.lo - W * f + q.lo
      BY <1>1, <1>4, Sizes
    <2>2. r.hi \in Int /\ -g \in Int /\ f \in Int /\ q.hi \in Int
      BY <1>1, <1>4, <1>5, Sizes
    <2>3. (r.hi + (-g) * W + f + q.hi) * W = r.hi * W + (-g) * D + f * W + q.hi * W
      BY <2>2, Distribute
    <2>4. p.hi * W = r.hi * W + (-g) * D + f * W + q.hi * W
      BY <2>5, <2>3
    <2>7. /\ (-g - k) * D = (-g) * D - k * D /\ W * f = f * W
          /\ {k * D, (-g) * D, p.hi * W, q.hi * W, r.hi * W, f * W} \subseteq Int
      BY <1>1, <1>4, <1>5, Sizes
    <2> HIDE DEF D
    <2> QED
      BY <2>4, <2>6, <2>7, <1>1, <1>2, <1>4
  <1>7. -g - k \in Int /\ r.hi \in Words /\ r.lo \in Words
    BY <1>4, <1>5 DEF Words, W
  <1> QED
    BY <1>6, <1>7 DEF Holds, Long, W

-----------------------------------------------------------------------------
(* The invariant *)

AInv ==
  /\ s \in Words /\ t \in Words /\ old.hi \in Words /\ old.lo \in Words
  /\ OverflowExact /\ DivisionLaw /\ ProductsExact

LEMMA AtFirst == Init => AInv
  BY RegistersAssumption
     DEF Init, AInv, OverflowExact, DivisionLaw, ProductsExact, TrappingOps, Pair

LEMMA AnAddition ==
  ASSUME AInv, NEW o \in TrappingOps, Add(o)
  PROVE  AInv'
  <1>1. /\ s' = s /\ t' = t /\ old' = old /\ op' = o
        /\ s \in Words /\ t \in Words /\ old.hi \in Words /\ old.lo \in Words
    BY DEF Add, AInv
  <1>2. DivisionLaw' /\ ProductsExact'
    BY <1>1 DEF DivisionLaw, ProductsExact, TrappingOps
  <1>3. /\ fault' = Overflows(o, s, t, Low(t))
        /\ result' = IF fault' THEN 0 ELSE Value(o, s, t, Low(t))
    BY DEF Add
  <1>4. CASE o = "ADD"
    <2>1. (fault' <=> ArithOvfl(Word(s + t), s, t)) /\ (~fault' => result' = Word(s + t))
      BY <1>3, <1>4 DEF Overflows, Value
    <2>2. OverflowExact'
      BY <1>1, <1>4, <2>1, SumOfWords DEF OverflowExact, SignedFits, H
    <2> QED
      BY <1>1, <1>2, <2>2 DEF AInv
  <1>5. CASE o = "ADDI"
    <2> DEFINE i == Imm(Low(t))
    <2>1. (fault' <=> ArithOvfl(Word(s + i), s, i)) /\ (~fault' => result' = Word(s + i))
      BY <1>3, <1>5 DEF Overflows, Value
    <2>2. i \in Words /\ Signed(i) = ShortValue(Low(t))
      BY <1>1, ImmediateOperand
    <2> HIDE DEF i
    <2>3. OverflowExact'
      BY <1>1, <1>5, <2>1, <2>2, SumOfWords DEF OverflowExact, SignedFits, H
    <2> QED
      BY <1>1, <1>2, <2>3 DEF AInv
  <1>6. CASE o = "SUB"
    <2>1. /\ fault' <=> SIGN_BIT(s) # SIGN_BIT(t) /\ SIGN_BIT(s) # SIGN_BIT(Word(s - t))
          /\ ~fault' => result' = Word(s - t)
      BY <1>3, <1>6 DEF Overflows, Value
    <2>2. OverflowExact'
      BY <1>1, <1>6, <2>1, Difference DEF OverflowExact, SignedFits, H
    <2> QED
      BY <1>1, <1>2, <2>2 DEF AInv
  <1> QED
    BY <1>4, <1>5, <1>6 DEF TrappingOps

LEMMA AHiLo ==
  ASSUME AInv, NEW o \in HiLoOps, MultiplyDivide(o)
  PROVE  AInv'
  <1>1. /\ s' = s /\ t' = t /\ old' = old /\ op' = o
        /\ s \in Words /\ t \in Words /\ old.hi \in Words /\ old.lo \in Words
        /\ new' = HiLo(o, s, t, old)
    BY DEF MultiplyDivide, AInv
  <1>2. OverflowExact'
    BY <1>1 DEF OverflowExact, TrappingOps, HiLoOps
  <1>3. CASE o = "DIV" /\ Divides(s, t)
    <2> DEFINE x == Signed(s)
               y == Signed(t)
               q == Quotient(x, y)
               r == Remainder(x, y)
    <2>1. new' = Pair(Word(r), Word(q))
      BY <1>1, <1>3 DEF HiLo
    <2>2. x \in -H .. H - 1 /\ y \in -H .. H - 1
      BY <1>1, SignedIs, Sizes
    <2>3. y # 0 /\ ~(x = -H /\ y = -1)
      <3>1. t # 0 /\ ~(s = H /\ t = W - 1)
        BY <1>3 DEF Divides, H, W
      <3> QED
        BY <1>1, <3>1, SignedIs, Sizes
    <2>4. /\ q \in Int /\ r \in Int /\ SignedFits(q) /\ SignedFits(r)
          /\ q * y + r = x /\ r * r < y * y /\ r * x >= 0
      BY <2>2, <2>3, Truncated
    <2>5. new'.hi = Word(r) /\ new'.lo = Word(q)
      BY <2>1 DEF Pair
    <2>6. Signed(new'.hi) = r /\ Signed(new'.lo) = q
      BY <2>4, <2>5, ReadBack
    <2>7. t # 0
      BY <1>3 DEF Divides
    <2>8. ~(x = -(2^(WordBits - 1)) /\ y = -1)
      BY <2>3 DEF H
    <2> HIDE DEF x, y, q, r
    <2>9. DivisionLaw'
      BY <1>1, <1>3, <2>4, <2>6, <2>7, <2>8 DEF DivisionLaw, x, y
    <2>10. ProductsExact'
      BY <1>1, <1>3 DEF ProductsExact
    <2> QED
      BY <1>1, <1>2, <2>9, <2>10 DEF AInv
  <1>4. CASE o = "DIVU" /\ Divides(s, t)
    <2>1. new'.hi = s % t /\ new'.lo = s \div t
      BY <1>1, <1>4 DEF HiLo, Pair
    <2>2. s \in Nat /\ t \in Nat /\ t # 0
      BY <1>1, <1>4, SignedIs DEF Divides
    <2>3. new'.lo * t + new'.hi = s /\ new'.hi < t
      BY <2>1, <2>2, Euclid
    <2>4. DivisionLaw'
      BY <1>1, <1>4, <2>2, <2>3 DEF DivisionLaw
    <2>10. ProductsExact'
      BY <1>1, <1>4 DEF ProductsExact
    <2> QED
      BY <1>1, <1>2, <2>4, <2>10 DEF AInv
  <1>5. CASE o \in {"DIV", "DIVU"} /\ ~Divides(s, t)
    <2>1. new' = old'
      BY <1>1, <1>5 DEF HiLo
    <2>2. DivisionLaw'
      BY <1>1, <1>5, <2>1 DEF DivisionLaw
    <2>10. ProductsExact'
      BY <1>1, <1>5 DEF ProductsExact
    <2> QED
      BY <1>1, <1>2, <2>2, <2>10 DEF AInv
  <1>6. CASE o \notin {"DIV", "DIVU"}
    <2> DEFINE n == IF o \in {"MULT", "MUL", "MADD", "MSUB"} THEN Signed(s) * Signed(t) ELSE s * t
               p == Multiply(o, s, t)
               z == 2^(2 * WordBits)
    <2>1. DivisionLaw'
      BY <1>1, <1>6 DEF DivisionLaw
    <2> SUFFICES ProductsExact'
      BY <1>1, <1>2, <2>1 DEF AInv
    <2>2. Product' = n
      BY <1>1 DEF Product
    <2>3. n \in Int
      BY <1>1, SignedIs, Sizes
    <2>4. Holds(p, n)
      BY <1>1, SignedHolds, UnsignedHolds DEF Multiply
    <2>5. Long(old) \in Int
      BY <1>1, SignedIs, Sizes DEF Long, W
    <2> HIDE DEF n, p
    <2>6. CASE o \in {"MULT", "MULTU", "MUL"}
      <3>1. new' = p
        BY <1>1, <2>6 DEF HiLo, p
      <3>2. Long(new)' = n % z
        BY <2>3, <2>4, <3>1, HoldsModulo DEF Long
      <3> QED
        BY <1>1, <2>2, <2>6, <3>2 DEF ProductsExact
    <2>7. CASE o \in {"MADD", "MADDU"}
      <3>1. new' = AddTo(old, p)
        BY <1>1, <2>7 DEF HiLo, p
      <3>2. Holds(AddTo(old, p), Long(old) + n)
        BY <1>1, <2>3, <2>4, AddHolds
      <3>3. Long(new)' = (Long(old) + n) % z
        BY <2>3, <2>5, <3>1, <3>2, HoldsModulo DEF Long
      <3> QED
        BY <1>1, <2>2, <2>7, <3>3 DEF ProductsExact, Long
    <2>8. CASE o \in {"MSUB", "MSUBU"}
      <3>1. new' = SubtractFrom(old, p)
        BY <1>1, <2>8 DEF HiLo, p
      <3>2. Holds(SubtractFrom(old, p), Long(old) - n)
        BY <1>1, <2>3, <2>4, SubtractHolds
      <3>3. Long(new)' = (Long(old) - n) % z
        BY <2>3, <2>5, <3>1, <3>2, HoldsModulo DEF Long
      <3> QED
        BY <1>1, <2>2, <2>8, <3>3 DEF ProductsExact, Long
    <2>9. CASE o \in {"MTHI", "MTLO"}
      BY <1>1, <2>9 DEF ProductsExact
    <2> QED
      BY <1>6, <2>6, <2>7, <2>8, <2>9 DEF HiLoOps
  <1> QED
    BY <1>3, <1>4, <1>5, <1>6

LEMMA AnyStep == AInv /\ [Next]_vars => AInv'
  <1> SUFFICES ASSUME AInv, [Next]_vars PROVE AInv'
    OBVIOUS
  <1>1. ASSUME NEW o \in TrappingOps, Add(o) PROVE AInv'
    BY <1>1, AnAddition
  <1>2. ASSUME NEW o \in HiLoOps, MultiplyDivide(o) PROVE AInv'
    BY <1>2, AHiLo
  <1>3. CASE UNCHANGED vars
    BY <1>3 DEF vars, AInv, OverflowExact, DivisionLaw, ProductsExact, Product, Long
  <1> QED
    BY <1>1, <1>2, <1>3 DEF Next

-----------------------------------------------------------------------------
(* Unaligned words *)

\* Power(k) is what k bytes can hold.
Power(k) == 2^(k * ByteBits)

LEMMA Powers ==
  ASSUME NEW k \in 0 .. 4
  PROVE  /\ Power(k) \in Nat \ {0} /\ Power(4 - k) \in Nat \ {0}
         /\ Power(k) * Power(4 - k) = W
         /\ Power(0) = 1 /\ Power(4) = W
  <1>1. /\ Power(k) \in Nat \ {0} /\ Power(4 - k) \in Nat \ {0} /\ Power(k) * Power(4 - k) = W
    BY PowersAssumption DEF Power, W
  <1>2. Power(4) = W
    BY DEF Power, W, WordBits
  <1>3. Power(0) \in Nat /\ Power(0) * W = W /\ W # 0 /\ W \in Nat
    BY <1>2, PowersAssumption DEF Power, W
  <1>4. Power(0) = 1
    BY <1>3
  <1> QED
    BY <1>1, <1>2, <1>4

\* A quotient and a remainder are the only ones.
LEMMA Digits ==
  ASSUME NEW d \in Nat \ {0}, NEW q \in Int, NEW r \in 0 .. d - 1
  PROVE  (q * d + r) \div d = q /\ (q * d + r) % d = r
  <1>1. q * d + r = d * q + r /\ 0 <= r /\ r < d /\ q * d + r \in Int
    OBVIOUS
  <1> QED
    BY <1>1

\* A word is digits above and below its lowest k bytes.
LEMMA Parts ==
  ASSUME NEW v \in Words, NEW k \in 0 .. 4
  PROVE  /\ v \div Power(k) \in 0 .. Power(4 - k) - 1 /\ v % Power(k) \in 0 .. Power(k) - 1
         /\ v = (v \div Power(k)) * Power(k) + (v % Power(k))
         /\ LowBytes(v, k) = v % Power(k)
         /\ HighBytes(v, 4 - k) = (v \div Power(k)) * Power(k)
         /\ Down(v, k) = v \div Power(k)
  <1> DEFINE d == Power(k)
             e == Power(4 - k)
             q == v \div d
             r == v % d
  <1>1. d \in Nat /\ d # 0 /\ e \in Nat /\ e # 0 /\ d * e = W /\ v \in Nat /\ v < W
    BY Powers, SignedIs, Sizes
  <1>2. q \in Nat /\ r \in 0 .. d - 1 /\ v = d * q + r
    BY <1>1, Euclid
  <1>3. q < e
    <2> HIDE DEF q, r, d, e
    <2>1. SUFFICES ASSUME q >= e PROVE FALSE
      BY <1>1, <1>2
    <2>2. d * q >= d * e
      BY <1>1, <1>2, <2>1
    <2> QED
      BY <1>1, <1>2, <2>2
  <1>4. v = q * d + r
    <2> HIDE DEF q, r, d
    <2> QED
      BY <1>1, <1>2
  <1>5. LowBytes(v, k) = r /\ Down(v, k) = q
    BY DEF LowBytes, Down, Power
  <1>6. HighBytes(v, 4 - k) = v - r
    <2>1. 4 - (4 - k) = k
      OBVIOUS
    <2> QED
      BY <1>5, <2>1 DEF HighBytes
  <1>7. HighBytes(v, 4 - k) = q * d
    <2> HIDE DEF q, r, d
    <2> QED
      BY <1>1, <1>2, <1>4, <1>6
  <1> QED
    BY <1>1, <1>2, <1>3, <1>4, <1>5, <1>7

\* The word k bytes above the lowest of two words.
Between(a, b, k) == (a + b * 2^WordBits) \div 2^(k * ByteBits) % 2^WordBits

LEMMA BetweenIs ==
  ASSUME NEW k \in 0 .. 4, NEW q \in 0 .. Power(4 - k) - 1, NEW r \in 0 .. Power(k) - 1,
         NEW x \in 0 .. Power(4 - k) - 1, NEW y \in 0 .. Power(k) - 1
  PROVE  /\ Between(q * Power(k) + r, x * Power(k) + y, k) = y * Power(4 - k) + q
         /\ y * Power(4 - k) + q \in Words
  <1> DEFINE d == Power(k)
             e == Power(4 - k)
             w == y * e + q
  <1>1. d \in Nat /\ d # 0 /\ e \in Nat /\ e # 0 /\ d * e = W /\ W \in Nat /\ W # 0
    BY Powers, Sizes
  <1>2. q \in 0 .. e - 1 /\ r \in 0 .. d - 1 /\ x \in 0 .. e - 1 /\ y \in 0 .. d - 1
    OBVIOUS
  <1>3. Between(q * d + r, x * d + y, k) = ((q * d + r) + (x * d + y) * W) \div d % W
    BY DEF Between, Power, W
  <1> HIDE DEF d, e
  <1>4. w \in 0 .. W - 1
    <2>1. y * e <= (d - 1) * e /\ y * e >= 0 /\ y * e \in Int
      BY <1>1, <1>2
    <2>2. (d - 1) * e = d * e - e
      BY <1>1
    <2> QED
      BY <1>1, <1>2, <2>1, <2>2
  <1>5. (q * d + r) + (x * d + y) * W = (x * W + w) * d + r
    <2>1. (x * d + y) * W = (x * d) * W + y * W
      BY <1>1, <1>2
    <2>2. y * W = (y * e) * d
      <3>1. y * (d * e) = (y * e) * d
        BY <1>1, <1>2
      <3> QED
        BY <1>1, <3>1
    <2>3. (x * d) * W = (x * W) * d
      BY <1>1, <1>2
    <2>4. (x * W + w) * d = (x * W) * d + (y * e) * d + q * d
      <3>1. x * W \in Int /\ y * e \in Int /\ q \in Int /\ d \in Int
        BY <1>1, <1>2
      <3> QED
        BY <3>1
    <2>5. /\ (x * d) * W \in Int /\ y * W \in Int /\ q * d \in Int /\ (x * W) * d \in Int
          /\ (y * e) * d \in Int /\ r \in Int
      BY <1>1, <1>2
    <2> QED
      BY <2>1, <2>2, <2>3, <2>4, <2>5
  <1>6. ((x * W + w) * d + r) \div d = x * W + w
    <2>1. x * W + w \in Int /\ d \in Nat \ {0}
      BY <1>1, <1>2, <1>4
    <2> HIDE DEF w
    <2> QED
      BY <1>2, <2>1, Digits
  <1>7. (x * W + w) % W = w
    <2>1. x \in Int /\ W \in Nat \ {0}
      BY <1>1, <1>2
    <2> HIDE DEF w
    <2> QED
      BY <1>4, <2>1, Digits
  <1>8. Between(q * d + r, x * d + y, k) = w
    BY <1>3, <1>5, <1>6, <1>7
  <1> QED
    BY <1>4, <1>8 DEF d, e, Words, W

\* A pair at the start of a word, where one of its instructions does all.
LEMMA PairAtStart ==
  ASSUME NEW a \in Words, NEW b \in Words, NEW reg \in Words
  PROVE  /\ Lwr(a, Lwl(a, reg, 3), 0) = Between(a, b, 0)
         /\ Lwl(a, Lwr(a, reg, 0), 3) = Between(a, b, 0)
         /\ LET a1 == Swr(a, reg, 0)
            IN  /\ Between(Swl(a1, reg, 3), b, 0) = reg
                /\ LowBytes(Swl(a1, reg, 3), 0) = LowBytes(a, 0)
  <1>1. \A v \in Words : /\ LowBytes(v, 4) = v /\ LowBytes(v, 0) = 0 /\ Up(v, 0) = v /\ Down(v, 0) = v
                         /\ HighBytes(v, 0) = 0 /\ HighBytes(v, 4) = v
    <2> SUFFICES ASSUME NEW v \in Words
                 PROVE  /\ LowBytes(v, 4) = v /\ LowBytes(v, 0) = 0 /\ Up(v, 0) = v /\ Down(v, 0) = v
                        /\ HighBytes(v, 0) = 0 /\ HighBytes(v, 4) = v
      OBVIOUS
    <2>1. Power(0) = 1 /\ Power(4) = W /\ v \in 0 .. W - 1 /\ W \in Nat
      BY Powers, SignedIs, Sizes
    <2>2. v % 1 = 0 /\ v \div 1 = v /\ v % W = v /\ v * 1 = v
      BY <2>1
    <2>3. LowBytes(v, 4) = v /\ LowBytes(v, 0) = 0 /\ Up(v, 0) = v /\ Down(v, 0) = v
      BY <2>1, <2>2 DEF LowBytes, Up, Down, Power
    <2>4. HighBytes(v, 0) = v - LowBytes(v, 4) /\ HighBytes(v, 4) = v - LowBytes(v, 0)
      BY DEF HighBytes
    <2> QED
      BY <2>1, <2>3, <2>4
  <1>2. \A u, v \in Words : Between(u, v, 0) = u
    <2> SUFFICES ASSUME NEW u \in Words, NEW v \in Words
                 PROVE  Between(u, v, 0) = u
      OBVIOUS
    <2>1. Power(0) = 1 /\ u \in 0 .. W - 1 /\ v \in 0 .. W - 1 /\ W \in Nat \ {0}
      BY Powers, SignedIs, Sizes
    <2>2. Between(u, v, 0) = (u + v * W) \div 1 % W
      BY <2>1 DEF Between, Power, W
    <2>3. u + v * W \in Int /\ u + v * W = v * W + u
      BY <2>1
    <2>4. (u + v * W) \div 1 = v * W + u
      BY <2>3
    <2>5. (v * W + u) % W = u
      <3>1. v \in Int /\ W \in Nat \ {0} /\ u \in 0 .. W - 1
        BY <2>1
      <3> QED
        BY <3>1, Digits
    <2> QED
      BY <2>2, <2>4, <2>5
  <1>3. Lwl(a, reg, 3) = a /\ Lwr(a, a, 0) = a
    <2>1. Lwl(a, reg, 3) = Up(LowBytes(a, 4), 0) + LowBytes(reg, 0)
      BY DEF Lwl
    <2>2. Lwr(a, a, 0) = HighBytes(a, 0) + Down(HighBytes(a, 4), 0)
      BY DEF Lwr
    <2> QED
      BY <1>1, <2>1, <2>2, SignedIs
  <1>4. Lwr(a, reg, 0) = a /\ Lwl(a, a, 3) = a
    <2>1. Lwl(a, a, 3) = Up(LowBytes(a, 4), 0) + LowBytes(a, 0)
      BY DEF Lwl
    <2>2. Lwr(a, reg, 0) = HighBytes(reg, 0) + Down(HighBytes(a, 4), 0)
      BY DEF Lwr
    <2> QED
      BY <1>1, <2>1, <2>2, SignedIs
  <1>5. Swr(a, reg, 0) = reg
    <2>1. Swr(a, reg, 0) = Up(LowBytes(reg, 4), 0) + LowBytes(a, 0)
      BY DEF Swr
    <2> QED
      BY <1>1, <2>1, SignedIs
  <1>6. Swl(reg, reg, 3) = reg
    <2>1. Swl(reg, reg, 3) = HighBytes(reg, 0) + Down(reg, 0)
      BY DEF Swl
    <2> QED
      BY <1>1, <2>1, SignedIs
  <1> QED
    BY <1>1, <1>2, <1>3, <1>4, <1>5, <1>6

\* A pair inside two words, each of its instructions in one.
LEMMA PairInside ==
  ASSUME NEW a \in Words, NEW b \in Words, NEW reg \in Words, NEW k \in 1 .. 3
  PROVE  /\ Lwr(a, Lwl(b, reg, k - 1), k) = Between(a, b, k)
         /\ Lwl(b, Lwr(a, reg, k), k - 1) = Between(a, b, k)
         /\ Between(Swr(a, reg, k), Swl(b, reg, k - 1), k) = reg
         /\ LowBytes(Swr(a, reg, k), k) = LowBytes(a, k)
         /\ HighBytes(Swl(b, reg, k - 1), 4 - k) = HighBytes(b, 4 - k)
  <1> DEFINE d == Power(k)
             e == Power(4 - k)
             a1 == a \div d
             a0 == a % d
             b1 == b \div d
             b0 == b % d
             r1 == reg \div e
             r0 == reg % e
  <1>1. /\ k \in 0 .. 4 /\ 4 - k \in 0 .. 4 /\ 4 - (4 - k) = k
        /\ (k - 1) + 1 = k /\ 3 - (k - 1) = 4 - k
    OBVIOUS
  <1>2. /\ d \in Nat \ {0} /\ e \in Nat \ {0}
        /\ a1 \in 0 .. e - 1 /\ a0 \in 0 .. d - 1 /\ b1 \in 0 .. e - 1 /\ b0 \in 0 .. d - 1
        /\ r1 \in 0 .. d - 1 /\ r0 \in 0 .. e - 1
        /\ a = a1 * d + a0 /\ b = b1 * d + b0 /\ reg = r1 * e + r0
    BY <1>1, Powers, Parts
  <1>3. /\ LowBytes(a, k) = a0 /\ HighBytes(a, 4 - k) = a1 * d
        /\ LowBytes(b, k) = b0 /\ HighBytes(b, 4 - k) = b1 * d
        /\ LowBytes(reg, 4 - k) = r0 /\ HighBytes(reg, k) = r1 * e /\ Down(reg, 4 - k) = r1
    <2>1. HighBytes(reg, 4 - (4 - k)) = r1 * e
      BY <1>1, Parts
    <2> QED
      BY <1>1, <2>1, Parts
  <1>4. /\ Between(a, b, k) = b0 * e + a1
        /\ Between(r0 * d + a0, b1 * d + r1, k) = r1 * e + r0
    <2>1. /\ a1 \in 0 .. Power(4 - k) - 1 /\ a0 \in 0 .. Power(k) - 1
          /\ b1 \in 0 .. Power(4 - k) - 1 /\ b0 \in 0 .. Power(k) - 1
          /\ r1 \in 0 .. Power(k) - 1 /\ r0 \in 0 .. Power(4 - k) - 1
      BY <1>2
    <2>2. Between(a1 * Power(k) + a0, b1 * Power(k) + b0, k) = b0 * Power(4 - k) + a1
      <3> HIDE DEF a1, a0, b1, b0
      <3> QED
        BY <1>1, <2>1, BetweenIs
    <2>3. Between(r0 * Power(k) + a0, b1 * Power(k) + r1, k) = r1 * Power(4 - k) + r0
      <3> HIDE DEF a0, b1, r1, r0
      <3> QED
        BY <1>1, <2>1, BetweenIs
    <2> QED
      BY <1>2, <2>2, <2>3
  <1>5. /\ \A v : /\ Up(v, k) = v * d /\ Up(v, 4 - k) = v * e /\ Down(v, k) = v \div d
                  /\ LowBytes(v, k) = v % d /\ LowBytes(v, 4 - k) = v % e
        /\ \A v : HighBytes(v, k) = v - (v % e) /\ HighBytes(v, 4 - k) = v - (v % d)
    <2>1. \A v : /\ Up(v, k) = v * d /\ Up(v, 4 - k) = v * e /\ Down(v, k) = v \div d
                 /\ LowBytes(v, k) = v % d /\ LowBytes(v, 4 - k) = v % e
      BY Zenon DEF Up, Down, LowBytes, Power
    <2>2. \A v : HighBytes(v, k) = v - LowBytes(v, 4 - k) /\ HighBytes(v, 4 - k) = v - LowBytes(v, 4 - (4 - k))
      BY Zenon DEF HighBytes
    <2> HIDE DEF d, e
    <2>3. \A v : HighBytes(v, k) = v - (v % e) /\ HighBytes(v, 4 - k) = v - (v % d)
      BY Zenon, <1>1, <2>1, <2>2
    <2> QED
      BY <2>1, <2>3
  <1> HIDE DEF d, e, a1, a0, b1, b0, r1, r0
  <1>6. /\ \A x \in Int : x * d \in Int /\ x * e \in Int
        /\ \A x \in Int, y \in 0 .. d - 1 : (x * d + y) % d = y /\ (x * d + y) \div d = x
        /\ \A x \in Int, y \in 0 .. e - 1 : (x * e + y) % e = y
    BY <1>2, Digits
  <1>7. (a1 * d) \div d = a1
    <2>1. 0 \in 0 .. d - 1 /\ a1 \in Int /\ a1 * d \in Int /\ a1 * d + 0 = a1 * d
      BY <1>2, <1>6
    <2> QED
      BY <1>6, <2>1
  <1>8. \A v \in Int : /\ Lwl(b, v, k - 1) = b0 * e + (v % e)
                       /\ Lwr(a, v, k) = (v - (v % e)) + a1
    <2> SUFFICES ASSUME NEW v \in Int
                 PROVE  /\ Lwl(b, v, k - 1) = b0 * e + (v % e)
                        /\ Lwr(a, v, k) = (v - (v % e)) + a1
      OBVIOUS
    <2>1. Lwl(b, v, k - 1) = Up(LowBytes(b, (k - 1) + 1), 3 - (k - 1)) + LowBytes(v, 3 - (k - 1))
      BY Zenon DEF Lwl
    <2>2. Lwl(b, v, k - 1) = Up(LowBytes(b, k), 4 - k) + LowBytes(v, 4 - k)
      BY Zenon, <1>1, <2>1
    <2>3. Lwr(a, v, k) = HighBytes(v, k) + Down(HighBytes(a, 4 - k), k)
      BY Zenon DEF Lwr
    <2> QED
      BY Zenon, <1>3, <1>5, <1>7, <2>2, <2>3
  <1>9. Lwr(a, Lwl(b, reg, k - 1), k) = b0 * e + a1
    <2>1. Lwl(b, reg, k - 1) = b0 * e + r0 /\ b0 * e + r0 \in Int /\ b0 * e \in Int
      <3>1. reg \in Int /\ reg % e = r0 /\ b0 * e \in Int /\ r0 \in Int
        BY <1>2, <1>6, SignedIs DEF r0
      <3> QED
        BY <1>8, <3>1
    <2>2. (b0 * e + r0) % e = r0
      BY <1>2, <1>6
    <2>3. Lwr(a, b0 * e + r0, k) = ((b0 * e + r0) - r0) + a1
      BY <1>8, <2>1, <2>2
    <2> QED
      BY <1>2, <2>1, <2>3
  <1>10. Lwl(b, Lwr(a, reg, k), k - 1) = b0 * e + a1
    <2>1. reg \in Int /\ reg % e = r0 /\ r1 * e \in Int /\ r0 \in Int /\ a1 \in Int
      BY <1>2, <1>6, SignedIs DEF r0
    <2>2. Lwr(a, reg, k) = r1 * e + a1
      <3>1. Lwr(a, reg, k) = (reg - r0) + a1
        BY <1>8, <2>1
      <3>2. reg - r0 = r1 * e
        BY <1>2, <2>1
      <3> QED
        BY <3>1, <3>2
    <2>3. (r1 * e + a1) % e = a1
      BY <1>2, <1>6
    <2>4. r1 * e + a1 \in Int
      BY <2>1
    <2> QED
      BY <1>8, <2>2, <2>3, <2>4
  <1>11. Swr(a, reg, k) = r0 * d + a0 /\ Swl(b, reg, k - 1) = b1 * d + r1
    <2>1. Swr(a, reg, k) = Up(LowBytes(reg, 4 - k), k) + LowBytes(a, k)
      BY DEF Swr
    <2>2. Swl(b, reg, k - 1) = HighBytes(b, 4 - k) + Down(reg, 4 - k)
      BY <1>1 DEF Swl
    <2> QED
      BY Zenon, <1>3, <1>5, <2>1, <2>2
  <1>12. LowBytes(r0 * d + a0, k) = a0 /\ HighBytes(b1 * d + r1, 4 - k) = b1 * d
    <2>1. r0 * d + a0 \in Int /\ b1 * d + r1 \in Int /\ b1 * d \in Int /\ r1 \in Int
      BY <1>2, <1>6
    <2>2. (r0 * d + a0) % d = a0 /\ (b1 * d + r1) % d = r1
      <3>1. r0 \in Int /\ b1 \in Int
        BY <1>2
      <3> QED
        BY <1>2, <1>6, <3>1
    <2>3. LowBytes(r0 * d + a0, k) = a0 /\ HighBytes(b1 * d + r1, 4 - k) = (b1 * d + r1) - r1
      BY Zenon, <1>5, <2>2
    <2> QED
      BY <2>1, <2>3
  <1> QED
    BY <1>2, <1>3, <1>4, <1>9, <1>10, <1>11, <1>12

LEMMA PairsMeet == AInv => UnalignedPairs
  <1> SUFFICES ASSUME AInv, NEW k \in 0 .. 3
               PROVE  LET left == (k + 3) % 4
                          upper == IF k = 0 THEN s ELSE t
                          reg == old.hi
                      IN  /\ Lwr(s, Lwl(upper, reg, left), k) = Between(s, t, k)
                          /\ Lwl(upper, Lwr(s, reg, k), left) = Between(s, t, k)
                          /\ LET s1 == Swr(s, reg, k)
                                 both == IF k = 0 THEN <<Swl(s1, reg, left), t>>
                                         ELSE <<s1, Swl(t, reg, left)>>
                             IN  /\ Between(both[1], both[2], k) = reg
                                 /\ LowBytes(both[1], k) = LowBytes(s, k)
                                 /\ HighBytes(both[2], 4 - k) = HighBytes(t, 4 - k)
    BY DEF UnalignedPairs, Between
  <1>1. s \in Words /\ t \in Words /\ old.hi \in Words
    BY DEF AInv
  <1>2. CASE k = 0
    <2>1. (k + 3) % 4 = 3 /\ 4 - k = 4
      BY <1>2
    <2> QED
      BY <1>1, <1>2, <2>1, PairAtStart
  <1>3. CASE k # 0
    <2>1. k \in 1 .. 3 /\ (k + 3) % 4 = k - 1
      BY <1>3
    <2> QED
      BY <1>1, <1>3, <2>1, PairInside
  <1> QED
    BY <1>2, <1>3

-----------------------------------------------------------------------------
(* Theorems *)

\* For words of every width: add, addi and sub raise an overflow exactly when the result does
\* not fit in a word, and are right otherwise (ARITH_OVFL of run.cpp and its like for sub);
\* div and divu leave a quotient and a remainder that make up the dividend, and HI and LO
\* alone when there is no result.
THEOREM ResultsAreExact == Spec => []ExactOrNoResult
  <1>1. AInv => ExactOrNoResult
    BY DEF AInv, ExactOrNoResult
  <1> QED
    BY AtFirst, AnyStep, <1>1, PTL DEF Spec

\* mult, multu, mul, madd, maddu, msub and msubu leave in HI and LO the sum of the products
\* modulo a double word, for words of every width: the carries of unsigned_multiply, the
\* complement of signed_multiply, the carry of madd and the borrow of msub are right.
THEOREM ProductsAreExact == Spec => []ProductsExact
  <1>1. AInv => ProductsExact
    BY DEF AInv
  <1> QED
    BY AtFirst, AnyStep, <1>1, PTL DEF Spec

\* lwl and lwr, in either order, load the word that lies across two words of memory, and swl
\* and swr store one there and leave the other bytes as they are, for bytes of every width.
THEOREM UnalignedPairsMeet == Spec => []UnalignedPairs
  <1> QED
    BY AtFirst, AnyStep, PairsMeet, PTL DEF Spec

-----------------------------------------------------------------------------
(* Condition codes *)

Controlled == DOMAIN InitialFcr

\* FCSR has the bit of each code that is 1, and of no other.
CodesKept(f, c) ==
  /\ DOMAIN f = Controlled
  /\ c \in [0 .. 7 -> {0, 1}]
  /\ \A n \in 0 .. 7 : CC_mask(n) \in f[FCSR_REG] <=> c[n] = 1

\* No two codes share a bit.
LEMMA MasksDiffer ==
  ASSUME NEW n \in 0 .. 7, NEW k \in 0 .. 7
  PROVE  CC_mask(n) = CC_mask(k) <=> n = k
  BY DEF CC_mask

LEMMA InitialCodes == CodesKept(InitialFcr, [n \in 0 .. 7 |-> 0])
  <1>1. FCSR_REG \in Controlled /\ InitialFcr[FCSR_REG] = {}
    BY DEF InitialFcr, Controlled, FIR_REG, FCCR_REG, FEXR_REG, FCSR_REG
  <1> QED
    BY <1>1 DEF CodesKept, Controlled

LEMMA CodeSet ==
  ASSUME NEW f, NEW c, CodesKept(f, c), NEW cc \in 0 .. 7, NEW v \in {0, 1}
  PROVE  CodesKept(SET_FCC(f, cc, v), [c EXCEPT ![cc] = v])
  <1> DEFINE g == SET_FCC(f, cc, v)
             d == [c EXCEPT ![cc] = v]
  <1>1. DOMAIN f = Controlled /\ FCSR_REG \in DOMAIN f
    BY DEF CodesKept, Controlled, InitialFcr
  <1>2. DOMAIN g = Controlled
        /\ g[FCSR_REG] = IF v = 0 THEN f[FCSR_REG] \ {CC_mask(cc)} ELSE f[FCSR_REG] \cup {CC_mask(cc)}
    BY <1>1 DEF SET_FCC
  <1>3. d \in [0 .. 7 -> {0, 1}] /\ \A n \in 0 .. 7 : d[n] = IF n = cc THEN v ELSE c[n]
    BY DEF CodesKept
  <1> HIDE DEF g, d
  <1>4. ASSUME NEW n \in 0 .. 7 PROVE CC_mask(n) \in g[FCSR_REG] <=> d[n] = 1
    <2>1. CC_mask(n) = CC_mask(cc) <=> n = cc
      BY MasksDiffer
    <2>2. CC_mask(n) \in f[FCSR_REG] <=> c[n] = 1
      BY DEF CodesKept
    <2> QED
      BY <1>2, <1>3, <2>1, <2>2
  <1>5. CodesKept(g, d)
    BY <1>2, <1>3, <1>4 DEF CodesKept
  <1> QED
    BY <1>5 DEF g, d

\* What a comparison asks for, by condition bits and by relations.
LEMMA ConditionsAre ==
  ASSUME NEW c \in Comparisons
  PROVE  /\ "LT" \in CondOf(c) <=> "less" \in Relations(c)
         /\ "EQ" \in CondOf(c) <=> "equal" \in Relations(c)
         /\ "UN" \in CondOf(c) <=> "unordered" \in Relations(c)
         /\ "IN" \in CondOf(c) <=> Signals(c)
         /\ "greater" \notin Relations(c)
  BY DEF Comparisons, CondOf, Relations, Signals

LEMMA CompareKeeps ==
  ASSUME CodesKept(fcr, codes), NEW c \in Comparisons, NEW cc \in ConditionCodes,
         NEW v1 \in Compared \cup {NaN}, NEW v2 \in Compared \cup {NaN}, CompareNumbers(c, cc, v1, v2)
  PROVE  CodesKept(fcr', codes')
  <1> DEFINE hit == Relation(v1, v2) \in Relations(c)
             v == IF hit THEN 1 ELSE 0
  <1>1. cc \in 0 .. 7 /\ v \in {0, 1}
    BY OperandsAssumption
  <1>2. CASE NaN \in {v1, v2} /\ "IN" \in CondOf(c)
    <2>1. Relation(v1, v2) = "unordered" /\ Signals(c)
      BY <1>2, ConditionsAre DEF Relation
    <2>2. Compare(fcr, CondOf(c), cc, v1, v2).fcr = fcr
      BY <1>2 DEF Compare
    <2> QED
      BY <2>1, <2>2 DEF CompareNumbers
  <1>3. CASE NaN \in {v1, v2} /\ "IN" \notin CondOf(c)
    <2>1. Relation(v1, v2) = "unordered" /\ ~Signals(c)
      BY <1>3, ConditionsAre DEF Relation
    <2>2. Compare(fcr, CondOf(c), cc, v1, v2).fcr = SetFpuCc(fcr, CondOf(c), cc, FALSE, FALSE, TRUE)
      BY <1>3 DEF Compare
    <2>3. SetFpuCc(fcr, CondOf(c), cc, FALSE, FALSE, TRUE) = SET_FCC(fcr, cc, v)
      BY <2>1, ConditionsAre DEF SetFpuCc
    <2>4. fcr' = SET_FCC(fcr, cc, v) /\ codes' = [codes EXCEPT ![cc] = v]
      BY <2>1, <2>2, <2>3 DEF CompareNumbers
    <2> QED
      BY <1>1, <2>4, CodeSet
  <1>4. CASE NaN \notin {v1, v2}
    <2>1. v1 \in Int /\ v2 \in Int
      BY <1>4, OperandsAssumption
    <2>2. /\ v1 < v2 => Relation(v1, v2) = "less"
          /\ v1 = v2 => Relation(v1, v2) = "equal"
          /\ v1 > v2 => Relation(v1, v2) = "greater"
      BY <1>4, <2>1 DEF Relation
    <2>3. Compare(fcr, CondOf(c), cc, v1, v2).fcr = SetFpuCc(fcr, CondOf(c), cc, v1 < v2, v1 = v2, FALSE)
      BY <1>4 DEF Compare
    <2>4. SetFpuCc(fcr, CondOf(c), cc, v1 < v2, v1 = v2, FALSE) = SET_FCC(fcr, cc, v)
      <3> DEFINE Right == SetFpuCc(fcr, CondOf(c), cc, v1 < v2, v1 = v2, FALSE) = SET_FCC(fcr, cc, v)
      <3>1. ASSUME v1 < v2 PROVE Right
        BY <2>1, <2>2, <3>1, ConditionsAre DEF SetFpuCc
      <3>2. ASSUME v1 = v2 PROVE Right
        BY <2>1, <2>2, <3>2, ConditionsAre DEF SetFpuCc
      <3>3. ASSUME v1 > v2 PROVE Right
        BY <2>1, <2>2, <3>3, ConditionsAre DEF SetFpuCc
      <3> HIDE DEF Right
      <3>4. Right
        BY <2>1, <3>1, <3>2, <3>3
      <3> QED
        BY <3>4 DEF Right
    <2>5. Relation(v1, v2) # "unordered"
      BY <2>1, <2>2
    <2>6. fcr' = SET_FCC(fcr, cc, v) /\ codes' = [codes EXCEPT ![cc] = v]
      BY <2>3, <2>4, <2>5 DEF CompareNumbers
    <2> QED
      BY <1>1, <2>6, CodeSet
  <1> QED
    BY <1>2, <1>3, <1>4

LEMMA WriteKeeps ==
  ASSUME CodesKept(fcr, codes), NEW r \in Controlled, NEW word, WriteControl(r, word)
  PROVE  CodesKept(fcr', codes')
  <1> DEFINE written == [fcr EXCEPT ![r] = word]
  <1>1. /\ DOMAIN written = Controlled
        /\ \A k \in Controlled : written[k] = IF k = r THEN word ELSE fcr[k]
    BY DEF CodesKept
  <1> HIDE DEF written
  <1>2. FCSR_REG \in Controlled /\ FIR_REG \in Controlled /\ FCCR_REG \in Controlled
        /\ FCSR_REG # FIR_REG /\ FCSR_REG # FCCR_REG /\ FCCR_REG # FIR_REG
    BY DEF Controlled, InitialFcr, FIR_REG, FCCR_REG, FCSR_REG
  <1>3. fcr' = Ctc1(fcr, r, word).fcr
    BY DEF WriteControl
  <1>4. CASE r = FCCR_REG
    <2> DEFINE K == {CC_mask(n) : n \in 0 .. 7}
               Bits == {CC_mask(n) : n \in word \cap 0 .. 7}
               d == [n \in 0 .. 7 |-> IF n \in word THEN 1 ELSE 0]
               g == [written EXCEPT ![FCSR_REG] = (@ \ K) \cup Bits]
    <2>1. fcr' = g
      BY <1>2, <1>3, <1>4 DEF Ctc1, ASSIGN_FCC, written
    <2>2. codes' = d
      BY <1>2, <1>4 DEF WriteControl
    <2>3. DOMAIN g = Controlled /\ g[FCSR_REG] = (fcr[FCSR_REG] \ K) \cup Bits
      BY <1>1, <1>2, <1>4
    <2> HIDE DEF g
    <2>4. ASSUME NEW n \in 0 .. 7 PROVE CC_mask(n) \in g[FCSR_REG] <=> d[n] = 1
      <3>1. CC_mask(n) \in K
        OBVIOUS
      <3>2. CC_mask(n) \in Bits <=> n \in word
        BY MasksDiffer
      <3> QED
        BY <2>3, <3>1, <3>2
    <2> QED
      BY <2>1, <2>2, <2>3, <2>4 DEF CodesKept
  <1>5. CASE r = FCSR_REG
    <2>1. fcr' = written
      BY <1>2, <1>3, <1>5 DEF Ctc1, written
    <2>2. codes' = [n \in 0 .. 7 |->
            IF (IF n = 0 THEN 23 ELSE <<25, 26, 27, 28, 29, 30, 31>>[n]) \in word THEN 1 ELSE 0]
      BY <1>2, <1>5 DEF WriteControl
    <2>3. \A n \in 0 .. 7 : (IF n = 0 THEN 23 ELSE <<25, 26, 27, 28, 29, 30, 31>>[n]) = CC_mask(n)
      BY DEF CC_mask
    <2>4. codes' = [n \in 0 .. 7 |-> IF CC_mask(n) \in word THEN 1 ELSE 0]
      BY <2>2, <2>3
    <2>5. written[FCSR_REG] = word
      BY <1>1, <1>2, <1>5
    <2> QED
      BY <1>1, <2>1, <2>4, <2>5 DEF CodesKept
  <1>6. CASE r # FCCR_REG /\ r # FCSR_REG
    <2>1. codes' = codes
      BY <1>6 DEF WriteControl
    <2>2. fcr' = IF r = FIR_REG THEN [written EXCEPT ![FIR_REG] = FIR_MASK] ELSE written
      BY <1>3, <1>6 DEF Ctc1, written
    <2>3. DOMAIN fcr' = Controlled /\ fcr'[FCSR_REG] = fcr[FCSR_REG]
      BY <1>1, <1>2, <1>6, <2>2
    <2> QED
      BY <2>1, <2>3 DEF CodesKept
  <1> QED
    BY <1>4, <1>5, <1>6

\* What branches and moves see of the codes.
LEMMA CodesAreSeen ==
  ASSUME CodesKept(fcr, codes)
  PROVE  ConditionsExact
  <1>1. ASSUME NEW n \in 0 .. 7, NEW nd \in {0, 1}, NEW tf \in {0, 1}
        PROVE  CcOfRt(CcToRt(n, nd, tf)) = n /\ TfOfRt(CcToRt(n, nd, tf)) = tf
    BY DEF CcOfRt, TfOfRt, CcToRt
  <1>2. ASSUME NEW n \in 0 .. 7 PROVE FCC(fcr, n) = codes[n] /\ codes[n] \in {0, 1}
    BY DEF CodesKept, FCC
  <1>3. ASSUME NEW n \in 0 .. 7, NEW nd \in {0, 1}, NEW tf \in {0, 1}
        PROVE  Bc1Taken(fcr, CcToRt(n, nd, tf)) <=> codes[n] = tf
    BY <1>1, <1>2 DEF Bc1Taken
  <1>4. ASSUME NEW n \in 0 .. 7
        PROVE  /\ MoveOnCcDone("MOVF", fcr, CcToRt(n, 0, 0)) <=> codes[n] = 0
               /\ MoveOnCcDone("MOVT", fcr, CcToRt(n, 0, 0)) <=> codes[n] = 1
    BY <1>1, <1>2 DEF MoveOnCcDone
  <1> QED
    BY <1>2, <1>3, <1>4 DEF ConditionsExact

-----------------------------------------------------------------------------
(* Conversions *)

Conversions == {"CEIL", "FLOOR", "ROUND", "TRUNC", "CVT"}

ConvertedRight ==
  \/ convert = NoConversion
  \/ \E o \in Conversions, q \in Int : convert = [op |-> o, of |-> q, word |-> Converted(o, q)]

\* What a cast cuts off is less than one, towards zero.
LEMMA CastIs ==
  ASSUME NEW q \in Int
  PROVE  /\ Cast(q) \in Int
         /\ q >= 0 => 4 * Cast(q) <= q /\ 4 * Cast(q) > q - 4
         /\ q < 0 => 4 * Cast(q) >= q /\ 4 * Cast(q) < q + 4
  BY DEF Cast

LEMMA FloorCeilAre ==
  ASSUME NEW q \in Int
  PROVE  /\ Floor(q) \in Int /\ 4 * Floor(q) <= q /\ 4 * Floor(q) > q - 4
         /\ Ceil(q) \in Int /\ 4 * Ceil(q) >= q /\ 4 * Ceil(q) < q + 4
  BY DEF Floor, Ceil

LEMMA RoundIs ==
  ASSUME NEW q \in Int, q > -2
  PROVE  4 * Round(q) <= q + 2 /\ 4 * Round(q) >= q - 2
  BY CastIs DEF Round

LEMMA ConversionsAre ==
  ASSUME ConvertedRight
  PROVE  ConversionsExact
  <1>1. CASE convert = NoConversion
    BY <1>1 DEF NoConversion, ConversionsExact
  <1>2. CASE convert # NoConversion
    <2>1. PICK o \in Conversions, q \in Int : convert = [op |-> o, of |-> q, word |-> Converted(o, q)]
      BY <1>2 DEF ConvertedRight
    <2>2. convert.op = o /\ convert.of = q /\ convert.word = Converted(o, q)
      BY <2>1
    <2>3. CASE o = "CEIL"
      BY <2>2, <2>3, FloorCeilAre DEF Converted, ConversionsExact
    <2>4. CASE o = "FLOOR"
      BY <2>2, <2>4, FloorCeilAre DEF Converted, ConversionsExact
    <2>5. CASE o \in {"TRUNC", "CVT"}
      BY <2>2, <2>5, CastIs DEF Converted, ConversionsExact
    <2>6. CASE o = "ROUND"
      BY <2>2, <2>6, RoundIs DEF Converted, ConversionsExact
    <2> QED
      BY <2>3, <2>4, <2>5, <2>6 DEF Conversions
  <1> QED
    BY <1>1, <1>2

-----------------------------------------------------------------------------
(* Theorems *)

UnitInv == CodesKept(fcr, codes) /\ ConvertedRight

LEMMA UnitStep ==
  ASSUME UnitInv, [NextAll]_all
  PROVE  UnitInv'
  <1>1. CASE UNCHANGED all
    BY <1>1 DEF UnitInv, CodesKept, ConvertedRight, all
  <1>2. CASE UNCHANGED <<fcr, codes, convert>>
    BY <1>2 DEF UnitInv, CodesKept, ConvertedRight
  <1>3. ASSUME NEW e \in Table, Store(e) PROVE UnitInv'
    BY <1>2, <1>3 DEF Store
  <1>4. ASSUME NEW c \in Comparisons, NEW cc \in ConditionCodes,
               NEW v1 \in Compared \cup {NaN}, NEW v2 \in Compared \cup {NaN}, CompareNumbers(c, cc, v1, v2)
        PROVE  UnitInv'
    <2>1. CodesKept(fcr', codes')
      BY <1>4, CompareKeeps DEF UnitInv
    <2>2. convert' = convert
      BY <1>4 DEF CompareNumbers
    <2> QED
      BY <2>1, <2>2 DEF UnitInv, ConvertedRight
  <1>5. ASSUME NEW r \in DOMAIN fcr, NEW word \in Controls, WriteControl(r, word) PROVE UnitInv'
    <2>1. CodesKept(fcr', codes')
      <3>1. CodesKept(fcr, codes) /\ r \in Controlled
        BY DEF UnitInv, CodesKept
      <3> QED
        BY <1>5, <3>1, WriteKeeps
    <2>2. convert' = convert
      BY <1>5 DEF WriteControl
    <2> QED
      BY <2>1, <2>2 DEF UnitInv, ConvertedRight
  <1>6. ASSUME NEW o \in Conversions, NEW q \in Numbers, Convert(o, q) PROVE UnitInv'
    <2>1. q \in Int
      BY OperandsAssumption
    <2>2. convert' = [op |-> o, of |-> q, word |-> Converted(o, q)] /\ UNCHANGED <<fcr, codes>>
      BY <1>6 DEF Convert
    <2>3. ConvertedRight'
      BY <2>1, <2>2 DEF ConvertedRight
    <2> QED
      BY <2>2, <2>3 DEF UnitInv, CodesKept
  <1>7. ASSUME NEW st, Expand(st) PROVE UnitInv'
    BY <1>2, <1>7 DEF Expand
  <1> QED
    BY <1>1, <1>2, <1>3, <1>4, <1>5, <1>6, <1>7 DEF NextAll, Conversions

LEMMA UnitInvariant == SpecAll => []UnitInv
  <1>1. InitAll => UnitInv
    BY InitialCodes DEF InitAll, UnitInv, ConvertedRight
  <1>2. UnitInv /\ [NextAll]_all => UnitInv'
    BY UnitStep
  <1> QED
    BY <1>1, <1>2, PTL DEF SpecAll

\* After any sequence of comparisons of any numbers and of writes of any words by ctc1, each
\* of the eight codes is what the architecture says, and so is what bc1f, bc1t, movf and movt
\* make of it: set_fpu_cc, CC_mask, the two views of FCCR and FCSR and the fields CC and TF.
THEOREM ConditionsAreExact == SpecAll => []ConditionsExact
  <1>1. UnitInv => ConditionsExact
    BY CodesAreSeen DEF UnitInv
  <1> QED
    BY <1>1, UnitInvariant, PTL

\* ceil, floor, round, trunc and cvt to a word give the neighbour that their name asks for, for
\* numbers of every size; round is right above -1/2.
THEOREM ConversionsAreExact == SpecAll => []ConversionsExact
  <1>1. UnitInv => ConversionsExact
    BY ConversionsAre DEF UnitInv
  <1> QED
    BY <1>1, UnitInvariant, PTL
================================================================================
