---------------------------- MODULE MachineProofs ----------------------------
(***************************************************************************)
(* What one instruction does to a machine of Cpu, for all instructions of  *)
(* the programs, all registers and all memories: the machine keeps its     *)
(* type, and two machines that differ in the kernel's part only stay alike. *)
(* The two theorems are UserGood and UserSame; the rest leads to them.     *)
(***************************************************************************)
EXTENDS Cpu, SequenceTheorems, WellFoundedInduction, TLAPS

-----------------------------------------------------------------------------
(* Conjunctions of bits *)

\* And is a recursive function on pairs of numbers: it exists, and it is what its equation says.

\* A set of natural numbers has a least element.
LEMMA LeastOf ==
  ASSUME NEW T, T \subseteq Nat, T # {}
  PROVE  \E low \in T : \A k \in T : low <= k
  <1> DEFINE R == {p \in Nat \X Nat : p[1] < p[2]}
  <1>1. OpToRel(<, Nat) = R
    BY Zenon DEF OpToRel
  <1>2. IsWellFoundedOn(R, Nat)
    BY Zenon, <1>1, NatLessThanWellFounded
  <1> HIDE DEF R
  <1>3. \E x \in T : \A y \in T : ~(<<y, x>> \in R)
    BY Zenon, <1>2, WFMin
  <1>4. \A x \in T, y \in T : ~(<<y, x>> \in R) => x <= y
    BY DEF R
  <1> QED
    BY <1>3, <1>4

AndBody(g, x, y) ==
  IF x = 0 \/ y = 0 THEN 0 ELSE 2 * g[x \div 2][y \div 2] + (x % 2) * (y % 2)

IsAnd(g, n) ==
  /\ g \in [0 .. n -> [Nat -> Nat]]
  /\ \A x \in 0 .. n, y \in Nat : g[x][y] = AndBody(g, x, y)

LEMMA Halves ==
  ASSUME NEW x \in Nat
  PROVE  /\ x \div 2 \in Nat /\ x % 2 \in 0 .. 1 /\ x = 2 * (x \div 2) + (x % 2)
         /\ x # 0 => x \div 2 < x
  <1>1. x % 2 \in 0 .. 1
    OBVIOUS
  <1>2. x \div 2 \in Int
    OBVIOUS
  <1>3. x = 2 * (x \div 2) + (x % 2)
    OBVIOUS
  <1> QED
    BY <1>1, <1>2, <1>3

\* The recursion has one solution on each initial part of the numbers, whatever the part.
LEMMA AndsAgree ==
  ASSUME NEW n \in Nat, NEW k \in Nat, NEW f, NEW g, IsAnd(f, n), IsAnd(g, k),
         NEW x \in Nat, x <= n, x <= k, NEW y \in Nat
  PROVE  f[x][y] = g[x][y]
  <1> DEFINE T == {z \in Nat : z <= n /\ z <= k /\ \E w \in Nat : f[z][w] # g[z][w]}
  <1>1. SUFFICES T = {}
    OBVIOUS
  <1>2. SUFFICES ASSUME T # {} PROVE FALSE
    OBVIOUS
  <1>3. PICK z \in T : \A u \in T : z <= u
    BY <1>2, LeastOf
  <1>4. PICK w \in Nat : f[z][w] # g[z][w]
    BY <1>3
  <1>5. f[z][w] = AndBody(f, z, w) /\ g[z][w] = AndBody(g, z, w)
    <2>1. z \in 0 .. n /\ z \in 0 .. k
      BY <1>3
    <2> QED
      BY <2>1 DEF IsAnd
  <1>6. z # 0 /\ w # 0
    BY <1>4, <1>5 DEF AndBody
  <1>7. z \div 2 \in Nat /\ w \div 2 \in Nat /\ z \div 2 < z
    BY <1>6, <1>3, Halves
  <1>8. f[z \div 2][w \div 2] = g[z \div 2][w \div 2]
    BY <1>3, <1>7
  <1> QED
    BY <1>4, <1>5, <1>8 DEF AndBody

\* It has one on every initial part.
LEMMA AndUpTo ==
  ASSUME NEW n \in Nat
  PROVE  \E g : IsAnd(g, n)
  <1> DEFINE T == {k \in Nat : ~ \E g : IsAnd(g, k)}
  <1>1. SUFFICES ASSUME T # {} PROVE FALSE
    OBVIOUS
  <1>2. PICK k \in T : \A u \in T : k <= u
    BY <1>1, LeastOf
  <1>3. CASE k = 0
    <2> DEFINE g == [x \in 0 .. 0 |-> [y \in Nat |-> 0]]
    <2>1. IsAnd(g, 0)
      BY DEF IsAnd, AndBody
    <2> QED
      BY <1>2, <1>3, <2>1
  <1>4. CASE k # 0
    <2>1. k - 1 \in Nat /\ k - 1 \notin T
      BY <1>2, <1>4
    <2>2. PICK f : IsAnd(f, k - 1)
      BY <2>1
    <2> DEFINE g == [x \in 0 .. k |-> [y \in Nat |-> IF x < k THEN f[x][y] ELSE AndBody(f, x, y)]]
    <2>3. \A x \in 0 .. k, y \in Nat : g[x][y] = IF x < k THEN f[x][y] ELSE AndBody(f, x, y)
      OBVIOUS
    <2>4. \A x \in 0 .. k - 1, y \in Nat : f[x][y] \in Nat /\ f[x][y] = AndBody(f, x, y)
      BY <2>2 DEF IsAnd
    <2>5. ASSUME NEW x \in 0 .. k, NEW y \in Nat PROVE AndBody(f, x, y) \in Nat
      <3>1. CASE x = 0 \/ y = 0
        BY <3>1 DEF AndBody
      <3>2. CASE x # 0 /\ y # 0
        <4>1. x \div 2 \in 0 .. k - 1 /\ y \div 2 \in Nat
          BY <3>2, Halves, <1>2
        <4>2. f[x \div 2][y \div 2] \in Nat /\ (x % 2) * (y % 2) \in Nat
          BY <2>4, <4>1, Halves
        <4> QED
          BY <4>2 DEF AndBody
      <3> QED
        BY <3>1, <3>2
    <2>6. g \in [0 .. k -> [Nat -> Nat]]
      <3>1. \A x \in 0 .. k, y \in Nat : (IF x < k THEN f[x][y] ELSE AndBody(f, x, y)) \in Nat
        BY <2>4, <2>5, <1>2
      <3> QED
        BY <3>1
    <2>7. ASSUME NEW x \in 0 .. k, NEW y \in Nat PROVE g[x][y] = AndBody(g, x, y)
      <3>1. CASE x = 0 \/ y = 0
        BY <2>3, <2>4, <3>1, <1>2, <1>4 DEF AndBody
      <3>2. CASE x # 0 /\ y # 0
        <4>1. x \div 2 \in 0 .. k - 1 /\ y \div 2 \in Nat
          BY <3>2, Halves, <1>2
        <4>2. g[x \div 2][y \div 2] = f[x \div 2][y \div 2]
          BY <2>3, <4>1, <1>2
        <4>3. AndBody(g, x, y) = AndBody(f, x, y)
          BY <4>2 DEF AndBody
        <4> HIDE DEF g
        <4> QED
          BY <2>3, <2>4, <4>3, <1>2
      <3> QED
        BY <3>1, <3>2
    <2> HIDE DEF g
    <2>8. IsAnd(g, k)
      BY <2>6, <2>7 DEF IsAnd
    <2> QED
      BY <2>8, <1>2
  <1> QED
    BY <1>3, <1>4

\* And is the function that its equation describes.
LEMMA AndIs ==
  /\ \A x, y \in Nat : And[x][y] \in Nat
  /\ \A x, y \in Nat : And[x][y] = AndBody(And, x, y)
  <1> DEFINE at(x) == CHOOSE g : IsAnd(g, x)
             h == [x \in Nat |-> [y \in Nat |-> at(x)[x][y]]]
  <1>1. ASSUME NEW x \in Nat PROVE IsAnd(at(x), x)
    BY AndUpTo
  <1>2. \A x, y \in Nat : h[x][y] = at(x)[x][y]
    OBVIOUS
  <1>3. ASSUME NEW x \in Nat, NEW y \in Nat PROVE h[x][y] \in Nat
    <2>1. at(x)[x][y] \in Nat
      <3>1. x \in 0 .. x /\ IsAnd(at(x), x)
        BY <1>1
      <3> HIDE DEF at
      <3> QED
        BY <3>1 DEF IsAnd
    <2> QED
      BY <1>2, <2>1
  <1>4. ASSUME NEW x \in Nat, NEW y \in Nat PROVE h[x][y] = AndBody(h, x, y)
    <2>1. h[x][y] = AndBody(at(x), x, y)
      <3>1. x \in 0 .. x /\ IsAnd(at(x), x) /\ h[x][y] = at(x)[x][y]
        BY <1>1, <1>2
      <3> HIDE DEF at, h
      <3> QED
        BY <3>1 DEF IsAnd
    <2>2. CASE x = 0 \/ y = 0
      BY <2>1, <2>2 DEF AndBody
    <2>3. CASE x # 0 /\ y # 0
      <3>1. x \div 2 \in Nat /\ y \div 2 \in Nat /\ x \div 2 < x
        BY <2>3, Halves
      <3> HIDE DEF at, h
      <3>2. at(x)[x \div 2][y \div 2] = at(x \div 2)[x \div 2][y \div 2]
        BY <1>1, <3>1, AndsAgree
      <3>3. at(x)[x \div 2][y \div 2] = h[x \div 2][y \div 2]
        BY <1>2, <3>1, <3>2
      <3> QED
        BY <2>1, <3>3 DEF AndBody
    <2> QED
      BY <2>2, <2>3
  <1>5. h = [x \in Nat |-> [y \in Nat |->
               IF x = 0 \/ y = 0 THEN 0 ELSE 2 * h[x \div 2][y \div 2] + (x % 2) * (y % 2)]]
    <2> DEFINE body(x, y) ==
                 IF x = 0 \/ y = 0 THEN 0 ELSE 2 * h[x \div 2][y \div 2] + (x % 2) * (y % 2)
    <2>1. \A x, y \in Nat : at(x)[x][y] = body(x, y)
      BY <1>2, <1>4 DEF AndBody
    <2> HIDE DEF at, body
    <2>2. [x \in Nat |-> [y \in Nat |-> at(x)[x][y]]] = [x \in Nat |-> [y \in Nat |-> body(x, y)]]
      BY <2>1
    <2>3. h = [x \in Nat |-> [y \in Nat |-> body(x, y)]]
      BY <2>2
    <2> QED
      BY <2>3 DEF body
  <1> HIDE DEF h
  <1>6. And = [x \in Nat |-> [y \in Nat |->
               IF x = 0 \/ y = 0 THEN 0 ELSE 2 * And[x \div 2][y \div 2] + (x % 2) * (y % 2)]]
    BY <1>5 DEF And
  <1>7. \A x, y \in Nat : And[x][y] = AndBody(And, x, y)
    <2> DEFINE body(x, y) ==
                 IF x = 0 \/ y = 0 THEN 0 ELSE 2 * And[x \div 2][y \div 2] + (x % 2) * (y % 2)
    <2>1. And = [x \in Nat |-> [y \in Nat |-> body(x, y)]]
      BY <1>6
    <2> HIDE DEF body
    <2>2. \A x, y \in Nat : And[x][y] = body(x, y)
      BY <2>1
    <2> QED
      BY <2>2 DEF body, AndBody
  <1> DEFINE T == {x \in Nat : \E y \in Nat : And[x][y] \notin Nat}
  <1>8. ASSUME T # {} PROVE FALSE
    <2>1. PICK x \in T : \A u \in T : x <= u
      BY <1>8, LeastOf
    <2>2. PICK y \in Nat : And[x][y] \notin Nat
      BY <2>1
    <2>3. And[x][y] = AndBody(And, x, y)
      BY <1>7
    <2>4. CASE x = 0 \/ y = 0
      BY <2>2, <2>3, <2>4 DEF AndBody
    <2>5. CASE x # 0 /\ y # 0
      <3>1. x \div 2 \in Nat /\ y \div 2 \in Nat /\ x \div 2 < x
        BY <2>5, Halves
      <3>2. And[x \div 2][y \div 2] \in Nat
        BY <2>1, <3>1
      <3>3. (x % 2) * (y % 2) \in Nat
        BY Halves
      <3> QED
        BY <2>2, <2>3, <2>5, <3>2, <3>3 DEF AndBody
    <2> QED
      BY <2>4, <2>5
  <1> QED
    BY <1>7, <1>8

-----------------------------------------------------------------------------
(* Widths *)

\* What the assumptions say of the numbers, in a form that the provers use at once.
W == 2^WordBits
H == 2^HalfBits

\* The sizes of bytes, halves and words.
LEMMA Widths ==
  /\ ByteBits \in Nat /\ ByteBits >= 6 /\ WordBits \in Nat /\ WordBits >= 24 /\ HalfBits \in Nat
  /\ HalfBits = 2 * ByteBits /\ WordBits = 2 * HalfBits /\ WordBits < W
  BY CpuAssumption, ByteBitsAssumption DEF HalfBits, WordBits, W

LEMMA PowerOfTwo ==
  ASSUME NEW n \in 0 .. WordBits
  PROVE  2^n \in Nat \ {0}
  <1>1. CASE n < WordBits
    <2>1. n \in 0 .. WordBits - 1
      BY <1>1, Widths
    <2> QED
      BY <2>1, CpuAssumption
  <1>2. CASE n = WordBits
    <2> DEFINE k == WordBits - 1
    <2>1. k \in 0 .. WordBits - 1 /\ k + 1 = n
      BY <1>2, Widths
    <2> HIDE DEF k
    <2>2. 2^k \in Nat \ {0} /\ 2^(k + 1) = 2 * 2^k
      BY <2>1, CpuAssumption
    <2> QED
      BY <2>1, <2>2
  <1> QED
    BY <1>1, <1>2, Widths

LEMMA Split ==
  ASSUME NEW n \in 0 .. WordBits, NEW k \in 0 .. WordBits, k <= n
  PROVE  /\ 2^n = 2^k * 2^(n - k) /\ 2^k \in Nat \ {0} /\ 2^(n - k) \in Nat \ {0}
  <1>1. n - k \in 0 .. WordBits
    BY Widths
  <1> QED
    BY <1>1, PowerOfTwo, CpuAssumption

LEMMA Doubled ==
  ASSUME NEW n \in 0 .. WordBits - 1
  PROVE  2^(n + 1) = 2 * 2^n /\ 2^n \in Nat \ {0}
  BY CpuAssumption

\* The small powers, which the masks of exceptions.s and of reg.h are.
LEMMA Small ==
  /\ 2^0 = 1 /\ 2^1 = 2 /\ 2^2 = 4 /\ 2^3 = 8 /\ 2^4 = 16 /\ 2^5 = 32 /\ 2^6 = 64
  <1>1. 2^0 = 1
    BY CpuAssumption
  <1>2. 2^1 = 2
    <2>1. 0 \in 0 .. WordBits - 1 /\ 0 + 1 = 1
      BY Widths
    <2> QED
      BY <1>1, <2>1, Doubled
  <1>3. 2^2 = 4
    <2>1. 1 \in 0 .. WordBits - 1 /\ 1 + 1 = 2
      BY Widths
    <2> QED
      BY <1>2, <2>1, Doubled
  <1>4. 2^3 = 8
    <2>1. 2 \in 0 .. WordBits - 1 /\ 2 + 1 = 3
      BY Widths
    <2> QED
      BY <1>3, <2>1, Doubled
  <1>5. 2^4 = 16
    <2>1. 3 \in 0 .. WordBits - 1 /\ 3 + 1 = 4
      BY Widths
    <2> QED
      BY <1>4, <2>1, Doubled
  <1>6. 2^5 = 32
    <2>1. 4 \in 0 .. WordBits - 1 /\ 4 + 1 = 5
      BY Widths
    <2> QED
      BY <1>5, <2>1, Doubled
  <1>7. 2^6 = 64
    <2>1. 5 \in 0 .. WordBits - 1 /\ 5 + 1 = 6
      BY Widths
    <2> QED
      BY <1>6, <2>1, Doubled
  <1> QED
    BY <1>1, <1>2, <1>3, <1>4, <1>5, <1>6, <1>7

\* The top of the word, and its halves.
LEMMA Tops ==
  /\ 2^(WordBits - 8) \in Nat /\ IM < 2^(WordBits - 8)
  /\ 2^(WordBits - 4) = 16 * 2^(WordBits - 8) /\ 2^(WordBits - 4) % 4 = 0
  /\ W = 16 * 2^(WordBits - 4) /\ W \in Nat /\ W % 4 = 0 /\ W >= 128
  /\ 2^(WordBits - 6) \in Nat /\ 2^(WordBits - 4) = 4 * 2^(WordBits - 6)
  /\ 2^(WordBits - 1) \in Nat /\ W = 2 * 2^(WordBits - 1)
  /\ H \in Nat /\ H >= 128 /\ W = H * H /\ H = 2 * 2^(HalfBits - 1) /\ 2^(HalfBits - 1) \in Nat
  <1>1. 2^(WordBits - 8) \in Nat /\ IM < 2^(WordBits - 8)
    <2>1. WordBits - 8 \in 0 .. WordBits
      BY Widths
    <2> QED
      BY <2>1, PowerOfTwo, CpuAssumption
  <1>2. 2^(WordBits - 4) = 16 * 2^(WordBits - 8)
    <2> DEFINE n == WordBits - 4
    <2>1. 4 \in 0 .. WordBits /\ n \in 0 .. WordBits /\ 4 <= n /\ n - 4 = WordBits - 8
      BY Widths
    <2> HIDE DEF n
    <2>2. 2^n = 2^4 * 2^(n - 4)
      BY <2>1, Split
    <2> QED
      BY <2>1, <2>2, Small DEF n
  <1>3. W = 16 * 2^(WordBits - 4) /\ 2^(WordBits - 4) \in Nat
    <2>1. 4 \in 0 .. WordBits /\ WordBits \in 0 .. WordBits /\ 4 <= WordBits
      BY Widths
    <2>2. 2^WordBits = 2^4 * 2^(WordBits - 4) /\ 2^(WordBits - 4) \in Nat
      BY <2>1, Split
    <2> QED
      BY <2>2, Small DEF W
  <1>4. 2^(WordBits - 4) = 4 * 2^(WordBits - 6) /\ 2^(WordBits - 6) \in Nat
    <2> DEFINE n == WordBits - 4
    <2>1. 2 \in 0 .. WordBits /\ n \in 0 .. WordBits /\ 2 <= n /\ n - 2 = WordBits - 6
      BY Widths
    <2> HIDE DEF n
    <2>2. 2^n = 2^2 * 2^(n - 2) /\ 2^(n - 2) \in Nat
      BY <2>1, Split
    <2> QED
      BY <2>1, <2>2, Small DEF n
  <1>5. W = 2 * 2^(WordBits - 1) /\ 2^(WordBits - 1) \in Nat
    <2> DEFINE n == WordBits - 1
    <2>1. n \in 0 .. WordBits - 1 /\ n + 1 = WordBits
      BY Widths
    <2> HIDE DEF n
    <2>2. 2^(n + 1) = 2 * 2^n /\ 2^n \in Nat
      BY <2>1, Doubled
    <2> QED
      BY <2>1, <2>2 DEF n, W
  <1>6. W = H * H /\ H \in Nat
    <2>1. HalfBits \in 0 .. WordBits /\ WordBits \in 0 .. WordBits /\ WordBits - HalfBits = HalfBits
          /\ HalfBits <= WordBits
      BY Widths
    <2>2. 2^WordBits = 2^HalfBits * 2^(WordBits - HalfBits) /\ 2^HalfBits \in Nat
      BY <2>1, Split
    <2> QED
      BY <2>1, <2>2 DEF W, H
  <1>7. H = 2 * 2^(HalfBits - 1) /\ 2^(HalfBits - 1) \in Nat /\ 2^(HalfBits - 1) >= 64
    <2> DEFINE n == HalfBits - 1
    <2>1. n \in 0 .. WordBits - 1 /\ n + 1 = HalfBits /\ n \in 0 .. WordBits /\ 6 \in 0 .. WordBits
          /\ 6 <= n
      BY Widths
    <2> HIDE DEF n
    <2>2. 2^(n + 1) = 2 * 2^n /\ 2^n \in Nat
      BY <2>1, Doubled
    <2>3. 2^n = 2^6 * 2^(n - 6) /\ 2^(n - 6) \in Nat \ {0}
      BY <2>1, Split
    <2>4. 2^n >= 64
      BY <2>3, Small
    <2> QED
      BY <2>1, <2>2, <2>4 DEF n, H
  <1>8. W >= 128
    <2>1. H * H >= 128 * 1
      BY <1>6, <1>7
    <2> QED
      BY <1>6, <2>1
  <1> QED
    BY <1>1, <1>2, <1>3, <1>4, <1>5, <1>6, <1>7, <1>8

-----------------------------------------------------------------------------
(* Bits *)

\* The lowest bit but one.
Second(x) == (x \div 2) % 2

LEMMA AndStep ==
  ASSUME NEW x \in Nat, NEW y \in Nat
  PROVE  /\ And[x][y] \in Nat
         /\ And[x][y] = 2 * And[x \div 2][y \div 2] + (x % 2) * (y % 2)
         /\ And[x \div 2][y \div 2] \in Nat /\ (x % 2) * (y % 2) \in 0 .. 1
         /\ x = 0 \/ y = 0 => And[x][y] = 0
  <1>1. x \div 2 \in Nat /\ y \div 2 \in Nat /\ x % 2 \in 0 .. 1 /\ y % 2 \in 0 .. 1
    BY Halves
  <1>2. And[x][y] \in Nat /\ And[x \div 2][y \div 2] \in Nat
    BY <1>1, AndIs
  <1>3. And[x][y] = AndBody(And, x, y) /\ And[x \div 2][y \div 2] = AndBody(And, x \div 2, y \div 2)
    BY <1>1, AndIs
  <1>4. CASE x = 0 \/ y = 0
    <2>1. (x \div 2 = 0 \/ y \div 2 = 0) /\ (x % 2) * (y % 2) = 0
      BY <1>4
    <2> QED
      BY <1>2, <1>3, <1>4, <2>1 DEF AndBody
  <1>5. CASE x # 0 /\ y # 0
    <2>1. (x % 2) * (y % 2) \in 0 .. 1
      BY <1>1
    <2> QED
      BY <1>2, <1>3, <1>5, <2>1 DEF AndBody
  <1> QED
    BY <1>4, <1>5

\* A conjunction is at most each of its arguments.
LEMMA AndBelow ==
  ASSUME NEW a \in Nat
  PROVE  \A y \in Nat : And[a][y] <= a /\ And[a][y] <= y
  <1> DEFINE Bad == {x \in Nat : \E y \in Nat : ~(And[x][y] <= x /\ And[x][y] <= y)}
  <1>1. SUFFICES ASSUME Bad # {} PROVE FALSE
    OBVIOUS
  <1>2. PICK x \in Bad : \A u \in Bad : x <= u
    BY <1>1, LeastOf
  <1>3. PICK y \in Nat : ~(And[x][y] <= x /\ And[x][y] <= y)
    BY <1>2
  <1>4. x # 0 /\ y # 0
    <2>1. x \in Nat
      BY <1>2
    <2>2. x = 0 \/ y = 0 => And[x][y] = 0
      BY <2>1, AndStep
    <2> QED
      BY <1>3, <2>1, <2>2
  <1> DEFINE g == x \div 2
             h == y \div 2
             p == (x % 2) * (y % 2)
  <1>5. /\ g \in Nat /\ h \in Nat /\ g < x /\ x = 2 * g + (x % 2) /\ y = 2 * h + (y % 2)
        /\ x % 2 \in 0 .. 1 /\ y % 2 \in 0 .. 1
    BY <1>2, <1>4, Halves
  <1>6. p <= x % 2 /\ p <= y % 2 /\ p \in 0 .. 1
    BY <1>5
  <1>7. And[x][y] = 2 * And[g][h] + p /\ And[g][h] \in Nat
    BY <1>2, AndStep
  <1>8. And[g][h] <= g /\ And[g][h] <= h
    BY <1>2, <1>5
  <1> HIDE DEF g, h, p
  <1> QED
    BY <1>2, <1>3, <1>5, <1>6, <1>7, <1>8

\* The two lowest bits of a conjunction.
LEMMA AndBits ==
  ASSUME NEW x \in Nat, NEW y \in Nat
  PROVE  /\ And[x][y] % 2 = (x % 2) * (y % 2)
         /\ Second(And[x][y]) = Second(x) * Second(y)
         /\ Second(x) \in 0 .. 1 /\ Second(And[x][y]) \in 0 .. 1
  <1> DEFINE g == x \div 2
             h == y \div 2
             r == And[x][y]
             s == And[g][h]
             t == And[g \div 2][h \div 2]
  <1>1. g \in Nat /\ h \in Nat /\ g \div 2 \in Nat /\ h \div 2 \in Nat
    BY Halves
  <1>2. r = 2 * s + (x % 2) * (y % 2) /\ (x % 2) * (y % 2) \in 0 .. 1 /\ r \in Nat /\ s \in Nat
    BY AndStep
  <1>3. s = 2 * t + (g % 2) * (h % 2) /\ (g % 2) * (h % 2) \in 0 .. 1 /\ t \in Nat
    BY <1>1, AndStep
  <1> DEFINE p == (x % 2) * (y % 2)
             q == (g % 2) * (h % 2)
  <1>4. r % 2 = p /\ r \div 2 = s
    <2> HIDE DEF p, r, s
    <2>1. r = 2 * s + p /\ p \in 0 .. 1 /\ s \in Nat
      BY <1>2 DEF p
    <2> QED
      BY <2>1
  <1>5. s % 2 = q
    <2> HIDE DEF q, s, t
    <2>1. s = 2 * t + q /\ q \in 0 .. 1 /\ t \in Nat
      BY <1>3 DEF q
    <2> QED
      BY <2>1
  <1>6. Second(x) = g % 2 /\ Second(y) = h % 2 /\ Second(r) = s % 2
    BY <1>4 DEF Second
  <1>7. Second(x) \in 0 .. 1
    BY <1>1, <1>6
  <1> QED
    BY <1>3, <1>4, <1>5, <1>6, <1>7

\* A bit that is taken out of a number: 2 is EXL.
LEMMA SecondIs ==
  ASSUME NEW x \in Nat
  PROVE  BitAnd(x, 2) = 2 * Second(x) /\ Second(x) \in 0 .. 1
  <1> DEFINE g == x \div 2
  <1>1. g \in Nat /\ g \div 2 \in Nat /\ 2 \div 2 = 1 /\ 2 % 2 = 0 /\ 1 \div 2 = 0 /\ 1 % 2 = 1
    BY Halves
  <1>2. And[x][2] = 2 * And[g][1] + (x % 2) * 0
    BY <1>1, AndStep
  <1>3. And[g][1] = 2 * And[g \div 2][0] + (g % 2) * 1 /\ g % 2 \in 0 .. 1
    <2> HIDE DEF g
    <2>1. g % 2 \in 0 .. 1
      BY <1>1
    <2>2. And[g][1] = 2 * And[g \div 2][1 \div 2] + (g % 2) * (1 % 2)
      BY <1>1, AndStep
    <2> QED
      BY <1>1, <2>1, <2>2
  <1>4. And[g \div 2][0] = 0
    BY <1>1, AndStep
  <1>5. x % 2 \in 0 .. 1
    BY Halves
  <1>6. And[g][1] = g % 2
    BY <1>3, <1>4
  <1>7. (x % 2) * 0 = 0
    BY <1>5
  <1> QED
    BY <1>2, <1>3, <1>6, <1>7 DEF BitAnd, Second

\* Disjunctions and exclusive disjunctions, bit by bit.
LEMMA OrStep ==
  ASSUME NEW x \in Nat, NEW y \in Nat
  PROVE  /\ BitOr(x, y) = 2 * BitOr(x \div 2, y \div 2) + ((x % 2) + (y % 2) - (x % 2) * (y % 2))
         /\ BitXor(x, y) = 2 * BitXor(x \div 2, y \div 2) + ((x % 2) + (y % 2) - 2 * ((x % 2) * (y % 2)))
         /\ (x % 2) + (y % 2) - (x % 2) * (y % 2) \in 0 .. 1
         /\ (x % 2) + (y % 2) - 2 * ((x % 2) * (y % 2)) \in 0 .. 1
  <1> DEFINE g == x \div 2
             h == y \div 2
             a == x % 2
             b == y % 2
             p == a * b
  <1>1. g \in Nat /\ h \in Nat /\ a \in 0 .. 1 /\ b \in 0 .. 1 /\ x = 2 * g + a /\ y = 2 * h + b
    BY Halves
  <1>2. p \in 0 .. 1 /\ a + b - p \in 0 .. 1 /\ a + b - 2 * p \in 0 .. 1
    BY <1>1
  <1>3. And[x][y] = 2 * And[g][h] + p /\ And[g][h] \in Nat /\ And[x][y] \in Nat
    BY AndStep
  <1>4. /\ BitOr(x, y) = x + y - And[x][y] /\ BitOr(g, h) = g + h - And[g][h]
        /\ BitXor(x, y) = x + y - 2 * And[x][y] /\ BitXor(g, h) = g + h - 2 * And[g][h]
    BY DEF BitOr, BitXor
  <1> HIDE DEF g, h, a, b, p
  <1>5. /\ BitOr(x, y) = 2 * BitOr(g, h) + (a + b - p)
        /\ BitXor(x, y) = 2 * BitXor(g, h) + (a + b - 2 * p)
    <2> DEFINE r == And[x][y]
               s == And[g][h]
    <2>1. r = 2 * s + p /\ s \in Nat /\ r \in Nat
      BY <1>3
    <2>2. /\ BitOr(x, y) = x + y - r /\ BitOr(g, h) = g + h - s
          /\ BitXor(x, y) = x + y - 2 * r /\ BitXor(g, h) = g + h - 2 * s
      BY <1>4
    <2> HIDE DEF r, s
    <2> QED
      BY <1>1, <1>2, <2>1, <2>2
  <1> QED
    BY <1>2, <1>5 DEF g, h, a, b, p

LEMMA OrType ==
  ASSUME NEW x \in Nat, NEW y \in Nat
  PROVE  BitAnd(x, y) \in Nat /\ BitOr(x, y) \in Nat /\ BitXor(x, y) \in Nat
  <1>1. And[x][y] \in Nat /\ And[x][y] <= x /\ And[x][y] <= y
    BY AndBelow, AndIs
  <1> QED
    BY <1>1 DEF BitAnd, BitOr, BitXor

\* The bits of n-bit numbers fit in n bits.
LEMMA OrBelow ==
  ASSUME NEW n \in 0 .. WordBits
  PROVE  \A x, y \in 0 .. 2^n - 1 : BitOr(x, y) \in 0 .. 2^n - 1 /\ BitXor(x, y) \in 0 .. 2^n - 1
  <1> DEFINE Ok(k) ==
               \A x, y \in 0 .. 2^k - 1 : BitOr(x, y) \in 0 .. 2^k - 1 /\ BitXor(x, y) \in 0 .. 2^k - 1
             Bad == {k \in Nat : k <= WordBits /\ ~Ok(k)}
  <1>1. SUFFICES ASSUME Bad # {} PROVE FALSE
    <2>1. n \in Nat /\ n <= WordBits
      BY Widths
    <2>2. Bad = {} => Ok(n)
      <3> HIDE DEF Ok
      <3> QED
        BY <2>1
    <2> QED
      BY <2>2
  <1>2. PICK k \in Bad : \A u \in Bad : k <= u
    BY <1>1, LeastOf
  <1>3. CASE k = 0
    <2>1. 2^k = 1
      BY <1>3, Small
    <2>2. ASSUME NEW x \in 0 .. 2^k - 1, NEW y \in 0 .. 2^k - 1
          PROVE  BitOr(x, y) \in 0 .. 2^k - 1 /\ BitXor(x, y) \in 0 .. 2^k - 1
      <3>1. x = 0 /\ y = 0
        BY <2>1, <2>2
      <3>2. And[x][y] = 0
        BY <3>1, AndStep
      <3> QED
        BY <2>1, <3>1, <3>2 DEF BitOr, BitXor
    <2> QED
      BY <1>2, <2>2
  <1>4. CASE k # 0
    <2> DEFINE j == k - 1
               d == 2^j
    <2>1. j \in Nat /\ j \in 0 .. WordBits - 1 /\ j + 1 = k
      BY <1>2, <1>4, Widths
    <2>2. Ok(j)
      <3>1. j \notin Bad
        BY <1>2, <2>1
      <3> HIDE DEF Ok
      <3> QED
        BY <2>1, <3>1, Widths
    <2>3. 2^k = 2 * d /\ d \in Nat
      <3> HIDE DEF j
      <3>1. 2^(j + 1) = 2 * 2^j /\ 2^j \in Nat
        BY <2>1, Doubled
      <3> QED
        BY <2>1, <3>1
    <2>4. ASSUME NEW x \in 0 .. 2^k - 1, NEW y \in 0 .. 2^k - 1
          PROVE  BitOr(x, y) \in 0 .. 2^k - 1 /\ BitXor(x, y) \in 0 .. 2^k - 1
      <3> DEFINE g == x \div 2
                 h == y \div 2
                 p == (x % 2) + (y % 2) - (x % 2) * (y % 2)
                 q == (x % 2) + (y % 2) - 2 * ((x % 2) * (y % 2))
      <3>1. x \in Nat /\ y \in Nat
        BY <2>3
      <3>2. g \in 0 .. d - 1 /\ h \in 0 .. d - 1
        <4> HIDE DEF d
        <4>1. /\ g \in Nat /\ x = 2 * g + (x % 2) /\ x % 2 \in 0 .. 1
              /\ h \in Nat /\ y = 2 * h + (y % 2) /\ y % 2 \in 0 .. 1
          BY <3>1, Halves
        <4>2. x <= 2 * d - 1 /\ y <= 2 * d - 1
          BY <2>3, <3>1
        <4> HIDE DEF g, h
        <4> QED
          BY <2>3, <3>1, <4>1, <4>2
      <3>3. BitOr(g, h) \in 0 .. d - 1 /\ BitXor(g, h) \in 0 .. d - 1
        BY <2>2, <3>2
      <3>4. /\ BitOr(x, y) = 2 * BitOr(g, h) + p /\ p \in 0 .. 1
            /\ BitXor(x, y) = 2 * BitXor(g, h) + q /\ q \in 0 .. 1
        BY <3>1, OrStep
      <3> HIDE DEF g, h, p, q, d
      <3> QED
        BY <2>3, <3>3, <3>4
    <2> HIDE DEF j, d
    <2> QED
      BY <1>2, <2>4
  <1> QED
    BY <1>3, <1>4

-----------------------------------------------------------------------------
(* Words *)

\* What the conversions and the operations on bits return.

LEMMA WordsAre == Words = 0 .. W - 1 /\ Words \subseteq Nat /\ 0 \in Words /\ 1 \in Words /\ Half = 0 .. H - 1
  <1>1. W \in Nat /\ W >= 16 /\ H \in Nat
    BY Tops
  <1> QED
    BY <1>1 DEF Words, Half, W, H

LEMMA WordFits ==
  ASSUME NEW x \in Int
  PROVE  Word(x) \in Words
  <1>1. W \in Nat \ {0}
    BY Tops
  <1>2. x % W \in 0 .. W - 1
    BY <1>1
  <1> QED
    BY <1>2, WordsAre DEF Word, W

LEMMA WordSame ==
  ASSUME NEW x \in Words
  PROVE  Word(x) = x
  <1>1. W \in Nat \ {0} /\ x \in 0 .. W - 1
    <2>1. W \in Nat /\ W >= 128
      BY Tops
    <2>2. x \in 0 .. W - 1
      BY WordsAre
    <2> QED
      BY <2>1, <2>2
  <1>2. x % W = x
    BY <1>1
  <1> QED
    BY <1>2 DEF Word, W

\* A sign extension is a number.
LEMMA SignedType ==
  ASSUME NEW x \in Int, NEW n \in 1 .. WordBits
  PROVE  SignedOf(x, n) \in Int
  <1>1. 2^n \in Nat /\ n \in 0 .. WordBits
    BY PowerOfTwo, Widths
  <1> QED
    BY <1>1 DEF SignedOf

LEMMA SignedInt ==
  ASSUME NEW x \in Int
  PROVE  /\ Signed(x) \in Int /\ ShortValue(x) \in Int /\ Imm(x) \in Words
         /\ IDisp(x) \in Int
  <1>1. WordBits \in 1 .. WordBits /\ HalfBits \in 1 .. WordBits
    BY Widths
  <1>2. H \in Nat \ {0}
    BY Tops
  <1>3. x % H \in Int
    BY <1>2
  <1>4. Signed(x) \in Int /\ ShortValue(x) \in Int
    BY <1>1, <1>3, SignedType DEF Signed, ShortValue, H
  <1>5. IDisp(x) \in Int
    <2> DEFINE disp == 4 * SignedOf(x, HalfBits)
    <2>1. disp \in Int
      BY <1>1, SignedType
    <2> HIDE DEF disp
    <2>2. disp % H \in Int
      BY <1>2, <2>1
    <2>3. SignedOf(Low(disp), HalfBits) \in Int
      BY <1>1, <2>2, SignedType DEF Low, H
    <2> QED
      BY Zenon, <2>1, <2>3 DEF IDisp, disp
  <1> QED
    BY <1>4, <1>5, WordFits DEF Imm

LEMMA Halved ==
  ASSUME NEW v \in Nat
  PROVE  /\ Low(v) \in 0 .. H - 1 /\ High(v) \in Nat
         /\ v \in Words => High(v) \in 0 .. H - 1
         /\ v = High(v) * H + Low(v)
  <1> DEFINE q == v \div H
             r == v % H
  <1>1. H \in Nat \ {0} /\ W = H * H
    BY Tops
  <1>2. q \in Nat /\ r \in 0 .. H - 1 /\ v = H * q + r
    <2>1. v % H \in 0 .. H - 1
      BY <1>1
    <2>2. v \div H \in Nat
      BY <1>1
    <2>3. v = H * (v \div H) + (v % H)
      BY <1>1
    <2> QED
      BY <2>1, <2>2, <2>3
  <1>3. ASSUME v \in Words PROVE q <= H - 1
    <2>1. v < H * H
      BY <1>1, <1>3, WordsAre
    <2> HIDE DEF q, r
    <2>2. SUFFICES ASSUME q >= H PROVE FALSE
      BY <1>1, <1>2
    <2>3. H * q >= H * H
      BY <1>1, <1>2, <2>2
    <2> QED
      BY <1>1, <1>2, <2>1, <2>3
  <1>4. v = q * H + r
    <2> HIDE DEF q, r
    <2> QED
      BY <1>1, <1>2
  <1>5. Low(v) = r /\ High(v) = q
    BY DEF Low, High, H
  <1> QED
    BY <1>2, <1>3, <1>4, <1>5

LEMMA OfHalves ==
  ASSUME NEW q \in 0 .. H - 1, NEW r \in 0 .. H - 1
  PROVE  q * H + r \in Words
  <1>1. H \in Nat /\ W = H * H
    BY Tops
  <1>2. q * H <= (H - 1) * H /\ q * H >= 0 /\ q * H \in Int
    BY <1>1
  <1>3. (H - 1) * H = H * H - H
    BY <1>1
  <1> QED
    BY <1>1, <1>2, <1>3, WordsAre

\* The operations on bits lead from words to words.
LEMMA BitWords ==
  ASSUME NEW x \in Words, NEW y \in Words
  PROVE  /\ BitAnd(x, y) \in Words /\ BitOr(x, y) \in Words /\ BitXor(x, y) \in Words
         /\ BitNot(x) \in Words
  <1>1. /\ x \in Nat /\ y \in Nat /\ x \in 0 .. 2^WordBits - 1 /\ y \in 0 .. 2^WordBits - 1
        /\ W \in Nat
    BY WordsAre, Tops DEF W
  <1>2. BitAnd(x, y) \in Nat /\ BitAnd(x, y) <= x
    BY <1>1, AndIs, AndBelow DEF BitAnd
  <1>3. BitOr(x, y) \in Words /\ BitXor(x, y) \in Words
    <2>1. WordBits \in 0 .. WordBits
      BY Widths
    <2>2. \A u, v \in 0 .. 2^WordBits - 1 :
            BitOr(u, v) \in 0 .. 2^WordBits - 1 /\ BitXor(u, v) \in 0 .. 2^WordBits - 1
      BY <2>1, OrBelow
    <2> QED
      BY <1>1, <2>2, WordsAre DEF W
  <1>4. BitNot(x) \in Words
    BY <1>1, WordsAre DEF BitNot, W
  <1> QED
    BY <1>1, <1>2, <1>3, <1>4, WordsAre

LEMMA GreatestOf ==
  ASSUME NEW n \in Nat, NEW S, S \subseteq -1 .. n, S # {}
  PROVE  Max(S) \in -1 .. n
  <1> DEFINE T == {k \in Nat : n - k \in S}
  <1>1. T # {}
    <2>1. PICK x \in S : TRUE
      OBVIOUS
    <2>2. n - x \in T
      <3>1. n - (n - x) = x /\ n - x \in Nat
        BY <2>1
      <3> QED
        BY <3>1
    <2> QED
      BY <2>2
  <1>2. PICK k \in T : \A u \in T : k <= u
    <2> HIDE DEF T
    <2>1. T \subseteq Nat
      BY DEF T
    <2> QED
      BY <1>1, <2>1, LeastOf
  <1>3. \E x \in S : \A y \in S : x >= y
    <2>1. n - k \in S
      BY <1>2
    <2>2. ASSUME NEW y \in S PROVE n - k >= y
      <3>1. n - (n - y) = y /\ n - y \in Nat
        OBVIOUS
      <3>2. n - y \in T
        BY <3>1
      <3>3. k \in Nat /\ k <= n - y /\ y \in Int
        <4>1. k \in Nat /\ y \in -1 .. n
          BY <1>2
        <4> HIDE DEF T
        <4> QED
          BY <1>2, <3>2, <4>1
      <3> QED
        BY <3>3
    <2> QED
      BY <2>1, <2>2
  <1>4. Max(S) = CHOOSE x \in S : \A y \in S : x >= y
    BY DEF Max
  <1>5. Max(S) \in S
    BY <1>3, <1>4
  <1> QED
    BY <1>5

LEMMA LeadingFits ==
  ASSUME NEW x, NEW b
  PROVE  Leading(x, b) \in Words
  <1> DEFINE S == {-1} \cup {i \in 0 .. WordBits - 1 : BitAt(x, i) # b}
             n == WordBits - 1
  <1>1. n \in Nat /\ S \subseteq -1 .. n /\ S # {}
    BY Widths
  <1>2. Max(S) \in -1 .. n
    <2> HIDE DEF S, n
    <2> QED
      BY <1>1, GreatestOf
  <1>3. Leading(x, b) = n - Max(S)
    BY DEF Leading
  <1> HIDE DEF S
  <1> QED
    BY <1>1, <1>2, <1>3, Widths, WordsAre, Tops

-----------------------------------------------------------------------------
(* Values *)

\* What an instruction computes from its operands is a word.

\* A quotient and a remainder of natural numbers.
LEMMA Euclid ==
  ASSUME NEW n \in Nat, NEW d \in Nat, d # 0
  PROVE  /\ n \div d \in Nat /\ n % d \in 0 .. d - 1 /\ n \div d <= n
         /\ n = d * (n \div d) + (n % d)
  <1>1. n = d * (n \div d) + (n % d)
    OBVIOUS
  <1>2. n % d \in 0 .. d - 1
    OBVIOUS
  <1>3. n \div d \in Nat
    OBVIOUS
  <1>4. n \div d <= n
    <2> DEFINE q == n \div d
    <2>1. d * q >= q
      <3>1. q \in Nat /\ d >= 1
        BY <1>3
      <3>2. (d - 1) * q >= 0 /\ d * q = (d - 1) * q + q
        <4> HIDE DEF q
        <4> QED
          BY <3>1
      <3> HIDE DEF q
      <3> QED
        BY <3>1, <3>2
    <2> HIDE DEF q
    <2> QED
      BY <1>1, <1>2, <1>3, <2>1 DEF q
  <1> QED
    BY <1>1, <1>2, <1>3, <1>4

\* A shift of a word is a word.
LEMMA ShiftsFit ==
  ASSUME NEW v \in Words, NEW n \in 0 .. WordBits - 1
  PROVE  ShiftLeft(v, n) \in Words /\ ShiftRight(v, n) \in Words /\ ShiftArithmetic(v, n) \in Words
  <1> DEFINE d == 2^n
  <1>1. d \in Nat /\ d # 0
    BY CpuAssumption
  <1>2. v \in Nat /\ Signed(v) \in Int
    BY WordsAre, SignedInt
  <1>3. ShiftLeft(v, n) = Word(v * d) /\ ShiftRight(v, n) = v \div d
        /\ ShiftArithmetic(v, n) = Word(Signed(v) \div d)
    BY DEF ShiftLeft, ShiftRight, ShiftArithmetic
  <1> HIDE DEF d
  <1>4. v \div d \in Nat /\ v \div d <= v
    BY <1>1, <1>2, Euclid
  <1>5. v * d \in Int /\ Signed(v) \div d \in Int
    BY <1>1, <1>2
  <1>6. v \div d \in Words
    <2> DEFINE q == v \div d
    <2>1. v \in 0 .. W - 1 /\ W \in Nat /\ q \in Nat /\ q <= v
      BY <1>4, WordsAre, Tops
    <2> HIDE DEF q
    <2>2. q \in 0 .. W - 1
      BY <2>1
    <2> QED
      BY <2>2, WordsAre DEF q
  <1> QED
    BY <1>3, <1>5, <1>6, WordFits

\* The fields of the instructions, by the instruction.
LEMMA FieldIs ==
  ASSUME NEW op
  PROVE  /\ op \in {"SLL", "SRL", "SRA"} => Field(op) = 0 .. WordBits - 1
         /\ op \in {"J", "JAL"} => Field(op) = 0 .. 2^(WordBits - 6) - 1
         /\ op = "MTC0" => Field(op) = {"Cause", "Compare"}
         /\ op \notin {"SLL", "SRL", "SRA", "J", "JAL", "MTC0"} => Field(op) = Half
  <1>1. op \in {"SLL", "SRL", "SRA"} => Field(op) = 0 .. WordBits - 1
    BY DEF Field, ShiftOps
  <1>2. op \in {"J", "JAL"} => Field(op) = 0 .. 2^(WordBits - 6) - 1
    BY DEF Field, ShiftOps
  <1>3. op = "MTC0" => Field(op) = {"Cause", "Compare"}
    BY DEF Field, ShiftOps
  <1>4. op \notin {"SLL", "SRL", "SRA", "J", "JAL", "MTC0"} => Field(op) = Half
    BY DEF Field, ShiftOps
  <1> QED
    BY <1>1, <1>2, <1>3, <1>4

\* Every value that an instruction on two operands computes is a word.
LEMMA ValueFits ==
  ASSUME NEW op \in ValueOps, NEW s \in Words, NEW t \in Words, NEW x \in Field(op)
  PROVE  Value(op, s, t, x) \in Words
  <1>1. s \in Nat /\ t \in Nat
    BY WordsAre
  <1>2. Flag(TRUE) \in Words /\ Flag(FALSE) \in Words
    BY WordsAre DEF Flag
  <1>3. CASE op \in {"ADD", "ADDU", "SUB", "SUBU"}
    <2>1. Word(s + t) \in Words /\ Word(s - t) \in Words
      <3>1. s + t \in Int /\ s - t \in Int
        BY <1>1
      <3> QED
        BY <3>1, WordFits
    <2>2. Value(op, s, t, x) \in {Word(s + t), Word(s - t)}
      BY <1>3 DEF Value
    <2> QED
      BY <2>1, <2>2
  <1>4. CASE op \in {"AND", "OR", "XOR", "NOR"}
    <2>1. BitAnd(s, t) \in Words /\ BitOr(s, t) \in Words /\ BitXor(s, t) \in Words
      BY BitWords
    <2>2. BitNot(BitOr(s, t)) \in Words
      BY <2>1, BitWords
    <2>3. Value(op, s, t, x) \in {BitAnd(s, t), BitOr(s, t), BitXor(s, t), BitNot(BitOr(s, t))}
      BY <1>4 DEF Value
    <2> QED
      BY <2>1, <2>2, <2>3
  <1>5. CASE op \in {"ADDI", "ADDIU", "ANDI", "ORI", "XORI", "LUI", "SLTI", "SLTIU"}
    <2>1. x \in Half
      BY <1>5, FieldIs
    <2>2. x \in Words /\ x \in 0 .. H - 1 /\ x \in Int
      <3>1. x \in 0 .. H - 1 /\ H \in Nat
        BY <2>1, WordsAre, Tops
      <3>2. 0 * H + x \in Words /\ 0 * H + x = x
        BY <3>1, OfHalves
      <3> QED
        BY <3>1, <3>2
    <2>3. Imm(x) \in Words /\ Imm(x) \in Nat
      BY <2>2, SignedInt, WordsAre
    <2>4. Word(s + Imm(x)) \in Words
      <3>1. s + Imm(x) \in Int
        BY <1>1, <2>3
      <3> QED
        BY <3>1, WordFits
    <2>5. BitAnd(s, x) \in Words /\ BitOr(s, x) \in Words /\ BitXor(s, x) \in Words
      BY <2>2, BitWords
    <2>6. x * 2^HalfBits \in Words
      <3>1. x * H + 0 \in Words
        BY <2>2, OfHalves, Tops
      <3>2. x * H + 0 = x * H
        BY <2>2, Tops
      <3> QED
        BY <3>1, <3>2 DEF H
    <2>7. Value(op, s, t, x) \in {Word(s + Imm(x)), BitAnd(s, x), BitOr(s, x), BitXor(s, x),
                                  x * 2^HalfBits, Flag(TRUE), Flag(FALSE)}
      <3>1. Flag(Signed(s) < ShortValue(x)) \in {Flag(TRUE), Flag(FALSE)}
            /\ Flag(s < Imm(x)) \in {Flag(TRUE), Flag(FALSE)}
        BY DEF Flag
      <3> QED
        BY <1>5, <3>1 DEF Value
    <2> QED
      BY <2>4, <2>5, <2>6, <2>7, <1>2
  <1>6. CASE op \in {"SLT", "SLTU"}
    <2>1. Flag(Signed(s) < Signed(t)) \in {Flag(TRUE), Flag(FALSE)}
          /\ Flag(s < t) \in {Flag(TRUE), Flag(FALSE)}
      BY DEF Flag
    <2>2. Value(op, s, t, x) \in {Flag(Signed(s) < Signed(t)), Flag(s < t)}
      BY <1>6 DEF Value
    <2> QED
      BY <1>2, <2>1, <2>2
  <1>7. CASE op \in ShiftOps
    <2>1. x \in 0 .. WordBits - 1
      BY <1>7, FieldIs DEF ShiftOps
    <2>2. ShiftLeft(t, x) \in Words /\ ShiftRight(t, x) \in Words /\ ShiftArithmetic(t, x) \in Words
      BY <2>1, ShiftsFit
    <2>3. Value(op, s, t, x) \in {ShiftLeft(t, x), ShiftRight(t, x), ShiftArithmetic(t, x)}
      BY <1>7 DEF Value, ShiftOps
    <2> QED
      BY <2>2, <2>3
  <1>8. CASE op \in {"SLLV", "SRLV", "SRAV"}
    <2> DEFINE c == Count(s)
    <2>1. c \in 0 .. WordBits - 1
      BY <1>1, Widths DEF Count
    <2>2. ShiftLeft(t, c) \in Words /\ ShiftRight(t, c) \in Words /\ ShiftArithmetic(t, c) \in Words
      BY <2>1, ShiftsFit
    <2>3. Value(op, s, t, x) \in {ShiftLeft(t, c), ShiftRight(t, c), ShiftArithmetic(t, c)}
      BY <1>8 DEF Value
    <2> QED
      BY <2>2, <2>3
  <1>9. CASE op \in {"CLO", "CLZ"}
    <2>1. Value(op, s, t, x) \in {Leading(s, 1), Leading(s, 0)}
      BY <1>9 DEF Value
    <2> QED
      BY <2>1, LeadingFits
  <1> QED
    BY <1>3, <1>4, <1>5, <1>6, <1>7, <1>8, <1>9
    DEF ValueOps, RegisterOps, ShiftOps, ImmediateOps, TrappingOps

-----------------------------------------------------------------------------
(* HI and LO *)

Pairs == [{"hi", "lo"} -> Words]

LEMMA PairFits ==
  ASSUME NEW h \in Words, NEW l \in Words
  PROVE  Pair(h, l) \in Pairs /\ Pair(h, l).hi = h /\ Pair(h, l).lo = l
  BY DEF Pair, Pairs

LEMMA PairOf ==
  ASSUME NEW p \in Pairs
  PROVE  p.hi \in Words /\ p.lo \in Words /\ p.hi \in Nat /\ p.lo \in Nat
  <1>1. p.hi \in Words /\ p.lo \in Words
    BY DEF Pairs
  <1> QED
    BY <1>1, WordsAre

LEMMA FlagIs ==
  ASSUME NEW b
  PROVE  Flag(b) \in 0 .. 1 /\ Flag(b) \in Words
  BY WordsAre DEF Flag

LEMMA UnsignedFits ==
  ASSUME NEW s \in Nat, NEW t \in Nat
  PROVE  UnsignedMultiply(s, t) \in Pairs
  <1> DEFINE a == High(s)
             b == Low(s)
             c == High(t)
             d == Low(t)
             bd == Word(b * d)
             ad == Word(a * d)
             cb == Word(c * b)
             ac == Word(a * c)
             mid == Word(ad + cb)
             mid2 == Word(mid + High(bd))
             carry_mid == Flag(mid < ad \/ mid < cb) + Flag(mid2 < mid \/ mid2 < High(bd))
             hi == Word(ac + carry_mid * 2^HalfBits + High(mid2))
             lo == Low(bd) + Low(mid2) * 2^HalfBits
  <1>1. a \in Nat /\ b \in Nat /\ c \in Nat /\ d \in Nat
    <2>1. High(s) \in Nat /\ Low(s) \in 0 .. H - 1 /\ High(t) \in Nat /\ Low(t) \in 0 .. H - 1
      BY Halved
    <2> QED
      BY <2>1
  <1>2. UnsignedMultiply(s, t) = Pair(hi, lo)
    BY DEF UnsignedMultiply
  <1> HIDE DEF a, b, c, d
  <1>3. bd \in Words /\ ad \in Words /\ cb \in Words /\ ac \in Words
    <2>1. b * d \in Int /\ a * d \in Int /\ c * b \in Int /\ a * c \in Int
      BY <1>1
    <2> QED
      BY <2>1, WordFits
  <1> HIDE DEF bd, ad, cb, ac
  <1>4. mid \in Words
    <2>1. ad + cb \in Int
      BY <1>3, WordsAre
    <2> QED
      BY <2>1, WordFits
  <1> HIDE DEF mid
  <1>5. bd \in Nat /\ High(bd) \in Nat /\ Low(bd) \in 0 .. H - 1
    BY <1>3, Halved, WordsAre
  <1>6. mid2 \in Words
    <2>1. mid + High(bd) \in Int
      BY <1>4, <1>5, WordsAre
    <2> QED
      BY <2>1, WordFits
  <1> HIDE DEF mid2
  <1>7. mid2 \in Nat /\ High(mid2) \in Nat /\ Low(mid2) \in 0 .. H - 1
    BY <1>6, Halved, WordsAre
  <1>8. carry_mid \in Nat
    <2>1. Flag(mid < ad \/ mid < cb) \in 0 .. 1 /\ Flag(mid2 < mid \/ mid2 < High(bd)) \in 0 .. 1
      BY FlagIs
    <2> QED
      BY <2>1
  <1> HIDE DEF carry_mid
  <1>9. hi \in Words
    <2>1. carry_mid * H \in Int
      BY <1>8, Tops
    <2>2. ac + carry_mid * H + High(mid2) \in Int
      BY <1>3, <1>7, <2>1, WordsAre
    <2> QED
      BY <2>2, WordFits DEF H
  <1>10. lo \in Words
    <2>1. Low(mid2) * H + Low(bd) \in Words
      BY <1>5, <1>7, OfHalves
    <2>2. Low(mid2) * H \in Int
      BY <1>7, Tops
    <2>3. Low(mid2) * H + Low(bd) = Low(bd) + Low(mid2) * H
      BY <1>5, <2>2
    <2> QED
      BY <2>1, <2>3 DEF H
  <1> QED
    BY <1>2, <1>9, <1>10, PairFits

LEMMA MultiplyFits ==
  ASSUME NEW op, NEW s \in Words, NEW t \in Words
  PROVE  Multiply(op, s, t) \in Pairs
  <1>1. \A v \in Words : Magnitude(v) \in Nat
    <2> SUFFICES ASSUME NEW v \in Words PROVE Magnitude(v) \in Nat
      OBVIOUS
    <2>1. v \in Nat /\ Word(-v) \in Nat
      <3>1. v \in Nat /\ -v \in Int
        BY WordsAre
      <3> QED
        BY <3>1, WordFits, WordsAre
    <2> QED
      BY <2>1 DEF Magnitude, Negate
  <1>2. ASSUME NEW p \in Pairs PROVE NegatePair(p) \in Pairs
    <2>1. BitNot(p.lo) \in Words /\ BitNot(p.hi) \in Words
      BY PairOf, BitWords
    <2>2. Word(BitNot(p.lo) + 1) \in Words
      BY <2>1, WordFits, WordsAre
    <2>3. Word(BitNot(p.hi) + Flag(Word(BitNot(p.lo) + 1) = 0)) \in Words
      <3>1. Flag(Word(BitNot(p.lo) + 1) = 0) \in 0 .. 1
        BY FlagIs
      <3>2. BitNot(p.hi) \in Int
        BY <2>1, WordsAre
      <3>3. BitNot(p.hi) + Flag(Word(BitNot(p.lo) + 1) = 0) \in Int
        BY <3>1, <3>2
      <3> QED
        BY <3>3, WordFits
    <2> QED
      BY <2>2, <2>3, PairFits DEF NegatePair
  <1>3. UnsignedMultiply(s, t) \in Pairs
    BY UnsignedFits, WordsAre
  <1>4. SignedMultiply(s, t) \in Pairs
    <2>1. UnsignedMultiply(Magnitude(s), Magnitude(t)) \in Pairs
      BY <1>1, UnsignedFits
    <2> QED
      BY <1>2, <2>1 DEF SignedMultiply
  <1> QED
    BY <1>3, <1>4 DEF Multiply

\* The multiplications and divisions leave two words.
LEMMA HiLoFits ==
  ASSUME NEW op \in HiLoOps, NEW s \in Words, NEW t \in Words, NEW old \in Pairs
  PROVE  HiLo(op, s, t, old) \in Pairs
  <1> DEFINE p == Multiply(op, s, t)
  <1>1. p \in Pairs
    BY MultiplyFits
  <1>2. AddTo(old, p) \in Pairs /\ SubtractFrom(old, p) \in Pairs
    <2> HIDE DEF p
    <2>1. old.hi \in Nat /\ old.lo \in Nat /\ p.hi \in Nat /\ p.lo \in Nat
      BY <1>1, PairOf
    <2>2. Word(old.lo + p.lo) \in Words /\ Word(old.lo - p.lo) \in Words
      BY <2>1, WordFits
    <2>3. /\ Word(old.hi + Flag(Word(old.lo + p.lo) < p.lo \/ Word(old.lo + p.lo) < old.lo) + p.hi) \in Words
          /\ Word(old.hi - Flag(p.lo > old.lo) - p.hi) \in Words
      <3> DEFINE f == Flag(Word(old.lo + p.lo) < p.lo \/ Word(old.lo + p.lo) < old.lo)
                 g == Flag(p.lo > old.lo)
      <3>1. f \in 0 .. 1 /\ g \in 0 .. 1
        BY FlagIs
      <3> HIDE DEF f, g
      <3>2. old.hi + f + p.hi \in Int /\ old.hi - g - p.hi \in Int
        BY <2>1, <3>1
      <3>3. Word(old.hi + f + p.hi) \in Words /\ Word(old.hi - g - p.hi) \in Words
        BY <3>2, WordFits
      <3> QED
        BY <3>3 DEF f, g
    <2> QED
      BY <2>2, <2>3, PairFits DEF AddTo, SubtractFrom
  <1>3. ASSUME Divides(s, t)
        PROVE  /\ Pair(Word(Remainder(Signed(s), Signed(t))), Word(Quotient(Signed(s), Signed(t)))) \in Pairs
               /\ Pair(s % t, s \div t) \in Pairs
    <2>1. s \in Nat /\ t \in Nat /\ t # 0 /\ s \in 0 .. W - 1 /\ t \in 0 .. W - 1 /\ W \in Nat
      BY <1>3, WordsAre, Tops DEF Divides
    <2>2. Signed(s) \in Int /\ Signed(t) \in Int /\ Signed(t) # 0
      <3>1. Signed(t) = IF t >= 2^(WordBits - 1) THEN t - W ELSE t
        BY DEF Signed, SignedOf, W
      <3> QED
        BY <2>1, <3>1, SignedInt
    <2> DEFINE x == Signed(s)
               y == Signed(t)
    <2>3. Quotient(x, y) \in Int /\ Remainder(x, y) \in Int
      <3> HIDE DEF x, y
      <3> DEFINE u == IF x < 0 THEN -x ELSE x
                 v == IF y < 0 THEN -y ELSE y
      <3>1. u \in Nat /\ v \in Nat /\ v # 0 /\ x \in Int /\ y \in Int
        BY <2>2 DEF x, y
      <3>2. u \div v \in Nat
        <4> HIDE DEF u, v
        <4> QED
          BY <3>1, Euclid
      <3>3. Quotient(x, y) \in Int
        <4>1. Quotient(x, y) = IF (x < 0) # (y < 0) THEN -(u \div v) ELSE u \div v
          BY DEF Quotient
        <4> HIDE DEF u, v
        <4> QED
          BY <3>2, <4>1
      <3>4. Quotient(x, y) * y \in Int
        BY <3>1, <3>3
      <3> QED
        BY <3>1, <3>3, <3>4 DEF Remainder
    <2>4. s % t \in Words /\ s \div t \in Words
      <3>1. s \div t \in Nat /\ s % t \in 0 .. t - 1 /\ s \div t <= s
        BY <2>1, Euclid
      <3> DEFINE q == s \div t
                 r == s % t
      <3> HIDE DEF q, r
      <3>2. q \in 0 .. W - 1 /\ r \in 0 .. W - 1
        BY <2>1, <3>1 DEF q, r
      <3> QED
        BY <3>2, WordsAre DEF q, r
    <2> QED
      BY <2>3, <2>4, WordFits, PairFits
  <1>4. [old EXCEPT !.hi = s] \in Pairs /\ [old EXCEPT !.lo = s] \in Pairs
    BY DEF Pairs
  <1>5. CASE op \in {"MULT", "MULTU", "MUL", "MADD", "MADDU", "MSUB", "MSUBU"}
    <2>1. HiLo(op, s, t, old) \in {p, AddTo(old, p), SubtractFrom(old, p)}
      BY <1>5 DEF HiLo
    <2> QED
      BY <1>1, <1>2, <2>1
  <1>6. CASE op \in {"MTHI", "MTLO"}
    <2>1. HiLo(op, s, t, old) \in {[old EXCEPT !.hi = s], [old EXCEPT !.lo = s]}
      BY <1>6 DEF HiLo
    <2> QED
      BY <1>4, <2>1
  <1>7. CASE op \in {"DIV", "DIVU"} /\ Divides(s, t)
    <2>1. HiLo(op, s, t, old) \in
            {Pair(Word(Remainder(Signed(s), Signed(t))), Word(Quotient(Signed(s), Signed(t)))),
             Pair(s % t, s \div t)}
      BY <1>7 DEF HiLo
    <2> QED
      BY <1>3, <1>7, <2>1
  <1>8. CASE op \in {"DIV", "DIVU"} /\ ~Divides(s, t)
    <2>1. HiLo(op, s, t, old) = old
      BY <1>8 DEF HiLo
    <2> QED
      BY <2>1
  <1> QED
    BY <1>5, <1>6, <1>7, <1>8 DEF HiLoOps

-----------------------------------------------------------------------------
(* Bytes *)

\* Words put together of bytes, as the accesses that are not aligned do it.

\* What k bytes can hold.
Power(k) == 2^(k * ByteBits)

LEMMA Powers ==
  ASSUME NEW k \in 0 .. 4
  PROVE  /\ Power(k) \in Nat \ {0} /\ Power(4 - k) \in Nat \ {0}
         /\ Power(k) * Power(4 - k) = W /\ k * ByteBits \in 0 .. WordBits
  <1> DEFINE n == k * ByteBits
  <1>1. n \in 0 .. WordBits /\ (4 - k) * ByteBits = WordBits - n
    BY Widths DEF WordBits
  <1>2. 2^WordBits = 2^n * 2^(WordBits - n) /\ 2^n \in Nat \ {0} /\ 2^(WordBits - n) \in Nat \ {0}
    <2>1. WordBits \in 0 .. WordBits /\ n <= WordBits
      BY <1>1, Widths
    <2> HIDE DEF n
    <2> QED
      BY <1>1, <2>1, Split
  <1>3. Power(k) = 2^n /\ Power(4 - k) = 2^(WordBits - n)
    BY <1>1 DEF Power
  <1> QED
    BY <1>1, <1>2, <1>3 DEF W

LEMMA NextPower ==
  ASSUME NEW k \in 0 .. 3
  PROVE  Power(k + 1) = Power(1) * Power(k) /\ Power(0) = 1
         /\ Power(1) \in Nat \ {0} /\ Power(k) \in Nat \ {0} /\ Byte = 0 .. Power(1) - 1
  <1> DEFINE n == (k + 1) * ByteBits
  <1>1. /\ n \in 0 .. WordBits /\ ByteBits \in 0 .. WordBits /\ ByteBits <= n
        /\ n - ByteBits = k * ByteBits
    BY Widths DEF WordBits
  <1>2. /\ 2^n = 2^ByteBits * 2^(n - ByteBits) /\ 2^ByteBits \in Nat \ {0}
        /\ 2^(n - ByteBits) \in Nat \ {0}
    <2> HIDE DEF n
    <2> QED
      BY <1>1, Split
  <1>3. 1 * ByteBits = ByteBits /\ 0 * ByteBits = 0
    BY Widths
  <1> QED
    BY <1>1, <1>2, <1>3, Small DEF Power, Byte

\* A number above k bytes and one below them.
LEMMA Join ==
  ASSUME NEW k \in 0 .. 4, NEW q \in 0 .. Power(4 - k) - 1, NEW r \in 0 .. Power(k) - 1
  PROVE  q * Power(k) + r \in Words
  <1> DEFINE d == Power(k)
             e == Power(4 - k)
  <1>1. d \in Nat /\ e \in Nat /\ d * e = W
    BY Powers
  <1>2. q \in 0 .. e - 1 /\ r \in 0 .. d - 1
    OBVIOUS
  <1> HIDE DEF d, e
  <1>3. q * d <= (e - 1) * d /\ q * d >= 0 /\ q * d \in Int
    BY <1>1, <1>2
  <1>4. (e - 1) * d = d * e - d
    BY <1>1
  <1>5. q * d + r \in 0 .. W - 1
    BY <1>1, <1>2, <1>3, <1>4, Tops
  <1> QED
    BY <1>5, WordsAre DEF d

\* A word is cut into two parts at any of its bytes.
LEMMA Parts ==
  ASSUME NEW v \in Words, NEW k \in 0 .. 4
  PROVE  /\ LowBytes(v, k) \in 0 .. Power(k) - 1
         /\ Down(v, k) \in 0 .. Power(4 - k) - 1
         /\ HighBytes(v, 4 - k) = Down(v, k) * Power(k)
         /\ Down(HighBytes(v, 4 - k), k) = Down(v, k)
  <1> DEFINE d == Power(k)
             e == Power(4 - k)
             q == v \div d
             r == v % d
  <1>1. d \in Nat /\ d # 0 /\ e \in Nat /\ e # 0 /\ d * e = W /\ v \in Nat /\ v < W
    <2>1. d \in Nat /\ d # 0 /\ e \in Nat /\ e # 0 /\ d * e = W
      BY Powers
    <2>2. v \in 0 .. W - 1 /\ W \in Nat
      BY WordsAre, Tops
    <2> QED
      BY <2>1, <2>2
  <1>2. q \in Nat /\ r \in 0 .. d - 1 /\ v = d * q + r
    <2> HIDE DEF d
    <2> QED
      BY <1>1, Euclid
  <1>3. q < e
    <2> HIDE DEF q, r, d, e
    <2>1. SUFFICES ASSUME q >= e PROVE FALSE
      BY <1>1, <1>2
    <2>2. d * q >= d * e
      BY <1>1, <1>2, <2>1
    <2> QED
      BY <1>1, <1>2, <2>2
  <1>4. LowBytes(v, k) = r /\ Down(v, k) = q
    BY DEF LowBytes, Down, Power
  <1>5. HighBytes(v, 4 - k) = q * d
    <2>1. 4 - (4 - k) = k
      OBVIOUS
    <2>2. HighBytes(v, 4 - k) = v - r
      BY <1>4, <2>1 DEF HighBytes
    <2> HIDE DEF q, r, d
    <2> QED
      BY <1>1, <1>2, <2>2
  <1>6. (q * d) \div d = q
    <2> HIDE DEF q, r, d
    <2>1. q * d = d * q + 0 /\ 0 < d
      BY <1>1, <1>2
    <2>2. q * d \in Nat /\ d \in Nat /\ d # 0
      BY <1>1, <1>2
    <2> DEFINE u == (q * d) \div d
               w == (q * d) % d
    <2>3. u \in Nat /\ w \in 0 .. d - 1 /\ q * d = d * u + w
      BY <2>2, Euclid
    <2> HIDE DEF u, w
    <2>4. d * (q - u) = w
      BY <1>1, <1>2, <2>1, <2>3
    <2>5. q - u = 0
      <3> DEFINE z == q - u
      <3>1. z \in Int /\ d * z \in 0 .. d - 1
        BY <1>2, <2>3, <2>4
      <3> HIDE DEF z
      <3>2. z >= 1 => d * z >= d
        BY <1>1, <3>1
      <3>3. z <= -1 => d * z <= -d
        BY <1>1, <3>1
      <3>4. z = 0
        BY <1>1, <3>1, <3>2, <3>3
      <3> QED
        BY <3>4 DEF z
    <2> QED
      BY <1>2, <2>3, <2>5 DEF u
  <1>7. Down(HighBytes(v, 4 - k), k) = q
    BY <1>5, <1>6 DEF Down, Power
  <1>8. q \in 0 .. e - 1
    <2> HIDE DEF q, d, e
    <2> QED
      BY <1>1, <1>2, <1>3
  <1> QED
    BY <1>2, <1>4, <1>5, <1>7, <1>8

\* What lwl, lwr, swl and swr put together is a word.
LEMMA UnalignedFits ==
  ASSUME NEW w \in Words, NEW reg \in Words, NEW b \in 0 .. 3
  PROVE  /\ Lwl(w, reg, b) \in Words /\ Lwr(w, reg, b) \in Words
         /\ Swl(w, reg, b) \in Words /\ Swr(w, reg, b) \in Words
  <1> DEFINE k == 3 - b
  <1>1. k \in 0 .. 4 /\ 4 - k = b + 1 /\ b \in 0 .. 4 /\ b + 1 \in 0 .. 4 /\ 4 - b \in 0 .. 4
        /\ 4 - (4 - b) = b /\ 4 - (b + 1) = k
    OBVIOUS
  <1> HIDE DEF k
  <1>2. Lwl(w, reg, b) \in Words
    <2>1. LowBytes(w, b + 1) \in 0 .. Power(4 - k) - 1 /\ LowBytes(reg, k) \in 0 .. Power(k) - 1
      BY <1>1, Parts
    <2>2. Lwl(w, reg, b) = LowBytes(w, b + 1) * Power(k) + LowBytes(reg, k)
      BY DEF Lwl, Up, k, Power
    <2> QED
      BY <1>1, <2>1, <2>2, Join
  <1>3. Swr(w, reg, b) \in Words
    <2>1. LowBytes(reg, 4 - b) \in 0 .. Power(4 - b) - 1 /\ LowBytes(w, b) \in 0 .. Power(b) - 1
      BY <1>1, Parts
    <2>2. Swr(w, reg, b) = LowBytes(reg, 4 - b) * Power(b) + LowBytes(w, b)
      BY DEF Swr, Up, Power
    <2> QED
      BY <1>1, <2>1, <2>2, Join
  <1>4. Lwr(w, reg, b) \in Words
    <2>1. /\ Down(HighBytes(w, 4 - b), b) = Down(w, b) /\ Down(w, b) \in 0 .. Power(4 - b) - 1
      BY <1>1, Parts
    <2>2. /\ HighBytes(reg, b) = Down(reg, 4 - b) * Power(4 - b)
          /\ Down(reg, 4 - b) \in 0 .. Power(b) - 1
      <3> DEFINE j == 4 - b
      <3>1. j \in 0 .. 4 /\ 4 - j = b
        BY <1>1
      <3> HIDE DEF j
      <3>2. /\ HighBytes(reg, 4 - j) = Down(reg, j) * Power(j)
            /\ Down(reg, j) \in 0 .. Power(4 - j) - 1
        BY <3>1, Parts
      <3> QED
        BY <3>1, <3>2 DEF j
    <2>3. Lwr(w, reg, b) = Down(reg, 4 - b) * Power(4 - b) + Down(w, b)
      BY <2>1, <2>2 DEF Lwr
    <2> QED
      BY <1>1, <2>1, <2>2, <2>3, Join
  <1>5. Swl(w, reg, b) \in Words
    <2>1. Down(reg, k) \in 0 .. Power(4 - k) - 1
      BY <1>1, Parts
    <2>2. HighBytes(w, k) = Down(w, b + 1) * Power(b + 1) /\ Down(w, b + 1) \in 0 .. Power(k) - 1
      <3> DEFINE j == b + 1
      <3>1. j \in 0 .. 4 /\ 4 - j = k
        BY <1>1
      <3> HIDE DEF j
      <3>2. HighBytes(w, 4 - j) = Down(w, j) * Power(j) /\ Down(w, j) \in 0 .. Power(4 - j) - 1
        BY <3>1, Parts
      <3> QED
        BY <3>1, <3>2 DEF j
    <2>3. Swl(w, reg, b) = Down(w, b + 1) * Power(b + 1) + Down(reg, k)
      BY <2>2 DEF Swl, k
    <2>4. Down(reg, k) \in 0 .. Power(b + 1) - 1 /\ Down(w, b + 1) \in 0 .. Power(4 - (b + 1)) - 1
      BY <1>1, <2>1, <2>2
    <2> QED
      BY <1>1, <2>3, <2>4, Join
  <1> QED
    BY <1>2, <1>3, <1>4, <1>5

\* Bytes read as one number.
LEMMA FetchFits ==
  ASSUME NEW f, NEW i \in Int, NEW n \in {1, 2, 4}, \A j \in i .. i + n - 1 : f[j] \in Byte
  PROVE  Fetch(f, i, n) \in Words
  <1> DEFINE p == Power(1)
             q == Power(2)
             s == Power(3)
             d(k) == IF k < n THEN f[i + k] ELSE 0
  <1>1. /\ p \in Nat \ {0} /\ q \in Nat \ {0} /\ s \in Nat \ {0} /\ q = p * p /\ s = p * q
        /\ Byte = 0 .. p - 1 /\ Power(0) = 1 /\ W = p * s
    <2>1. /\ Power(0 + 1) = Power(1) * Power(0) /\ Power(0) = 1 /\ Byte = 0 .. p - 1
          /\ Power(1) \in Nat \ {0}
      BY NextPower
    <2>2. Power(1 + 1) = Power(1) * Power(1) /\ Power(2 + 1) = Power(1) * Power(2)
          /\ Power(2) \in Nat \ {0} /\ Power(3) \in Nat \ {0}
      BY NextPower
    <2>3. Power(1) * Power(4 - 1) = W
      BY Powers
    <2> QED
      BY <2>1, <2>2, <2>3
  <1>2. \A k \in 0 .. 3 : d(k) \in 0 .. p - 1
    <2> SUFFICES ASSUME NEW k \in 0 .. 3 PROVE d(k) \in 0 .. p - 1
      OBVIOUS
    <2> HIDE DEF p
    <2>1. CASE k < n
      <3>1. i + k \in i .. i + n - 1
        BY <2>1
      <3> QED
        BY <1>1, <2>1, <3>1
    <2>2. CASE ~(k < n)
      BY <1>1, <2>2
    <2> QED
      BY <2>1, <2>2
  <1> DEFINE a == d(0)
             b == d(1)
             c == d(2)
             e == d(3)
  <1>3. Fetch(f, i, n) = a + b * p + c * q + e * s
    <2>1. d(0) = f[i + 0] /\ 0 < n
      OBVIOUS
    <2> DEFINE byte(k) == IF k < n THEN f[i + k] * 2^(k * ByteBits) ELSE 0
    <2>2. Fetch(f, i, n) = byte(0) + byte(1) + byte(2) + byte(3)
      BY DEF Fetch
    <2>3. /\ byte(0) = d(0) * Power(0) /\ byte(1) = d(1) * Power(1) /\ byte(2) = d(2) * Power(2)
          /\ byte(3) = d(3) * Power(3)
      <3>1. ASSUME NEW k \in 0 .. 3 PROVE byte(k) = d(k) * Power(k)
        <4>1. Power(k) \in Int
          <5>1. k \in 0 .. 4
            OBVIOUS
          <5> QED
            BY <5>1, Powers
        <4>2. CASE k < n
          BY <4>2 DEF Power
        <4>3. CASE ~(k < n)
          <5>1. byte(k) = 0 /\ d(k) = 0
            BY <4>3
          <5> HIDE DEF byte, d
          <5> QED
            BY <4>1, <5>1
        <4> QED
          BY <4>2, <4>3
      <3>2. 0 \in 0 .. 3 /\ 1 \in 0 .. 3 /\ 2 \in 0 .. 3 /\ 3 \in 0 .. 3
        OBVIOUS
      <3> HIDE DEF byte, d
      <3> QED
        BY <3>1, <3>2
    <2>4. a * Power(0) = a
      <3>1. a \in Int
        BY <1>1, <1>2
      <3> HIDE DEF a
      <3> QED
        BY <1>1, <3>1
    <2> HIDE DEF byte, d
    <2> QED
      BY <2>2, <2>3, <2>4
  <1>4. a \in 0 .. p - 1 /\ b \in 0 .. p - 1 /\ c \in 0 .. p - 1 /\ e \in 0 .. p - 1
    <2>1. 0 \in 0 .. 3 /\ 1 \in 0 .. 3 /\ 2 \in 0 .. 3 /\ 3 \in 0 .. 3
      OBVIOUS
    <2> HIDE DEF d
    <2> QED
      BY <1>2, <2>1
  <1> HIDE DEF a, b, c, d, e, p, q, s
  <1>5. b * p <= (p - 1) * p /\ b * p >= 0 /\ b * p \in Int /\ (p - 1) * p = p * p - p
    BY <1>1, <1>4
  <1>6. c * q <= (p - 1) * q /\ c * q >= 0 /\ c * q \in Int /\ (p - 1) * q = p * q - q
    BY <1>1, <1>4
  <1>7. e * s <= (p - 1) * s /\ e * s >= 0 /\ e * s \in Int /\ (p - 1) * s = p * s - s
    BY <1>1, <1>4
  <1>8. a + b * p + c * q + e * s \in 0 .. W - 1
    BY <1>1, <1>4, <1>5, <1>6, <1>7
  <1> QED
    BY <1>3, <1>8, WordsAre

LEMMA LowFits ==
  ASSUME NEW v \in Words, NEW n \in {1, 2, 4}
  PROVE  /\ LowBytes(v, n) \in Words
         /\ SignExtend(v, n * ByteBits) \in Words
  <1>1. n \in 0 .. 4 /\ Power(n) \in Nat \ {0} /\ n * ByteBits \in 1 .. WordBits
    <2>1. n \in 0 .. 4 /\ n >= 1
      OBVIOUS
    <2>2. n * ByteBits \in 0 .. WordBits /\ Power(n) \in Nat \ {0}
      BY <2>1, Powers
    <2> QED
      BY <2>1, <2>2, Widths
  <1>2. LowBytes(v, n) \in Words
    <2>1. LowBytes(v, n) = v % Power(n) /\ v \in Nat /\ v \in 0 .. W - 1
      BY WordsAre DEF LowBytes, Power
    <2> DEFINE d == Power(n)
    <2>2. d \in Nat \ {0}
      BY <1>1
    <2> HIDE DEF d
    <2>3. v % d \in 0 .. d - 1 /\ v = d * (v \div d) + (v % d) /\ v \div d \in Nat
      BY <2>1, <2>2, Euclid
    <2> DEFINE r == v % d
               u == v \div d
    <2>4. r \in Nat /\ r <= v
      <3>1. r \in 0 .. d - 1 /\ v = d * u + r /\ u \in Nat
        BY <2>3
      <3> HIDE DEF r, u
      <3>2. d * u >= 0
        BY <2>2, <3>1
      <3> QED
        BY <2>2, <3>1, <3>2
    <2> HIDE DEF r
    <2>5. r \in 0 .. W - 1
      BY <2>1, <2>4, Tops
    <2> QED
      BY <2>1, <2>5, WordsAre DEF r, d
  <1>3. SignedOf(v, n * ByteBits) \in Int
    BY <1>1, SignedType, WordsAre
  <1> QED
    BY <1>2, <1>3, WordFits DEF SignExtend

-----------------------------------------------------------------------------
(* The memory *)

\* Every segment is an array of bytes as long as its bounds say, and stays so.

Sizes == {1, 2, 4}
ArrayOf(n) == [0 .. n - 1 -> Byte]

\* A memory has these fields and no other.
MemFields(o) ==
  o \in [text : {o.text}, data : {o.data}, stack : {o.stack}, k_data : {o.k_data},
         special : {o.special}, data_top : {o.data_top}, stack_bot : {o.stack_bot},
         k_data_top : {o.k_data_top}]

MemBounds(o) ==
  /\ o.data_top \in Int /\ o.data_top % 4 = 0
  /\ o.stack_bot \in Int /\ o.stack_bot % 4 = 0 /\ o.stack_bot <= STACK_TOP
  /\ o.k_data_top = K_DATA_BOT + K_DATA_SIZE

MemContents(o) ==
  /\ o.text \in ArrayOf(TEXT_SIZE)
  /\ o.data \in ArrayOf(o.data_top - DATA_BOT)
  /\ o.stack \in ArrayOf(STACK_TOP - o.stack_bot)
  /\ o.k_data \in ArrayOf(K_DATA_SIZE)
  /\ o.special \in ArrayOf(SPECIAL_TOP - SPECIAL_BOT)

\* The type of a memory: its bounds are whole words, its arrays are as long as they say.
MemOk(o) == MemFields(o) /\ MemBounds(o) /\ MemContents(o)

\* The order of the segments, from the assumption.
LEMMA Layout ==
  /\ TEXT_BOT \in Nat /\ TEXT_BOT % 4 = 0 /\ TEXT_SIZE \in Nat /\ TEXT_SIZE % 4 = 0
  /\ DATA_BOT \in Nat /\ DATA_BOT % 4 = 0 /\ DATA_SIZE \in Nat /\ DATA_SIZE % 4 = 0
  /\ STACK_TOP \in Nat /\ STACK_TOP % 4 = 0 /\ STACK_SIZE \in Nat /\ STACK_SIZE % 4 = 0
  /\ K_DATA_BOT \in Nat /\ K_DATA_BOT % 4 = 0 /\ K_DATA_SIZE \in Nat /\ K_DATA_SIZE % 4 = 0
  /\ SPECIAL_BOT \in Nat /\ SPECIAL_BOT % 4 = 0 /\ SPECIAL_TOP \in Nat /\ SPECIAL_TOP % 4 = 0
  /\ EXCEPTION_ADDR \in Nat /\ EXCEPTION_ADDR % 4 = 0
  /\ MM_IO_BOT \in Nat /\ MM_IO_TOP \in Nat /\ StackWindow \in Nat
  /\ TEXT_BOT + TEXT_SIZE <= DATA_BOT /\ DATA_SIZE > 0
  /\ DATA_BOT + DATA_SIZE <= STACK_TOP - STACK_SIZE /\ STACK_TOP <= EXCEPTION_ADDR
  /\ 72 <= K_DATA_SIZE /\ K_DATA_BOT + K_DATA_SIZE <= SPECIAL_BOT
  /\ K_DATA_BOT + K_DATA_SIZE <= MM_IO_BOT /\ SPECIAL_BOT <= SPECIAL_TOP
  /\ K_DATA_BOT + K_DATA_SIZE + H <= W
  BY CpuAssumption DEF BYTES_PER_WORD, H, W

LEMMA WholeWords ==
  ASSUME NEW x \in Int
  PROVE  /\ RoundUpWord(x) \in Int /\ RoundUpWord(x) % 4 = 0
         /\ RoundDown(x) \in Int /\ RoundDown(x) % 4 = 0 /\ RoundDown(x) <= x /\ x - 3 <= RoundDown(x)
         /\ x \in Nat => RoundDown(x) \in Nat
         /\ x % 4 = 0 => RoundDown(x) = x
  BY DEF RoundUpWord, RoundDown, BYTES_PER_WORD

LEMMA PutKeeps ==
  ASSUME NEW size \in Int, NEW f \in ArrayOf(size), NEW i \in Int, NEW n \in Sizes, NEW v \in Nat
  PROVE  Put(f, i, n, v) \in ArrayOf(size)
  <1> DEFINE byte(j) == (v \div 2^((j - i) * ByteBits)) % 2^ByteBits
  <1>1. DOMAIN f = 0 .. size - 1 /\ \A j \in 0 .. size - 1 : f[j] \in Byte
    BY DEF ArrayOf
  <1>2. Put(f, i, n, v) = [j \in 0 .. size - 1 |-> IF j \in i .. i + n - 1 THEN byte(j) ELSE f[j]]
    BY <1>1 DEF Put
  <1>3. ASSUME NEW j \in i .. i + n - 1 PROVE byte(j) \in Byte
    <2>1. j - i \in 0 .. 3
      BY DEF Sizes
    <2>2. (j - i) * ByteBits \in 0 .. WordBits /\ ByteBits \in 0 .. WordBits
      BY <2>1, Widths DEF WordBits
    <2> DEFINE d == 2^((j - i) * ByteBits)
    <2>3. d \in Nat /\ d # 0 /\ 2^ByteBits \in Nat \ {0}
      BY <2>2, PowerOfTwo
    <2> HIDE DEF d
    <2>4. v \div d \in Nat
      BY <2>3, Euclid
    <2>5. (v \div d) % 2^ByteBits \in 0 .. 2^ByteBits - 1
      BY <2>3, <2>4
    <2> QED
      BY <2>5 DEF d, Byte
  <1> HIDE DEF byte
  <1> QED
    BY <1>1, <1>2, <1>3 DEF ArrayOf

\* A store into an array keeps the memory's type.
LEMMA PutFits ==
  ASSUME NEW o, MemOk(o), NEW s \in {"text", "data", "stack", "k_data", "special"},
         NEW i \in Int, NEW n \in Sizes, NEW v \in Nat
  PROVE  MemOk(PutAt(o, s, i, n, v))
  <1> DEFINE size == CASE s = "text" -> TEXT_SIZE [] s = "data" -> o.data_top - DATA_BOT
                       [] s = "stack" -> STACK_TOP - o.stack_bot [] s = "k_data" -> K_DATA_SIZE
                       [] s = "special" -> SPECIAL_TOP - SPECIAL_BOT
             f == Put(o[s], i, n, v)
             p == PutAt(o, s, i, n, v)
  <1>1. size \in Int /\ o[s] \in ArrayOf(size)
    BY Layout DEF MemOk, MemBounds, MemContents
  <1>2. f \in ArrayOf(size)
    <2> HIDE DEF size
    <2> QED
      BY <1>1, PutKeeps
  <1>3. p = [o EXCEPT ![s] = f]
    BY DEF PutAt
  <1> HIDE DEF f
  <1>4. CASE s = "text"
    <2>1. /\ p.text = f /\ p.data = o.data /\ p.stack = o.stack /\ p.k_data = o.k_data
          /\ p.special = o.special /\ p.data_top = o.data_top /\ p.stack_bot = o.stack_bot
          /\ p.k_data_top = o.k_data_top /\ MemFields(p)
      BY <1>3, <1>4 DEF MemOk, MemFields
    <2>2. MemOk(p)
      BY <2>1, <1>2, <1>4 DEF MemOk, MemBounds, MemContents
    <2> QED
      BY <2>2
  <1>5. CASE s = "data"
    <2>1. /\ p.text = o.text /\ p.data = f /\ p.stack = o.stack /\ p.k_data = o.k_data
          /\ p.special = o.special /\ p.data_top = o.data_top /\ p.stack_bot = o.stack_bot
          /\ p.k_data_top = o.k_data_top /\ MemFields(p)
      BY <1>3, <1>5 DEF MemOk, MemFields
    <2>2. MemOk(p)
      BY <2>1, <1>2, <1>5 DEF MemOk, MemBounds, MemContents
    <2> QED
      BY <2>2
  <1>6. CASE s = "stack"
    <2>1. /\ p.text = o.text /\ p.data = o.data /\ p.stack = f /\ p.k_data = o.k_data
          /\ p.special = o.special /\ p.data_top = o.data_top /\ p.stack_bot = o.stack_bot
          /\ p.k_data_top = o.k_data_top /\ MemFields(p)
      BY <1>3, <1>6 DEF MemOk, MemFields
    <2>2. MemOk(p)
      BY <2>1, <1>2, <1>6 DEF MemOk, MemBounds, MemContents
    <2> QED
      BY <2>2
  <1>7. CASE s = "k_data"
    <2>1. /\ p.text = o.text /\ p.data = o.data /\ p.stack = o.stack /\ p.k_data = f
          /\ p.special = o.special /\ p.data_top = o.data_top /\ p.stack_bot = o.stack_bot
          /\ p.k_data_top = o.k_data_top /\ MemFields(p)
      BY <1>3, <1>7 DEF MemOk, MemFields
    <2>2. MemOk(p)
      BY <2>1, <1>2, <1>7 DEF MemOk, MemBounds, MemContents
    <2> QED
      BY <2>2
  <1>8. CASE s = "special"
    <2>1. /\ p.text = o.text /\ p.data = o.data /\ p.stack = o.stack /\ p.k_data = o.k_data
          /\ p.special = f /\ p.data_top = o.data_top /\ p.stack_bot = o.stack_bot
          /\ p.k_data_top = o.k_data_top /\ MemFields(p)
      BY <1>3, <1>8 DEF MemOk, MemFields
    <2>2. MemOk(p)
      BY <2>1, <1>2, <1>8 DEF MemOk, MemBounds, MemContents
    <2> QED
      BY <2>2
  <1> QED
    BY <1>4, <1>5, <1>6, <1>7, <1>8

MemParts == {"text", "data", "stack", "k_data", "special", "data_top", "stack_bot"}

LEMMA PutParts ==
  ASSUME NEW o, MemOk(o), NEW s \in {"text", "data", "stack", "k_data", "special"},
         NEW i \in Int, NEW n \in Sizes, NEW v \in Nat
  PROVE  LET p == PutAt(o, s, i, n, v)
         IN  /\ p.data_top = o.data_top /\ p.stack_bot = o.stack_bot
             /\ p[s] = Put(o[s], i, n, v)
             /\ \A t \in MemParts : t # s => p[t] = o[t]
  <1> DEFINE f == Put(o[s], i, n, v)
             p == PutAt(o, s, i, n, v)
  <1>1. p = [o EXCEPT ![s] = f] /\ DOMAIN o = MemParts \cup {"k_data_top"}
    BY DEF PutAt, MemOk, MemFields, MemParts
  <1> HIDE DEF f, p
  <1>2. p[s] = f /\ \A t \in MemParts : t # s => p[t] = o[t]
    BY <1>1 DEF MemParts
  <1>3. p.data_top = o.data_top /\ p.stack_bot = o.stack_bot
    BY <1>2 DEF MemParts
  <1> QED
    BY <1>2, <1>3 DEF f, p

-----------------------------------------------------------------------------
(* Reading *)

\* A read returns a word, a fault that the machine has, and a memory.

\* Growth of the data keeps the memory's type, and all but the data.
LEMMA ExpandDataFits ==
  ASSUME NEW o, MemOk(o), NEW b \in Int
  PROVE  LET p == ExpandData(o, b)
         IN  /\ MemOk(p) /\ p.text = o.text /\ p.stack = o.stack /\ p.k_data = o.k_data
             /\ p.special = o.special /\ p.stack_bot = o.stack_bot
  <1> DEFINE size == o.data_top - DATA_BOT + RoundUpWord(b)
             f == [i \in 0 .. size - 1 |-> IF i \in DOMAIN o.data THEN o.data[i] ELSE 0]
             p == ExpandData(o, b)
  <1>1. size \in Int /\ DATA_BOT + size \in Int /\ (DATA_BOT + size) % 4 = 0
    <2> DEFINE up == RoundUpWord(b)
               top == o.data_top
    <2>1. up \in Int /\ up % 4 = 0
      BY WholeWords
    <2>2. top \in Int /\ top % 4 = 0 /\ DATA_BOT \in Int
      BY Layout DEF MemOk, MemBounds
    <2> HIDE DEF up, top
    <2>3. size = top - DATA_BOT + up
      BY DEF up, top
    <2> HIDE DEF size
    <2> QED
      BY <2>1, <2>2, <2>3
  <1>2. f \in ArrayOf(size)
    <2> HIDE DEF size
    <2>1. 0 \in Byte /\ \A i \in DOMAIN o.data : o.data[i] \in Byte
      <3>1. 0 \in Byte
        BY NextPower
      <3> QED
        BY <3>1 DEF MemOk, MemContents, ArrayOf
    <2> QED
      BY <2>1 DEF ArrayOf
  <1>3. p = [o EXCEPT !.data_top = DATA_BOT + size, !.data = f]
    BY DEF ExpandData
  <1> HIDE DEF f, size
  <1>4. /\ p.text = o.text /\ p.data = f /\ p.stack = o.stack /\ p.k_data = o.k_data
        /\ p.special = o.special /\ p.data_top = DATA_BOT + size /\ p.stack_bot = o.stack_bot
        /\ p.k_data_top = o.k_data_top /\ MemFields(p)
    BY <1>3 DEF MemOk, MemFields
  <1>5. p.data_top - DATA_BOT = size
    <2> HIDE DEF p
    <2> QED
      BY <1>1, <1>4, Layout
  <1> HIDE DEF p
  <1>6. MemOk(p)
    BY <1>1, <1>2, <1>4, <1>5 DEF MemOk, MemBounds, MemContents
  <1> QED
    BY <1>4, <1>6 DEF p

\* Growth of the stack keeps the memory's type, and all but the stack.
LEMMA GrownFits ==
  ASSUME NEW o, MemOk(o), NEW a \in Int
  PROVE  LET p == GrownFor(o, a)
         IN  /\ MemOk(p) /\ p.text = o.text /\ p.data = o.data /\ p.k_data = o.k_data
             /\ p.special = o.special /\ p.data_top = o.data_top
  <1> DEFINE delta == RoundUpWord(o.stack_bot - a + 4)
             old == STACK_TOP - o.stack_bot
             more == IF delta > old THEN delta ELSE old
             f == [i \in 0 .. old + more - 1 |-> IF i < more THEN 0 ELSE o.stack[i - more]]
             p == GrownFor(o, a)
  <1>1. /\ old \in Nat /\ old % 4 = 0 /\ more \in Int /\ more >= old /\ more % 4 = 0
        /\ o.stack_bot \in Int /\ o.stack_bot % 4 = 0 /\ o.stack_bot <= STACK_TOP
    <2>1. old \in Nat /\ old % 4 = 0
      BY Layout DEF MemOk, MemBounds
    <2>2. o.stack_bot - a + 4 \in Int
      BY DEF MemOk, MemBounds
    <2>3. delta \in Int /\ delta % 4 = 0
      BY <2>2, WholeWords
    <2> HIDE DEF delta, old
    <2> QED
      BY <2>1, <2>3 DEF MemOk, MemBounds
  <1>2. f \in ArrayOf(old + more)
    <2>1. 0 \in Byte /\ \A i \in 0 .. old - 1 : o.stack[i] \in Byte
      <3>1. 0 \in Byte
        BY NextPower
      <3> QED
        BY <3>1 DEF MemOk, MemContents, ArrayOf
    <2> HIDE DEF old, more
    <2>2. \A i \in 0 .. old + more - 1 : ~(i < more) => i - more \in 0 .. old - 1
      BY <1>1
    <2> DEFINE g(i) == IF i < more THEN 0 ELSE o.stack[i - more]
    <2>3. \A i \in 0 .. old + more - 1 : g(i) \in Byte
      BY <2>1, <2>2
    <2>4. f = [i \in 0 .. old + more - 1 |-> g(i)]
      OBVIOUS
    <2> DEFINE n == old + more
    <2>5. n \in Int /\ f = [i \in 0 .. n - 1 |-> g(i)] /\ \A i \in 0 .. n - 1 : g(i) \in Byte
      BY <1>1, <2>3, <2>4
    <2> HIDE DEF g, f, n
    <2>6. f \in [0 .. n - 1 -> Byte]
      BY <2>5
    <2> QED
      BY <2>6 DEF ArrayOf, n
  <1>3. p = [o EXCEPT !.stack_bot = @ - more, !.stack = f]
    BY DEF GrownFor, ExpandStack
  <1> HIDE DEF f, more, delta
  <1>4. /\ p.text = o.text /\ p.data = o.data /\ p.stack = f /\ p.k_data = o.k_data
        /\ p.special = o.special /\ p.data_top = o.data_top /\ p.stack_bot = o.stack_bot - more
        /\ p.k_data_top = o.k_data_top /\ MemFields(p)
    BY <1>3 DEF MemOk, MemFields
  <1> HIDE DEF p
  <1>5. /\ p.stack_bot \in Int /\ p.stack_bot % 4 = 0 /\ p.stack_bot <= STACK_TOP
        /\ STACK_TOP - p.stack_bot = old + more
    <2> DEFINE b == o.stack_bot
    <2>1. p.stack_bot = b - more /\ b \in Int /\ b % 4 = 0 /\ b <= STACK_TOP /\ old = STACK_TOP - b
          /\ STACK_TOP \in Int
      BY <1>1, <1>4, Layout
    <2> HIDE DEF b, old
    <2> QED
      BY <1>1, <2>1
  <1>6. MemOk(p)
    BY <1>2, <1>4, <1>5 DEF MemOk, MemBounds, MemContents
  <1> QED
    BY <1>4, <1>6 DEF p

\* Where the segments are.
LEMMA SegmentIs ==
  ASSUME NEW o, MemOk(o), NEW a \in Int, NEW s \in SegmentsAt(o, a)
  PROVE  /\ s \in {"data", "stack", "k_data", "special"}
         /\ Bottom(o)[s] \in Int /\ Top(o)[s] \in Int /\ Bottom(o)[s] % 4 = 0 /\ Top(o)[s] % 4 = 0
         /\ Bottom(o)[s] <= a /\ a < Top(o)[s]
         /\ o[s] \in ArrayOf(Top(o)[s] - Bottom(o)[s])
  <1>1. s \in {"data", "stack", "k_data", "special"} /\ Bottom(o)[s] <= a /\ a < Top(o)[s]
    BY DEF SegmentsAt, Bottom
  <1>2. CASE s = "data"
    BY <1>1, <1>2, Layout DEF Bottom, Top, MemOk, MemBounds, MemContents
  <1>3. CASE s = "stack"
    BY <1>1, <1>3, Layout DEF Bottom, Top, MemOk, MemBounds, MemContents
  <1>4. CASE s = "k_data"
    <2>1. Bottom(o)[s] = K_DATA_BOT /\ Top(o)[s] = K_DATA_BOT + K_DATA_SIZE
      BY <1>4 DEF Bottom, Top, MemOk, MemBounds
    <2>2. Top(o)[s] - Bottom(o)[s] = K_DATA_SIZE
      BY <2>1, Layout
    <2> QED
      BY <1>1, <1>4, <2>1, <2>2, Layout DEF MemOk, MemContents
  <1>5. CASE s = "special"
    BY <1>1, <1>5, Layout DEF Bottom, Top, MemOk, MemContents
  <1> QED
    BY <1>1, <1>2, <1>3, <1>4, <1>5

\* No access that is aligned reaches over the end of a segment.
LEMMA SpanInside ==
  ASSUME NEW n \in Sizes, NEW a \in Int, a % n = 0, NEW top \in Int, top % 4 = 0, a < top
  PROVE  a + n <= top
  <1>1. CASE n = 1
    BY <1>1
  <1>2. CASE n = 2
    BY <1>2
  <1>3. CASE n = 4
    BY <1>3
  <1> QED
    BY <1>1, <1>2, <1>3 DEF Sizes

Fault == [code : DOMAIN ExcCode, addr : Words]

LEMMA FaultIs ==
  ASSUME NEW f \in Fault
  PROVE  f # NoFault
  BY DEF Fault, NoFault, ExcCode

LEMMA BadFaults ==
  ASSUME NEW a \in Words, NEW code \in {"AdEL", "AdES", "DBE"}
  PROVE  [code |-> code, addr |-> a] \in Fault
  BY DEF Fault, ExcCode

\* A read gives a word, and a fault or none; memory changes by growth of the stack only.
LEMMA ReadFits ==
  ASSUME NEW o, MemOk(o), NEW a \in Words, NEW n \in Sizes
  PROVE  LET r == ReadMem(o, a, n)
         IN  /\ MemOk(r.mem) /\ r.value \in Words /\ r.fault \in Fault \cup {NoFault}
             /\ r.mem.data_top = o.data_top /\ r.mem.k_data = o.k_data
  <1>0. a \in Nat /\ a \in Int /\ 0 \in Words
    BY WordsAre
  <1>1. CASE SegmentsAt(o, a) # {} /\ a % n = 0
    <2> DEFINE s == CHOOSE x \in SegmentsAt(o, a) : TRUE
               i == a - Bottom(o)[s]
    <2>1. s \in SegmentsAt(o, a)
      BY <1>1
    <2>2. /\ Bottom(o)[s] \in Int /\ Top(o)[s] \in Int /\ Top(o)[s] % 4 = 0
          /\ Bottom(o)[s] <= a /\ a < Top(o)[s]
          /\ o[s] \in ArrayOf(Top(o)[s] - Bottom(o)[s])
      <3> HIDE DEF s
      <3> QED
        BY <1>0, <2>1, SegmentIs
    <2>3. ReadMem(o, a, n) = Done(o, SignExtend(Fetch(o[s], i, n), n * ByteBits))
      BY <1>1 DEF ReadMem
    <2> HIDE DEF s
    <2>4. a + n <= Top(o)[s]
      BY <1>0, <1>1, <2>2, SpanInside
    <2>5. \A j \in i .. i + n - 1 : o[s][j] \in Byte
      <3>1. \A j \in i .. i + n - 1 : j \in 0 .. Top(o)[s] - Bottom(o)[s] - 1
        BY <1>0, <2>2, <2>4 DEF Sizes
      <3> QED
        BY <2>2, <3>1 DEF ArrayOf
    <2>6. Fetch(o[s], i, n) \in Words
      <3>1. i \in Int /\ n \in {1, 2, 4}
        BY <1>0, <2>2 DEF Sizes
      <3> HIDE DEF i
      <3> QED
        BY <2>5, <3>1, FetchFits
    <2>7. SignExtend(Fetch(o[s], i, n), n * ByteBits) \in Words
      BY <2>6, LowFits DEF Sizes
    <2> QED
      BY <2>3, <2>7 DEF Done
  <1>2. CASE ~(SegmentsAt(o, a) # {} /\ a % n = 0)
    <2>1. ReadMem(o, a, n) = BadMemRead(o, a, n)
      BY <1>2 DEF ReadMem
    <2>2. CASE a % n # 0
      <3>1. ReadMem(o, a, n) = RaiseFault(o, "AdEL", a)
        BY <2>1, <2>2 DEF BadMemRead
      <3>2. [code |-> "AdEL", addr |-> a] \in Fault
        BY BadFaults
      <3> QED
        BY <1>0, <3>1, <3>2 DEF RaiseFault
    <2>3. CASE a % n = 0 /\ InText(a)
      <3>1. BadMemRead(o, a, n) = Done(o, Fetch(o.text, a - TEXT_BOT, n))
        BY <2>3 DEF BadMemRead
      <3>2. a + n <= TEXT_BOT + TEXT_SIZE
        <4>1. /\ TEXT_BOT + TEXT_SIZE \in Int /\ (TEXT_BOT + TEXT_SIZE) % 4 = 0
              /\ a < TEXT_BOT + TEXT_SIZE
          BY <2>3, Layout DEF InText
        <4> QED
          BY <1>0, <2>3, <4>1, SpanInside
      <3> DEFINE i == a - TEXT_BOT
      <3>3. i \in Int /\ \A j \in i .. i + n - 1 : o.text[j] \in Byte
        <4>1. \A j \in i .. i + n - 1 : j \in 0 .. TEXT_SIZE - 1
          BY <1>0, <2>3, <3>2, Layout DEF InText, Sizes
        <4>2. o.text \in ArrayOf(TEXT_SIZE)
          BY DEF MemOk, MemContents
        <4> QED
          BY <1>0, <4>1, <4>2, Layout DEF ArrayOf
      <3> HIDE DEF i
      <3>4. Fetch(o.text, i, n) \in Words
        BY <3>3, FetchFits DEF Sizes
      <3> QED
        BY <2>1, <3>1, <3>4 DEF Done, i
    <2>4. CASE a % n = 0 /\ ~InText(a)
      <3>1. MemOk(GrownFor(o, a)) /\ GrownFor(o, a).data_top = o.data_top
            /\ GrownFor(o, a).k_data = o.k_data
        BY <1>0, GrownFits
      <3>2. BadMemRead(o, a, n) \in {Done(GrownFor(o, a), 0), Done(o, 0), RaiseFault(o, "DBE", a)}
        BY <2>4 DEF BadMemRead
      <3>3. [code |-> "DBE", addr |-> a] \in Fault
        BY BadFaults
      <3> QED
        BY <1>0, <2>1, <3>1, <3>2, <3>3 DEF Done, RaiseFault
    <2> QED
      BY <2>2, <2>3, <2>4
  <1> QED
    BY <1>1, <1>2

-----------------------------------------------------------------------------
(* Writing *)

LEMMA SpecialByteFits ==
  ASSUME NEW v \in Words
  PROVE  SignExtend(v % 2^ByteBits, ByteBits) \in Words
  <1>1. ByteBits \in 1 .. WordBits /\ ByteBits \in 0 .. WordBits
    BY Widths
  <1>2. 2^ByteBits \in Nat \ {0}
    BY <1>1, PowerOfTwo
  <1>3. v % 2^ByteBits \in Int
    BY <1>2, WordsAre
  <1> QED
    BY <1>1, <1>3, SignedType, WordFits DEF SignExtend

\* A store keeps the memory's type, whether it faults or not.
LEMMA WriteFits ==
  ASSUME NEW o, MemOk(o), NEW a \in Words, NEW v \in Words, NEW n \in Sizes
  PROVE  LET r == SetMem(o, a, v, n)
         IN  MemOk(r.mem) /\ r.fault \in Fault \cup {NoFault}
  <1>0. a \in Nat /\ a \in Int /\ v \in Nat
    BY WordsAre
  <1>1. CASE SegmentsAt(o, a) # {} /\ a % n = 0
    <2> DEFINE s == CHOOSE x \in SegmentsAt(o, a) : TRUE
               i == a - Bottom(o)[s]
               p == IF n = 1 /\ s = "special" THEN SpecialByte(o, i, v) ELSE PutAt(o, s, i, n, v)
    <2>1. s \in SegmentsAt(o, a)
      BY <1>1
    <2>2. SetMem(o, a, v, n) = Done(p, 0)
      BY <1>1 DEF SetMem
    <2> HIDE DEF s
    <2>3. Bottom(o)[s] \in Int /\ s \in {"data", "stack", "k_data", "special"}
      BY <1>0, <2>1, SegmentIs
    <2>4. i \in Int /\ i * BYTES_PER_WORD \in Int /\ BYTES_PER_WORD \in Sizes
      BY <1>0, <2>3 DEF BYTES_PER_WORD, Sizes
    <2> HIDE DEF i
    <2>5. MemOk(PutAt(o, s, i, n, v))
      BY <1>0, <2>3, <2>4, PutFits
    <2>6. MemOk(SpecialByte(o, i, v))
      <3> DEFINE w == SignExtend(v % 2^ByteBits, ByteBits)
      <3>1. w \in Nat
        BY SpecialByteFits, WordsAre
      <3> HIDE DEF w
      <3>2. MemOk(PutAt(o, "special", i * BYTES_PER_WORD, BYTES_PER_WORD, w))
        BY <2>4, <3>1, PutFits
      <3> QED
        BY <3>2 DEF SpecialByte, w
    <2>7. MemOk(p)
      BY <2>5, <2>6
    <2> HIDE DEF p
    <2> QED
      BY <2>2, <2>7 DEF Done
  <1>2. CASE ~(SegmentsAt(o, a) # {} /\ a % n = 0)
    <2>1. SetMem(o, a, v, n) = BadMemWrite(o, a, v, n)
      BY <1>2 DEF SetMem
    <2> DEFINE g == GrownFor(o, a)
               p == PutAt(o, "text", a - TEXT_BOT, n, v)
               q == PutAt(g, "stack", a - g.stack_bot, n, v)
    <2>2. MemOk(g)
      BY <1>0, GrownFits
    <2>3. MemOk(p)
      <3>1. a - TEXT_BOT \in Int
        BY <1>0, Layout
      <3> QED
        BY <1>0, <3>1, PutFits
    <2> HIDE DEF g
    <2>4. MemOk(q)
      <3>1. a - g.stack_bot \in Int
        BY <1>0, <2>2 DEF MemOk, MemBounds
      <3> QED
        BY <1>0, <2>2, <3>1, PutFits
    <2> HIDE DEF p, q
    <2>5. /\ [code |-> "AdES", addr |-> a] \in Fault /\ [code |-> "DBE", addr |-> a] \in Fault
      BY BadFaults
    <2>6. BadMemWrite(o, a, v, n) \in
            {RaiseFault(o, "AdES", a), RaiseFault(o, "DBE", a), Done(p, 0), Done(q, 0), Done(o, 0)}
      BY DEF BadMemWrite, g, p, q
    <2> QED
      BY <2>1, <2>3, <2>4, <2>5, <2>6 DEF Done, RaiseFault
  <1> QED
    BY <1>1, <1>2

-----------------------------------------------------------------------------
(* Two memories that differ in the kernel's data only *)

Shared == {"text", "data", "stack", "special", "data_top", "stack_bot"}
\* The program's part of two memories is the same.
MemLike(o, q) == \A s \in Shared : o[s] = q[s]

InKernelData(a) == a \in K_DATA_BOT .. K_DATA_BOT + K_DATA_SIZE - 1

LEMMA SegmentsLike ==
  ASSUME NEW o, NEW q, MemOk(o), MemOk(q), MemLike(o, q), NEW a \in Nat, ~InKernelData(a)
  PROVE  /\ SegmentsAt(o, a) = SegmentsAt(q, a) /\ SegmentsAt(o, a) \subseteq {"data", "stack", "special"}
         /\ \A s \in {"data", "stack", "special"} : Bottom(o)[s] = Bottom(q)[s] /\ o[s] = q[s]
  <1>1. /\ o.data_top = q.data_top /\ o.stack_bot = q.stack_bot
        /\ o.data = q.data /\ o.stack = q.stack /\ o.special = q.special
    BY DEF MemLike, Shared
  <1>2. \A s \in {"data", "stack", "special"} :
          Bottom(o)[s] = Bottom(q)[s] /\ Top(o)[s] = Top(q)[s] /\ o[s] = q[s]
    BY <1>1 DEF Bottom, Top
  <1>3. \A p \in {o, q} : ~(Bottom(p)["k_data"] <= a /\ a < Top(p)["k_data"])
    BY Layout DEF Bottom, Top, MemOk, MemBounds, InKernelData
  <1>4. DOMAIN Bottom(o) = {"data", "stack", "special", "k_data"}
        /\ DOMAIN Bottom(q) = {"data", "stack", "special", "k_data"}
    BY DEF Bottom
  <1> QED
    BY <1>2, <1>3, <1>4 DEF SegmentsAt

LEMMA GrownLike ==
  ASSUME NEW o, NEW q, MemOk(o), MemOk(q), MemLike(o, q), NEW a \in Int
  PROVE  MemLike(GrownFor(o, a), GrownFor(q, a)) /\ (GrowsStack(o, a) <=> GrowsStack(q, a))
  <1>1. /\ o.data_top = q.data_top /\ o.stack_bot = q.stack_bot /\ o.text = q.text
        /\ o.data = q.data /\ o.stack = q.stack /\ o.special = q.special
    BY DEF MemLike, Shared
  <1> DEFINE delta == RoundUpWord(o.stack_bot - a + 4)
             old == STACK_TOP - o.stack_bot
             more == IF delta > old THEN delta ELSE old
             f == [i \in 0 .. old + more - 1 |-> IF i < more THEN 0 ELSE o.stack[i - more]]
  <1>2. /\ GrownFor(o, a) = [o EXCEPT !.stack_bot = @ - more, !.stack = f]
        /\ GrownFor(q, a) = [q EXCEPT !.stack_bot = @ - more, !.stack = f]
    BY <1>1 DEF GrownFor, ExpandStack
  <1> HIDE DEF f, more
  <1>3. /\ GrownFor(o, a).stack_bot = o.stack_bot - more /\ GrownFor(o, a).stack = f
        /\ GrownFor(q, a).stack_bot = o.stack_bot - more /\ GrownFor(q, a).stack = f
    BY <1>1, <1>2 DEF MemOk, MemFields
  <1>4. GrowsStack(o, a) <=> GrowsStack(q, a)
    BY <1>1 DEF GrowsStack
  <1>5. \A p \in {o, q} : GrownFor(p, a).text = p.text /\ GrownFor(p, a).data = p.data
                          /\ GrownFor(p, a).special = p.special /\ GrownFor(p, a).data_top = p.data_top
    BY GrownFits
  <1> QED
    BY <1>1, <1>3, <1>4, <1>5 DEF MemLike, Shared

\* An access that is not to the kernel's data does the same in two such memories.
LEMMA ReadLike ==
  ASSUME NEW o, NEW q, MemOk(o), MemOk(q), MemLike(o, q), NEW a \in Words, ~InKernelData(a),
         NEW n \in Sizes
  PROVE  LET r == ReadMem(o, a, n)
             t == ReadMem(q, a, n)
         IN  r.value = t.value /\ r.fault = t.fault /\ MemLike(r.mem, t.mem)
  <1>0. a \in Nat /\ a \in Int
    BY WordsAre
  <1>1. /\ SegmentsAt(o, a) = SegmentsAt(q, a)
        /\ SegmentsAt(o, a) \subseteq {"data", "stack", "special"}
        /\ \A s \in {"data", "stack", "special"} : Bottom(o)[s] = Bottom(q)[s] /\ o[s] = q[s]
    BY <1>0, SegmentsLike
  <1>2. CASE SegmentsAt(o, a) # {} /\ a % n = 0
    <2> DEFINE s == CHOOSE x \in SegmentsAt(o, a) : TRUE
               v == SignExtend(Fetch(o[s], a - Bottom(o)[s], n), n * ByteBits)
    <2>1. s \in {"data", "stack", "special"}
      BY <1>1, <1>2
    <2>2. ReadMem(o, a, n) = Done(o, v)
      BY <1>2 DEF ReadMem
    <2>3. ReadMem(q, a, n) = Done(q, v)
      <3>1. /\ s = CHOOSE x \in SegmentsAt(q, a) : TRUE
            /\ SegmentsAt(q, a) # {}
        BY <1>1, <1>2
      <3>2. ReadMem(q, a, n) = Done(q, SignExtend(Fetch(q[s], a - Bottom(q)[s], n), n * ByteBits))
        BY <1>2, <3>1 DEF ReadMem
      <3> HIDE DEF s
      <3> QED
        BY <1>1, <2>1, <3>2
    <2> HIDE DEF v
    <2> QED
      BY <2>2, <2>3 DEF Done
  <1>3. CASE ~(SegmentsAt(o, a) # {} /\ a % n = 0)
    <2>1. ReadMem(o, a, n) = BadMemRead(o, a, n) /\ ReadMem(q, a, n) = BadMemRead(q, a, n)
      BY <1>1, <1>3 DEF ReadMem
    <2>2. MemLike(GrownFor(o, a), GrownFor(q, a)) /\ (GrowsStack(o, a) <=> GrowsStack(q, a))
      BY <1>0, GrownLike
    <2>3. o.text = q.text
      BY DEF MemLike, Shared
    <2> QED
      BY <2>1, <2>2, <2>3 DEF BadMemRead, Done, RaiseFault
  <1> QED
    BY <1>2, <1>3

LEMMA PutLike ==
  ASSUME NEW o, NEW q, MemOk(o), MemOk(q), MemLike(o, q), NEW s \in {"text", "data", "stack", "special"},
         NEW i \in Int, NEW n \in Sizes, NEW v \in Nat
  PROVE  MemLike(PutAt(o, s, i, n, v), PutAt(q, s, i, n, v))
  <1>1. \A t \in Shared : o[t] = q[t]
    BY DEF MemLike
  <1>2. s \in Shared /\ s \in {"text", "data", "stack", "k_data", "special"}
    BY DEF Shared
  <1>3. \A p \in {o, q} : PutAt(p, s, i, n, v)[s] = Put(p[s], i, n, v)
                          /\ \A t \in Shared \ {s} : PutAt(p, s, i, n, v)[t] = p[t]
    <2> SUFFICES ASSUME NEW p, MemOk(p)
                 PROVE  PutAt(p, s, i, n, v)[s] = Put(p[s], i, n, v)
                        /\ \A t \in Shared \ {s} : PutAt(p, s, i, n, v)[t] = p[t]
      OBVIOUS
    <2>1. PutAt(p, s, i, n, v)[s] = Put(p[s], i, n, v)
      BY <1>2, PutParts
    <2>2. \A t \in MemParts : t # s => PutAt(p, s, i, n, v)[t] = p[t]
      BY <1>2, PutParts
    <2> QED
      BY <2>1, <2>2 DEF Shared, MemParts
  <1> QED
    BY <1>1, <1>2, <1>3 DEF MemLike

\* A store too.
LEMMA WriteLike ==
  ASSUME NEW o, NEW q, MemOk(o), MemOk(q), MemLike(o, q), NEW a \in Words, ~InKernelData(a),
         NEW v \in Words, NEW n \in Sizes
  PROVE  LET r == SetMem(o, a, v, n)
             t == SetMem(q, a, v, n)
         IN  r.fault = t.fault /\ MemLike(r.mem, t.mem)
  <1>0. a \in Nat /\ a \in Int /\ v \in Nat
    BY WordsAre
  <1>1. /\ SegmentsAt(o, a) = SegmentsAt(q, a)
        /\ SegmentsAt(o, a) \subseteq {"data", "stack", "special"}
        /\ \A s \in {"data", "stack", "special"} : Bottom(o)[s] = Bottom(q)[s] /\ o[s] = q[s]
    BY <1>0, SegmentsLike
  <1>2. CASE SegmentsAt(o, a) # {} /\ a % n = 0
    <2> DEFINE s == CHOOSE x \in SegmentsAt(o, a) : TRUE
               i == a - Bottom(o)[s]
               p(x) == IF n = 1 /\ s = "special" THEN SpecialByte(x, i, v) ELSE PutAt(x, s, i, n, v)
    <2>1. s \in {"data", "stack", "special"} /\ s \in SegmentsAt(o, a)
      BY <1>1, <1>2
    <2>2. SetMem(o, a, v, n) = Done(p(o), 0)
      BY <1>2 DEF SetMem
    <2>3. SetMem(q, a, v, n) = Done(p(q), 0)
      <3> DEFINE z == CHOOSE x \in SegmentsAt(q, a) : TRUE
                 j == a - Bottom(q)[z]
      <3>1. s = z /\ SegmentsAt(q, a) # {}
        BY <1>1, <1>2
      <3>2. SetMem(q, a, v, n) =
              Done(IF n = 1 /\ z = "special" THEN SpecialByte(q, j, v) ELSE PutAt(q, z, j, n, v), 0)
        BY <1>2, <3>1 DEF SetMem
      <3> HIDE DEF s, z
      <3>3. i = j
        BY <1>1, <2>1, <3>1
      <3> HIDE DEF i, j
      <3> QED
        BY <3>1, <3>2, <3>3
    <2> HIDE DEF s
    <2>4. i \in Int /\ i * BYTES_PER_WORD \in Int /\ BYTES_PER_WORD \in Sizes
      <3>1. Bottom(o)[s] \in Int
        BY <1>0, <2>1, SegmentIs
      <3> QED
        BY <1>0, <3>1 DEF BYTES_PER_WORD, Sizes
    <2> HIDE DEF i
    <2>5. MemLike(PutAt(o, s, i, n, v), PutAt(q, s, i, n, v))
      BY <1>0, <2>1, <2>4, PutLike
    <2>6. MemLike(SpecialByte(o, i, v), SpecialByte(q, i, v))
      <3> DEFINE w == SignExtend(v % 2^ByteBits, ByteBits)
                 b == BYTES_PER_WORD
                 k == i * b
      <3>1. w \in Nat /\ k \in Int /\ b \in Sizes
        BY <2>4, SpecialByteFits, WordsAre
      <3>2. /\ SpecialByte(o, i, v) = PutAt(o, "special", k, b, w)
            /\ SpecialByte(q, i, v) = PutAt(q, "special", k, b, w)
        BY DEF SpecialByte
      <3> HIDE DEF w, k, b
      <3> QED
        BY <3>1, <3>2, PutLike
    <2>7. MemLike(p(o), p(q))
      BY <2>5, <2>6
    <2> HIDE DEF p
    <2> QED
      BY <2>2, <2>3, <2>7 DEF Done
  <1>3. CASE ~(SegmentsAt(o, a) # {} /\ a % n = 0)
    <2>1. /\ SetMem(o, a, v, n) = BadMemWrite(o, a, v, n)
          /\ SetMem(q, a, v, n) = BadMemWrite(q, a, v, n)
      BY <1>1, <1>3 DEF SetMem
    <2> DEFINE g(x) == GrownFor(x, a)
               p(x) == PutAt(x, "text", a - TEXT_BOT, n, v)
               u(x) == PutAt(g(x), "stack", a - g(x).stack_bot, n, v)
    <2>2. MemLike(g(o), g(q)) /\ (GrowsStack(o, a) <=> GrowsStack(q, a)) /\ MemOk(g(o)) /\ MemOk(g(q))
      BY <1>0, GrownLike, GrownFits
    <2>3. MemLike(p(o), p(q))
      <3>1. a - TEXT_BOT \in Int
        BY <1>0, Layout
      <3> QED
        BY <1>0, <3>1, PutLike
    <2> HIDE DEF g
    <2>4. MemLike(u(o), u(q))
      <3>1. g(o).stack_bot = g(q).stack_bot /\ a - g(o).stack_bot \in Int
        BY <1>0, <2>2 DEF MemOk, MemBounds, MemLike, Shared
      <3>2. MemLike(PutAt(g(o), "stack", a - g(o).stack_bot, n, v),
                    PutAt(g(q), "stack", a - g(o).stack_bot, n, v))
        BY <1>0, <2>2, <3>1, PutLike
      <3> QED
        BY <3>1, <3>2
    <2>5. \A x \in {o, q} :
            BadMemWrite(x, a, v, n) =
              IF a % n # 0 THEN RaiseFault(x, "AdES", a)
              ELSE IF InText(a) THEN Done(p(x), 0)
              ELSE IF GrowsStack(x, a) THEN Done(u(x), 0)
              ELSE IF a \in MM_IO_BOT .. MM_IO_TOP THEN Done(x, 0)
              ELSE RaiseFault(x, "DBE", a)
      BY DEF BadMemWrite, g
    <2> HIDE DEF p, u
    <2> QED
      BY <2>1, <2>2, <2>3, <2>4, <2>5 DEF Done, RaiseFault
  <1> QED
    BY <1>2, <1>3

-----------------------------------------------------------------------------
(* The machine *)

Cp0Names == {"Status", "Cause", "EPC", "BadVAddr", "Compare"}
Cp0s == [Cp0Names -> Words]

MachFields(a) == a \in [R : {a.R}, hilo : {a.hilo}, cp0 : {a.cp0}, PC : {a.PC}, mem : {a.mem}]
\* The type of a machine.
MachOk(a) ==
  /\ MachFields(a)
  /\ a.R \in [AllRegs -> Words] /\ a.hilo \in Pairs /\ a.cp0 \in Cp0s /\ a.PC \in Words
  /\ MemOk(a.mem)

\* An instruction raises nothing, one exception or two.
FaultLists == {<<>>} \cup {<<f>> : f \in Fault} \cup (Fault \X Fault)

-----------------------------------------------------------------------------
(* RaiseAll *)

RaiseFold(f, s, q, k) ==
  f = [t \in SUBSET (1 .. k) |-> IF t = {} THEN s ELSE Raise(f[t \ {Max(t)}], q[Max(t)])]

LEMMA MaxOfFirst ==
  ASSUME NEW k \in Nat, NEW t \in SUBSET (1 .. k), k \in t
  PROVE  Max(t) = k
  <1>1. \A y \in t : k >= y
    OBVIOUS
  <1>2. \A x \in t : (\A y \in t : x >= y) => x = k
    OBVIOUS
  <1> QED
    BY <1>1, <1>2 DEF Max

LEMMA OneToNothing == 1 .. 0 = {}
  OBVIOUS

LEMMA RaiseFoldExists ==
  ASSUME NEW s, NEW q, NEW n \in Nat
  PROVE  \E f : RaiseFold(f, s, q, n)
  <1> DEFINE T == {k \in Nat : ~ \E f : RaiseFold(f, s, q, k)}
  <1> SUFFICES ASSUME T # {} PROVE FALSE
    OBVIOUS
  <1>1. PICK k \in T : \A l \in T : k <= l
    BY LeastOf
  <1>2. k # 0
    <2>1. RaiseFold([t \in {{}} |-> s], s, q, 0)
      BY OneToNothing DEF RaiseFold
    <2> QED
      BY <2>1
  <1>3. k - 1 \in Nat /\ k - 1 \notin T
    BY <1>1, <1>2
  <1>4. PICK f : RaiseFold(f, s, q, k - 1)
    BY <1>3
  <1> DEFINE g == [t \in SUBSET (1 .. k) |-> IF k \in t THEN Raise(f[t \ {k}], q[k]) ELSE f[t]]
  <1>5. ASSUME NEW t \in SUBSET (1 .. k)
        PROVE  g[t] = IF t = {} THEN s ELSE Raise(g[t \ {Max(t)}], q[Max(t)])
    <2>1. CASE k \in t
      <3>1. Max(t) = k
        BY <2>1, MaxOfFirst
      <3>2. t \ {k} \in SUBSET (1 .. k) /\ k \notin t \ {k}
        OBVIOUS
      <3> QED
        BY <2>1, <3>1, <3>2
    <2>2. CASE k \notin t
      <3>1. t \in SUBSET (1 .. k - 1)
        BY <2>2
      <3>2. f[t] = IF t = {} THEN s ELSE Raise(f[t \ {Max(t)}], q[Max(t)])
        BY <1>4, <3>1 DEF RaiseFold
      <3>3. g[t \ {Max(t)}] = f[t \ {Max(t)}]
        BY <2>2
      <3> QED
        BY <2>2, <3>2, <3>3
    <2> QED
      BY <2>1, <2>2
  <1>6. RaiseFold(g, s, q, k)
    BY <1>5 DEF RaiseFold
  <1> QED
    BY <1>6

RaisesInTurn(s, q, n) ==
  \E f : /\ RaiseAll(s, q) = f[1 .. n] /\ f[1 .. 0] = s
        /\ \A k \in 1 .. n : f[1 .. k] = Raise(f[1 .. k-1], q[k])

\* FoldLeft over a list of exceptions raises one after the other.
LEMMA RaiseAllSteps ==
  ASSUME NEW s, NEW n \in Nat, NEW q, DOMAIN q = 1 .. n
  PROVE  RaisesInTurn(s, q, n)
  <1> DEFINE f == CHOOSE f : RaiseFold(f, s, q, n)
  <1>2. RaiseFold(f, s, q, n)
    BY RaiseFoldExists
  <1>3. RaiseAll(s, q) = f[1 .. n]
    BY Zenon DEF RaiseAll, FoldLeft, MapThenFoldSet, RaiseFold
  <1> HIDE DEF f
  <1>4. f[1 .. 0] = s
    BY <1>2, OneToNothing DEF RaiseFold
  <1>5. ASSUME NEW k \in 1 .. n PROVE f[1 .. k] = Raise(f[1 .. k-1], q[k])
    <2>1. Max(1 .. k) = k
      BY MaxOfFirst
    <2>2. (1 .. k) \ {k} = 1 .. k-1
      OBVIOUS
    <2>3. 1 .. k \in SUBSET (1 .. n) /\ 1 .. k # {}
      <3>1. k \in 1 .. k
        OBVIOUS
      <3>2. 1 .. k \subseteq 1 .. n
        OBVIOUS
      <3> QED
        BY <3>1, <3>2
    <2> QED
      BY <1>2, <2>1, <2>2, <2>3 DEF RaiseFold
  <1> QED
    BY <1>3, <1>4, <1>5 DEF RaisesInTurn

LEMMA RaiseFirst ==
  ASSUME NEW s, NEW q, DOMAIN q = 1 .. 1
  PROVE  RaiseAll(s, q) = Raise(s, q[1])
  <1>1. PICK f : /\ RaiseAll(s, q) = f[1 .. 1] /\ f[1 .. 0] = s
                 /\ \A k \in 1 .. 1 : f[1 .. k] = Raise(f[1 .. k-1], q[k])
    <2> DEFINE n == 1
    <2>1. n \in Nat /\ DOMAIN q = 1 .. n
      OBVIOUS
    <2> HIDE DEF n
    <2>2. RaisesInTurn(s, q, n)
      BY <2>1, RaiseAllSteps
    <2> QED
      BY <2>2 DEF n, RaisesInTurn
  <1>2. f[1 .. 1] = Raise(f[1 .. 1-1], q[1]) /\ 1 - 1 = 0
    BY <1>1
  <1> QED
    BY <1>1, <1>2

LEMMA RaiseBoth ==
  ASSUME NEW s, NEW q, DOMAIN q = 1 .. 2
  PROVE  RaiseAll(s, q) = Raise(Raise(s, q[1]), q[2])
  <1>1. PICK f : /\ RaiseAll(s, q) = f[1 .. 2] /\ f[1 .. 0] = s
                 /\ \A k \in 1 .. 2 : f[1 .. k] = Raise(f[1 .. k-1], q[k])
    <2> DEFINE n == 2
    <2>1. n \in Nat /\ DOMAIN q = 1 .. n
      OBVIOUS
    <2> HIDE DEF n
    <2>2. RaisesInTurn(s, q, n)
      BY <2>1, RaiseAllSteps
    <2> QED
      BY <2>2 DEF n, RaisesInTurn
  <1>2. f[1 .. 1] = Raise(f[1 .. 1-1], q[1]) /\ f[1 .. 2] = Raise(f[1 .. 2-1], q[2])
    BY <1>1
  <1>3. 1 - 1 = 0 /\ 2 - 1 = 1
    OBVIOUS
  <1> QED
    BY <1>1, <1>2, <1>3

LEMMA RaiseOnce ==
  ASSUME NEW s, NEW a, NEW q, q = <<a>>
  PROVE  RaiseAll(s, q) = Raise(s, a)
  <1>1. DOMAIN q = 1 .. 1 /\ q[1] = a
    OBVIOUS
  <1> QED
    BY Zenon, <1>1, RaiseFirst

LEMMA RaiseTwice ==
  ASSUME NEW s, NEW a, NEW b, NEW q, q = <<a, b>>
  PROVE  RaiseAll(s, q) = Raise(Raise(s, a), b)
  <1>1. DOMAIN q = 1 .. 2 /\ q[1] = a /\ q[2] = b
    OBVIOUS
  <1> QED
    BY Zenon, <1>1, RaiseBoth

-----------------------------------------------------------------------------
(* An exception is raised *)

\* Only cp0 changes; EPC is that of the first exception.

\* EXL is the second bit of Status.
LEMMA InHandlerIs ==
  ASSUME NEW c \in Cp0s
  PROVE  /\ c.Status \in Words /\ c.Status \in Nat /\ c.EPC \in Words /\ c.Cause \in Words
         /\ InHandler(c) <=> Second(c.Status) = 1
  <1>1. c.Status \in Words /\ c.EPC \in Words /\ c.Cause \in Words
    BY DEF Cp0s, Cp0Names
  <1>2. c.Status \in Nat
    BY <1>1, WordsAre
  <1>3. BitAnd(c.Status, 2) = 2 * Second(c.Status) /\ Second(c.Status) \in 0 .. 1
    BY <1>2, SecondIs
  <1> QED
    BY <1>1, <1>2, <1>3 DEF InHandler, EXL

\* Setting EXL sets it.
LEMMA EnterOn ==
  ASSUME NEW x \in Words
  PROVE  BitOr(x, EXL) \in Words /\ Second(BitOr(x, EXL)) = 1
  <1>1. 2 \in Words /\ x \in Nat
    BY Tops, WordsAre
  <1>2. BitAnd(x, 2) = 2 * Second(x) /\ Second(x) \in 0 .. 1
    BY <1>1, SecondIs
  <1>3. BitOr(x, 2) = x + 2 - 2 * Second(x)
    BY <1>2 DEF BitOr, BitAnd
  <1>4. x \div 2 \in Nat /\ (x + 2) \div 2 = x \div 2 + 1
    BY <1>1
  <1>5. Second(x) = 0 => Second(x + 2) = 1
    BY <1>4 DEF Second
  <1>6. Second(BitOr(x, 2)) = 1
    <2>1. CASE Second(x) = 0
      BY <1>1, <1>3, <1>5, <2>1
    <2>2. CASE Second(x) = 1
      BY <1>1, <1>3, <2>2
    <2> QED
      BY <1>2, <2>1, <2>2
  <1> QED
    BY <1>1, <1>6, BitWords DEF EXL

\* Cause stays a word when the code of an exception is written into it.
LEMMA CauseFits ==
  ASSUME NEW x \in Words, NEW c \in DOMAIN ExcCode
  PROVE  BitAnd(x, BitNot(ExcCodeBits)) + 4 * ExcCode[c] \in Words
  <1>1. ExcCode[c] \in 0 .. 13
    BY DEF ExcCode
  <1>2. BitNot(124) = W - 125 /\ W - 125 \in Nat /\ x \in Nat
    <2>1. x \in Nat
      BY WordsAre
    <2>2. W \in Nat /\ W >= 128
      BY Tops
    <2>3. BitNot(124) = W - 125
      <3>1. BitNot(124) = W - 1 - 124
        BY DEF BitNot, W
      <3> QED
        BY <2>2, <3>1
    <2> QED
      BY <2>1, <2>2, <2>3
  <1> DEFINE y == BitNot(124)
  <1>3. And[x][y] <= y /\ And[x][y] \in Nat /\ y = W - 125
    BY <1>2, AndBelow, AndIs
  <1> HIDE DEF y
  <1>4. And[x][y] + 4 * ExcCode[c] \in 0 .. W - 1
    BY <1>1, <1>2, <1>3, Tops
  <1> QED
    BY <1>4, WordsAre DEF y, BitAnd, ExcCodeBits

\* raise_exception changes cp0 only.
LEMMA RaiseParts ==
  ASSUME NEW a, MachOk(a), NEW f \in Fault
  PROVE  LET r == Raise(a, f)
         IN  /\ MachFields(r) /\ r.R = a.R /\ r.hilo = a.hilo /\ r.PC = a.PC /\ r.mem = a.mem
             /\ r.cp0 \in Cp0s
             /\ r.cp0.EPC = IF InHandler(a.cp0) THEN a.cp0.EPC ELSE RoundDown(a.PC)
             /\ InHandler(r.cp0)
  <1> DEFINE c == a.cp0
             d == [c EXCEPT !.EPC = IF InHandler(c) THEN @ ELSE RoundDown(a.PC),
                            !.Cause = BitAnd(@, BitNot(ExcCodeBits)) + 4 * ExcCode[f.code],
                            !.Status = BitOr(@, EXL),
                            !.BadVAddr = f.addr]
             r == Raise(a, f)
  <1>1. MachFields(a) /\ c \in Cp0s /\ a.PC \in Words
    BY DEF MachOk
  <1>2. r = [a EXCEPT !.cp0 = d]
    <2>1. DOMAIN a = {"R", "hilo", "cp0", "PC", "mem"}
      BY <1>1 DEF MachFields
    <2> QED
      BY <2>1, <1>1 DEF Raise, MachFields, Cp0s, Cp0Names
  <1>3. f.code \in DOMAIN ExcCode /\ f.addr \in Words
    BY DEF Fault
  <1>4. RoundDown(a.PC) \in Words
    <2>1. a.PC \in Int /\ a.PC \in 0 .. W - 1
      BY <1>1, WordsAre
    <2>2. RoundDown(a.PC) \in Nat /\ RoundDown(a.PC) <= a.PC
      BY <2>1, WholeWords
    <2> QED
      <3>1. W \in Nat
        BY Tops
      <3>2. RoundDown(a.PC) \in 0 .. W - 1
        BY <2>1, <2>2, <3>1
      <3> QED
        BY <3>2, WordsAre
  <1>5. /\ BitOr(c.Status, EXL) \in Words /\ Second(BitOr(c.Status, EXL)) = 1
        /\ BitAnd(c.Cause, BitNot(ExcCodeBits)) + 4 * ExcCode[f.code] \in Words
        /\ c.EPC \in Words
    BY <1>1, <1>3, EnterOn, CauseFits, InHandlerIs
  <1> DEFINE s == BitOr(c.Status, EXL)
             u == BitAnd(c.Cause, BitNot(ExcCodeBits)) + 4 * ExcCode[f.code]
             e == IF InHandler(c) THEN c.EPC ELSE RoundDown(a.PC)
  <1>6. d = [c EXCEPT !.EPC = e, !.Cause = u, !.Status = s, !.BadVAddr = f.addr]
    BY <1>1 DEF Cp0s, Cp0Names
  <1>7. e \in Words /\ u \in Words /\ s \in Words /\ f.addr \in Words
    BY <1>3, <1>4, <1>5
  <1> HIDE DEF d, s, u, e
  <1>8. d \in Cp0s /\ d.EPC = e /\ d.Status = s
    BY <1>1, <1>6, <1>7 DEF Cp0s, Cp0Names
  <1> HIDE DEF c
  <1>9. MachFields(r) /\ r.R = a.R /\ r.hilo = a.hilo /\ r.PC = a.PC /\ r.mem = a.mem /\ r.cp0 = d
    BY <1>1, <1>2 DEF MachFields
  <1>10. InHandler(d)
    BY <1>5, <1>8, InHandlerIs DEF s
  <1> QED
    BY <1>8, <1>9, <1>10 DEF e, c

LEMMA RaiseFits ==
  ASSUME NEW a, MachOk(a), NEW f \in Fault
  PROVE  MachOk(Raise(a, f))
  <1> DEFINE r == Raise(a, f)
  <1>1. /\ MachFields(r) /\ r.R = a.R /\ r.hilo = a.hilo /\ r.PC = a.PC /\ r.mem = a.mem
        /\ r.cp0 \in Cp0s
    BY RaiseParts
  <1> HIDE DEF r
  <1> QED
    BY <1>1 DEF MachOk, r

-----------------------------------------------------------------------------
(* Effects *)

\* Good: an effect on a machine of the right type.  Same: two effects that the program
\* cannot tell apart.

LEMMA MachParts ==
  ASSUME NEW a, MachOk(a)
  PROVE  /\ a.R \in [AllRegs -> Words] /\ a.hilo \in Pairs /\ a.cp0 \in Cp0s /\ a.PC \in Words
         /\ MemOk(a.mem) /\ MachFields(a) /\ a.PC \in Nat
  BY WordsAre DEF MachOk

LEMMA NextFits ==
  ASSUME NEW a \in Words
  PROVE  Word(a + BYTES_PER_WORD) \in Words /\ Word(a + 2 * BYTES_PER_WORD) \in Words
  <1>1. a + 4 \in Int /\ a + 2 * 4 \in Int
    BY WordsAre
  <1> QED
    BY <1>1, WordFits DEF BYTES_PER_WORD

\* What an effect is: a machine, where it goes on, what it raised, and whether the step is left.
Eff(mm, n, q, l) == [m |-> mm, next |-> n, faults |-> q, leave |-> l]

\* An effect of the right type on a: it keeps PC, Status and EPC, goes on at the next
\* instruction when it raises something, and leaves the machine alone when it leaves the step.
Good(a, e) ==
  /\ MachOk(e.m) /\ e.next \in Words /\ e.faults \in FaultLists /\ e.leave \in BOOLEAN
  /\ e.m.PC = a.PC /\ e.m.cp0.Status = a.cp0.Status /\ e.m.cp0.EPC = a.cp0.EPC
  /\ e.faults # <<>> => e.next = Word(a.PC + BYTES_PER_WORD)
  /\ e.leave => e.m = a

\* The registers that an instruction of the program may name.
Own == UserRegs \cup {"zero"}
\* Two machines that the program cannot tell apart.
Alike(a, b) ==
  /\ a.PC = b.PC /\ a.hilo = b.hilo /\ MemLike(a.mem, b.mem)
  /\ \A x \in Own : a.R[x] = b.R[x]

\* Two effects that it cannot tell apart.
Same(e, f) ==
  /\ Alike(e.m, f.m) /\ e.next = f.next /\ e.leave = f.leave
  /\ e.faults = <<>> <=> f.faults = <<>>

LEMMA OwnIs == Own \subseteq AllRegs /\ {"at", "v0", "a0", "ra", "zero"} \subseteq Own
  BY ProgramsAssumption DEF Own, AllRegs

LEMMA EffIs ==
  ASSUME NEW mm, NEW n, NEW q, NEW l
  PROVE  LET e == Eff(mm, n, q, l) IN e.m = mm /\ e.next = n /\ e.faults = q /\ e.leave = l
  BY DEF Eff

LEMMA WithReg ==
  ASSUME NEW a, MachOk(a), NEW r \in AllRegs, NEW v
  PROVE  LET p == [a EXCEPT !.R[r] = v]
         IN  /\ MachFields(p) /\ p.R = [a.R EXCEPT ![r] = v] /\ p.hilo = a.hilo /\ p.cp0 = a.cp0
             /\ p.PC = a.PC /\ p.mem = a.mem
             /\ p.R[r] = v /\ \A x \in AllRegs : x # r => p.R[x] = a.R[x]
  <1>1. MachFields(a) /\ a.R \in [AllRegs -> Words]
    BY MachParts
  <1> DEFINE p == [a EXCEPT !.R[r] = v]
  <1>2. /\ MachFields(p) /\ p.R = [a.R EXCEPT ![r] = v] /\ p.hilo = a.hilo /\ p.cp0 = a.cp0
        /\ p.PC = a.PC /\ p.mem = a.mem
    BY <1>1 DEF MachFields
  <1> HIDE DEF p
  <1> QED
    BY <1>1, <1>2 DEF p

LEMMA WithRegFits ==
  ASSUME NEW a, MachOk(a), NEW r \in AllRegs, NEW v \in Words
  PROVE  MachOk([a EXCEPT !.R[r] = v])
  <1> DEFINE p == [a EXCEPT !.R[r] = v]
  <1>1. /\ MachFields(p) /\ p.R = [a.R EXCEPT ![r] = v] /\ p.hilo = a.hilo /\ p.cp0 = a.cp0
        /\ p.PC = a.PC /\ p.mem = a.mem
    BY WithReg
  <1> HIDE DEF p
  <1>2. p.R \in [AllRegs -> Words]
    BY <1>1 DEF MachOk
  <1> QED
    BY <1>1, <1>2 DEF MachOk, p

LEMMA WithRegAlike ==
  ASSUME NEW a, NEW b, MachOk(a), MachOk(b), Alike(a, b), NEW r \in AllRegs, NEW v
  PROVE  Alike([a EXCEPT !.R[r] = v], [b EXCEPT !.R[r] = v])
  <1> DEFINE p(x) == [x EXCEPT !.R[r] = v]
  <1>1. ASSUME NEW x, MachOk(x)
        PROVE  p(x).hilo = x.hilo /\ p(x).PC = x.PC /\ p(x).mem = x.mem /\ p(x).R = [x.R EXCEPT ![r] = v]
    BY <1>1, WithReg
  <1> HIDE DEF p
  <1>2. \A y \in Own : p(a).R[y] = p(b).R[y]
    <2> SUFFICES ASSUME NEW y \in Own PROVE p(a).R[y] = p(b).R[y]
      OBVIOUS
    <2>1. /\ y \in AllRegs /\ a.R[y] = b.R[y] /\ a.R \in [AllRegs -> Words]
          /\ b.R \in [AllRegs -> Words]
      BY OwnIs, MachParts DEF Alike
    <2>2. p(a).R = [a.R EXCEPT ![r] = v] /\ p(b).R = [b.R EXCEPT ![r] = v]
      BY <1>1
    <2> QED
      BY <2>1, <2>2
  <1> QED
    BY <1>1, <1>2 DEF Alike, p

\* An effect without exceptions.
Quiet(mm, n) == Eff(mm, n, <<>>, FALSE)

LEMMA QuietIs ==
  ASSUME NEW mm, NEW n
  PROVE  LET e == Quiet(mm, n) IN e.m = mm /\ e.next = n /\ e.faults = <<>> /\ ~e.leave
  BY DEF Quiet, Eff

LEMMA PlainIs ==
  ASSUME NEW a
  PROVE  Plain(a) = Quiet(a, Word(a.PC + BYTES_PER_WORD))
  BY DEF Plain, Quiet, Eff

LEMMA QuietNext ==
  ASSUME NEW a, NEW n, NEW e, e = Quiet(a, n), NEW v
  PROVE  [e EXCEPT !.next = v] = Quiet(a, v)
  <1> DEFINE none == <<>>
             no == FALSE
  <1>1. e = Eff(a, n, none, no)
    BY DEF Quiet
  <1> HIDE DEF none, no
  <1>2. [Eff(a, n, none, no) EXCEPT !.next = v] = Eff(a, v, none, no)
    BY DEF Eff
  <1> QED
    BY Zenon, <1>1, <1>2 DEF none, no, Quiet

LEMMA QuietFaults ==
  ASSUME NEW a, NEW n, NEW e, e = Quiet(a, n), NEW v
  PROVE  [e EXCEPT !.faults = v] = Eff(a, n, v, FALSE)
  <1> DEFINE none == <<>>
             no == FALSE
  <1>1. e = Eff(a, n, none, no)
    BY DEF Quiet
  <1> HIDE DEF none, no
  <1>2. [Eff(a, n, none, no) EXCEPT !.faults = v] = Eff(a, n, v, no)
    BY DEF Eff
  <1> QED
    BY Zenon, <1>1, <1>2 DEF none, no, Quiet

LEMMA SetIs ==
  ASSUME NEW a, NEW r, NEW v
  PROVE  Set(a, r, v) = Quiet([a EXCEPT !.R[r] = v], Word(a.PC + BYTES_PER_WORD))
  <1>1. Set(a, r, v) = [Plain(a) EXCEPT !.m.R[r] = v]
    BY Zenon DEF Set
  <1> DEFINE n == Word(a.PC + BYTES_PER_WORD)
             none == <<>>
             no == FALSE
  <1>2. Plain(a) = Eff(a, n, none, no)
    BY PlainIs DEF Quiet
  <1> HIDE DEF n, none, no
  <1>3. [Eff(a, n, none, no) EXCEPT !.m.R[r] = v] = Eff([a EXCEPT !.R[r] = v], n, none, no)
    BY DEF Eff
  <1>4. Set(a, r, v) = [Eff(a, n, none, no) EXCEPT !.m.R[r] = v]
    BY Zenon, <1>1, <1>2
  <1> QED
    BY Zenon, <1>3, <1>4 DEF n, none, no, Quiet

LEMMA RaisingIs ==
  ASSUME NEW a, NEW c
  PROVE  Raising(a, c) = Eff(a, Word(a.PC + BYTES_PER_WORD), <<[code |-> c, addr |-> a.cp0.BadVAddr]>>, FALSE)
  <1> DEFINE q == <<[code |-> c, addr |-> a.cp0.BadVAddr]>>
  <1>1. Raising(a, c) = [Plain(a) EXCEPT !.faults = q]
    BY Zenon DEF Raising
  <1> HIDE DEF q
  <1>2. Raising(a, c) = Eff(a, Word(a.PC + BYTES_PER_WORD), q, FALSE)
    BY <1>1, PlainIs, QuietFaults
  <1> QED
    BY Zenon, <1>2 DEF q

LEMMA Stays ==
  ASSUME NEW a
  PROVE  /\ ~Plain(a).leave
         /\ \A r, v : ~Set(a, r, v).leave
         /\ \A c : ~Raising(a, c).leave
  <1>1. ~Plain(a).leave
    BY PlainIs, QuietIs
  <1>2. ASSUME NEW r, NEW v PROVE ~Set(a, r, v).leave
    BY SetIs, QuietIs
  <1>3. ASSUME NEW c PROVE ~Raising(a, c).leave
    BY RaisingIs DEF Eff
  <1> QED
    BY <1>1, <1>2, <1>3

LEMMA GoodEff ==
  ASSUME NEW a, NEW mm, NEW n \in Words, NEW q \in FaultLists, NEW l \in BOOLEAN, MachOk(mm),
         mm.PC = a.PC, mm.cp0 = a.cp0, q # <<>> => n = Word(a.PC + BYTES_PER_WORD),
         l => mm = a
  PROVE  Good(a, Eff(mm, n, q, l))
  BY EffIs DEF Good

LEMMA SameEff ==
  ASSUME NEW a, NEW b, Alike(a, b), NEW n, NEW q, NEW s, NEW l, q = <<>> <=> s = <<>>
  PROVE  Same(Eff(a, n, q, l), Eff(b, n, s, l))
  BY EffIs DEF Same

LEMMA QuietGood ==
  ASSUME NEW a, NEW mm, NEW n \in Words, MachOk(mm), mm.PC = a.PC, mm.cp0 = a.cp0
  PROVE  Good(a, Quiet(mm, n))
  <1>1. <<>> \in FaultLists
    BY DEF FaultLists
  <1> DEFINE e == Quiet(mm, n)
  <1>2. e.m = mm /\ e.next = n /\ e.faults = <<>> /\ ~e.leave
    BY QuietIs
  <1>3. e.leave = FALSE
    BY DEF Quiet, Eff
  <1> HIDE DEF e
  <1>4. Good(a, e)
    BY <1>1, <1>2, <1>3 DEF Good
  <1> QED
    BY <1>4 DEF e

LEMMA QuietSame ==
  ASSUME NEW a, NEW b, Alike(a, b), NEW n
  PROVE  Same(Quiet(a, n), Quiet(b, n))
  <1> DEFINE e == Quiet(a, n)
             f == Quiet(b, n)
  <1>1. /\ e.m = a /\ e.next = n /\ e.faults = <<>> /\ e.leave = FALSE
        /\ f.m = b /\ f.next = n /\ f.faults = <<>> /\ f.leave = FALSE
    BY DEF Quiet, Eff
  <1> HIDE DEF e, f
  <1>2. Same(e, f)
    BY <1>1 DEF Same
  <1> QED
    BY <1>2 DEF e, f

LEMMA NoFaults == <<>> \in FaultLists /\ \A f \in Fault : <<f>> \in FaultLists /\ <<f>> # <<>>
  BY DEF FaultLists

LEMMA PlainGood ==
  ASSUME NEW a, MachOk(a)
  PROVE  Good(a, Plain(a))
  BY PlainIs, QuietGood, NextFits, MachParts

LEMMA SetGood ==
  ASSUME NEW a, MachOk(a), NEW r \in AllRegs, NEW v \in Words
  PROVE  Good(a, Set(a, r, v))
  <1> DEFINE p == [a EXCEPT !.R[r] = v]
  <1>1. MachOk(p) /\ p.PC = a.PC /\ p.cp0 = a.cp0
    BY WithReg, WithRegFits
  <1>2. Set(a, r, v) = Quiet(p, Word(a.PC + BYTES_PER_WORD))
    BY SetIs
  <1> HIDE DEF p
  <1> QED
    BY <1>1, <1>2, QuietGood, NextFits, MachParts

LEMMA RaisingGood ==
  ASSUME NEW a, MachOk(a), NEW c \in DOMAIN ExcCode
  PROVE  Good(a, Raising(a, c))
  <1> DEFINE f == [code |-> c, addr |-> a.cp0.BadVAddr]
  <1>1. a.cp0.BadVAddr \in Words
    BY MachParts DEF Cp0s, Cp0Names
  <1>2. f \in Fault
    BY <1>1 DEF Fault
  <1>3. Raising(a, c) = Eff(a, Word(a.PC + BYTES_PER_WORD), <<f>>, FALSE)
    BY RaisingIs
  <1> HIDE DEF f
  <1> QED
    BY <1>2, <1>3, GoodEff, NoFaults, NextFits, MachParts

LEMMA PlainSame ==
  ASSUME NEW a, NEW b, Alike(a, b)
  PROVE  Same(Plain(a), Plain(b))
  <1>1. a.PC = b.PC
    BY DEF Alike
  <1> QED
    BY <1>1, PlainIs, QuietSame

LEMMA SetSame ==
  ASSUME NEW a, NEW b, MachOk(a), MachOk(b), Alike(a, b), NEW r \in AllRegs, NEW v
  PROVE  Same(Set(a, r, v), Set(b, r, v))
  <1>1. a.PC = b.PC
    BY DEF Alike
  <1> QED
    BY <1>1, SetIs, QuietSame, WithRegAlike

LEMMA RaisingSame ==
  ASSUME NEW a, NEW b, Alike(a, b), NEW c
  PROVE  Same(Raising(a, c), Raising(b, c))
  <1>1. a.PC = b.PC
    BY DEF Alike
  <1> DEFINE q == <<[code |-> c, addr |-> a.cp0.BadVAddr]>>
             s == <<[code |-> c, addr |-> b.cp0.BadVAddr]>>
             n == Word(a.PC + BYTES_PER_WORD)
  <1>2. q # <<>> /\ s # <<>>
    OBVIOUS
  <1>3. Raising(a, c) = Eff(a, n, q, FALSE) /\ Raising(b, c) = Eff(b, n, s, FALSE)
    BY <1>1, RaisingIs
  <1> HIDE DEF q, s, n
  <1> QED
    BY <1>2, <1>3, SameEff

-----------------------------------------------------------------------------
(* Instructions on registers *)

\* An instruction whose fields are those that the program may use.
Uses(i) == i.x \in Field(i.op) /\ {i.rs, i.rt, i.rd} \subseteq Own

LEMMA Operands ==
  ASSUME NEW a, MachOk(a), NEW i, Uses(i)
  PROVE  /\ i.rs \in Own /\ i.rt \in Own /\ i.rd \in Own
         /\ i.rs \in AllRegs /\ i.rt \in AllRegs /\ i.rd \in AllRegs
         /\ a.R[i.rs] \in Words /\ a.R[i.rt] \in Words
  BY OwnIs, MachParts DEF Uses

LEMMA OperandsAlike ==
  ASSUME NEW a, NEW b, Alike(a, b), NEW i, Uses(i)
  PROVE  a.R[i.rs] = b.R[i.rs] /\ a.R[i.rt] = b.R[i.rt] /\ a.PC = b.PC /\ a.hilo = b.hilo
  BY DEF Alike, Uses

LEMMA CalculateGood ==
  ASSUME NEW a, MachOk(a), NEW i, Uses(i), i.op \in ValueOps
  PROVE  Good(a, Calculate(a, i))
  <1> DEFINE dest == IF i.op \in ImmediateOps \cup {"ADDI"} THEN i.rt ELSE i.rd
             v == Value(i.op, a.R[i.rs], a.R[i.rt], i.x)
             q == Overflows(i.op, a.R[i.rs], a.R[i.rt], i.x)
  <1>1. dest \in AllRegs
    BY Operands
  <1>2. v \in Words
    <2>1. a.R[i.rs] \in Words /\ a.R[i.rt] \in Words /\ i.x \in Field(i.op)
      BY Operands DEF Uses
    <2> QED
      BY <2>1, ValueFits
  <1>3. Calculate(a, i) = IF q THEN Raising(a, "Ov") ELSE Set(a, dest, v)
    BY DEF Calculate
  <1>4. "Ov" \in DOMAIN ExcCode
    BY DEF ExcCode
  <1> HIDE DEF dest, v, q
  <1> QED
    BY <1>1, <1>2, <1>3, <1>4, RaisingGood, SetGood

LEMMA CalculateSame ==
  ASSUME NEW a, NEW b, MachOk(a), MachOk(b), Alike(a, b), NEW i, Uses(i)
  PROVE  Same(Calculate(a, i), Calculate(b, i))
  <1> DEFINE dest == IF i.op \in ImmediateOps \cup {"ADDI"} THEN i.rt ELSE i.rd
             v == Value(i.op, a.R[i.rs], a.R[i.rt], i.x)
             q == Overflows(i.op, a.R[i.rs], a.R[i.rt], i.x)
  <1>1. dest \in AllRegs
    BY Operands
  <1>2. /\ Calculate(a, i) = IF q THEN Raising(a, "Ov") ELSE Set(a, dest, v)
        /\ Calculate(b, i) = IF q THEN Raising(b, "Ov") ELSE Set(b, dest, v)
    BY OperandsAlike DEF Calculate
  <1> HIDE DEF dest, v, q
  <1> QED
    BY <1>1, <1>2, RaisingSame, SetSame

LEMMA HiLoWith ==
  ASSUME NEW a, MachOk(a), NEW p \in Pairs
  PROVE  LET d == [a EXCEPT !.hilo = p]
         IN  MachFields(d) /\ d.R = a.R /\ d.hilo = p /\ d.cp0 = a.cp0 /\ d.PC = a.PC /\ d.mem = a.mem
  BY MachParts DEF MachFields

LEMMA HiLoWithFits ==
  ASSUME NEW a, MachOk(a), NEW p \in Pairs
  PROVE  MachOk([a EXCEPT !.hilo = p])
  <1> DEFINE d == [a EXCEPT !.hilo = p]
  <1>1. MachFields(d) /\ d.R = a.R /\ d.hilo = p /\ d.cp0 = a.cp0 /\ d.PC = a.PC /\ d.mem = a.mem
    BY HiLoWith
  <1> HIDE DEF d
  <1> QED
    BY <1>1 DEF MachOk, d

LEMMA MultiplyIs ==
  ASSUME NEW a, NEW i
  PROVE  LET p == HiLo(i.op, a.R[i.rs], a.R[i.rt], a.hilo)
             d == [a EXCEPT !.hilo = p]
         IN  MultiplyOrDivide(a, i) = IF i.op = "MUL" THEN Set(d, i.rd, p.lo) ELSE Plain(d)
  <1> DEFINE p == HiLo(i.op, a.R[i.rs], a.R[i.rt], a.hilo)
             d == [a EXCEPT !.hilo = p]
             n == Word(a.PC + BYTES_PER_WORD)
             e == [Plain(a) EXCEPT !.m.hilo = p]
  <1>1. MultiplyOrDivide(a, i) = IF i.op = "MUL" THEN [e EXCEPT !.m.R[i.rd] = p.lo] ELSE e
    BY Zenon DEF MultiplyOrDivide
  <1> DEFINE none == <<>>
             no == FALSE
  <1>2. Plain(a) = Eff(a, n, none, no)
    BY PlainIs DEF Quiet
  <1>3. d.PC = a.PC
    OBVIOUS
  <1> HIDE DEF p
  <1>4. /\ Plain(d) = Eff(d, n, none, no)
        /\ Set(d, i.rd, p.lo) = Eff([d EXCEPT !.R[i.rd] = p.lo], n, none, no)
    BY <1>3, PlainIs, SetIs DEF Quiet
  <1> HIDE DEF n, none, no
  <1>5. [Eff(a, n, none, no) EXCEPT !.m.hilo = p] = Eff(d, n, none, no)
    BY DEF Eff
  <1>6. e = Eff(d, n, none, no)
    BY Zenon, <1>2, <1>5
  <1> HIDE DEF d, e
  <1>7. [Eff(d, n, none, no) EXCEPT !.m.R[i.rd] = p.lo] = Eff([d EXCEPT !.R[i.rd] = p.lo], n, none, no)
    BY DEF Eff
  <1>8. [e EXCEPT !.m.R[i.rd] = p.lo] = Eff([d EXCEPT !.R[i.rd] = p.lo], n, none, no)
    BY Zenon, <1>6, <1>7
  <1>9. MultiplyOrDivide(a, i) = IF i.op = "MUL" THEN Set(d, i.rd, p.lo) ELSE Plain(d)
    BY Zenon, <1>1, <1>4, <1>6, <1>8
  <1> QED
    BY Zenon, <1>9 DEF d, p

LEMMA MultiplyGood ==
  ASSUME NEW a, MachOk(a), NEW i, Uses(i), i.op \in HiLoOps
  PROVE  Good(a, MultiplyOrDivide(a, i))
  <1> DEFINE p == HiLo(i.op, a.R[i.rs], a.R[i.rt], a.hilo)
             d == [a EXCEPT !.hilo = p]
  <1>1. p \in Pairs /\ p.lo \in Words /\ i.rd \in AllRegs
    <2>1. a.R[i.rs] \in Words /\ a.R[i.rt] \in Words /\ a.hilo \in Pairs /\ i.rd \in AllRegs
      BY Operands, MachParts
    <2>2. p \in Pairs
      BY <2>1, HiLoFits
    <2> QED
      BY <2>1, <2>2, PairOf
  <1>2. MultiplyOrDivide(a, i) = IF i.op = "MUL" THEN Set(d, i.rd, p.lo) ELSE Plain(d)
    BY MultiplyIs
  <1> HIDE DEF p
  <1>3. d.cp0 = a.cp0 /\ d.PC = a.PC
    BY <1>1, HiLoWith
  <1>4. MachOk(d)
    BY <1>1, HiLoWithFits
  <1> HIDE DEF d
  <1> DEFINE e == MultiplyOrDivide(a, i)
  <1>5. Good(d, e) /\ ~e.leave
    <2>1. Good(d, Plain(d)) /\ ~Plain(d).leave
      BY <1>4, PlainGood, Stays
    <2>2. Good(d, Set(d, i.rd, p.lo)) /\ ~Set(d, i.rd, p.lo).leave
      BY <1>1, <1>4, SetGood, Stays
    <2> QED
      BY <1>2, <2>1, <2>2
  <1> HIDE DEF e
  <1>6. Good(a, e)
    BY <1>3, <1>5 DEF Good
  <1> QED
    BY <1>6 DEF e

LEMMA MultiplySame ==
  ASSUME NEW a, NEW b, MachOk(a), MachOk(b), Alike(a, b), NEW i, Uses(i), i.op \in HiLoOps
  PROVE  Same(MultiplyOrDivide(a, i), MultiplyOrDivide(b, i))
  <1> DEFINE p == HiLo(i.op, a.R[i.rs], a.R[i.rt], a.hilo)
             d == [a EXCEPT !.hilo = p]
             g == [b EXCEPT !.hilo = p]
  <1>1. p \in Pairs /\ i.rd \in AllRegs
    BY Operands, MachParts, HiLoFits
  <1>2. /\ MultiplyOrDivide(a, i) = IF i.op = "MUL" THEN Set(d, i.rd, p.lo) ELSE Plain(d)
        /\ MultiplyOrDivide(b, i) = IF i.op = "MUL" THEN Set(g, i.rd, p.lo) ELSE Plain(g)
    BY OperandsAlike, MultiplyIs
  <1> HIDE DEF p
  <1>3. /\ d.R = a.R /\ d.hilo = p /\ d.PC = a.PC /\ d.mem = a.mem
        /\ g.R = b.R /\ g.hilo = p /\ g.PC = b.PC /\ g.mem = b.mem
    BY <1>1, HiLoWith
  <1>4. MachOk(d) /\ MachOk(g)
    BY <1>1, HiLoWithFits
  <1> HIDE DEF d, g
  <1>5. Alike(d, g)
    BY <1>3 DEF Alike
  <1> QED
    BY <1>1, <1>2, <1>4, <1>5, PlainSame, SetSame

LEMMA MoveGood ==
  ASSUME NEW a, MachOk(a), NEW i, Uses(i)
  PROVE  Good(a, MoveFrom(a, i)) /\ Good(a, ConditionalMove(a, i))
  <1>1. /\ a.R[i.rs] \in Words /\ a.hilo.hi \in Words /\ a.hilo.lo \in Words /\ i.rd \in AllRegs
    BY Operands, MachParts, PairOf
  <1> QED
    BY <1>1, SetGood, PlainGood DEF MoveFrom, ConditionalMove

LEMMA MoveSame ==
  ASSUME NEW a, NEW b, MachOk(a), MachOk(b), Alike(a, b), NEW i, Uses(i)
  PROVE  Same(MoveFrom(a, i), MoveFrom(b, i)) /\ Same(ConditionalMove(a, i), ConditionalMove(b, i))
  <1>1. i.rd \in AllRegs /\ a.R[i.rs] = b.R[i.rs] /\ a.R[i.rt] = b.R[i.rt] /\ a.hilo = b.hilo
    BY Operands, OperandsAlike
  <1> QED
    BY <1>1, SetSame, PlainSame DEF MoveFrom, ConditionalMove

LEMMA TrapGood ==
  ASSUME NEW a, MachOk(a), NEW i
  PROVE  /\ Good(a, Trap(a, i)) /\ Good(a, Raising(a, "RI")) /\ Good(a, Raising(a, "CpU"))
         /\ Good(a, Raising(a, "Bp"))
  <1>1. /\ "Tr" \in DOMAIN ExcCode /\ "RI" \in DOMAIN ExcCode /\ "CpU" \in DOMAIN ExcCode
        /\ "Bp" \in DOMAIN ExcCode
    BY DEF ExcCode
  <1> QED
    BY <1>1, RaisingGood, PlainGood DEF Trap

LEMMA TrapSame ==
  ASSUME NEW a, NEW b, MachOk(a), MachOk(b), Alike(a, b), NEW i, Uses(i)
  PROVE  /\ Same(Trap(a, i), Trap(b, i)) /\ Same(Raising(a, "RI"), Raising(b, "RI"))
         /\ Same(Raising(a, "CpU"), Raising(b, "CpU"))
  BY OperandsAlike, RaisingSame, PlainSame DEF Trap

-----------------------------------------------------------------------------
(* Branches and jumps *)

LEMMA BranchIs ==
  ASSUME NEW a, MachOk(a), NEW i, Uses(i), i.x \in Half
  PROVE  \E linked, t :
           /\ Branch(a, i) = Quiet(linked, t) /\ t \in Words
           /\ MachOk(linked) /\ linked.PC = a.PC /\ linked.cp0 = a.cp0
  <1> DEFINE link == Word(a.PC + BYTES_PER_WORD)
             linked == IF i.op \in {"BGEZAL", "BGEZALL", "BLTZAL", "BLTZALL"}
                       THEN [a EXCEPT !.R.ra = link] ELSE a
             likely == i.op \in {"BEQL", "BNEL", "BGEZL", "BGTZL", "BLEZL", "BLTZL", "BGEZALL", "BLTZALL"}
             t == IF BranchTaken(i.op, linked.R[i.rs], linked.R[i.rt]) THEN Word(a.PC + IDisp(i.x))
                  ELSE IF likely THEN Word(a.PC + 2 * BYTES_PER_WORD) ELSE link
  <1>1. link \in Words /\ Word(a.PC + 2 * BYTES_PER_WORD) \in Words
    BY NextFits, MachParts
  <1>2. Word(a.PC + IDisp(i.x)) \in Words
    <2>1. a.PC \in Int /\ i.x \in Int
      BY WordsAre, MachParts
    <2>2. a.PC + IDisp(i.x) \in Int
      BY <2>1, SignedInt
    <2> QED
      BY <2>2, WordFits
  <1>3. t \in Words
    BY <1>1, <1>2
  <1>4. MachOk(linked) /\ linked.PC = a.PC /\ linked.cp0 = a.cp0
    BY <1>1, OwnIs, WithReg, WithRegFits
  <1>5. Plain(linked) = Quiet(linked, link)
    BY <1>4, PlainIs
  <1>6. Branch(a, i) = [Plain(linked) EXCEPT !.next = t]
    <2>1. Plain(linked).next = link
      BY <1>5, QuietIs
    <2> QED
      BY <2>1 DEF Branch
  <1>7. Branch(a, i) = Quiet(linked, t)
    BY <1>5, <1>6, QuietNext
  <1> HIDE DEF linked, t
  <1> QED
    BY <1>3, <1>4, <1>7

LEMMA BranchGood ==
  ASSUME NEW a, MachOk(a), NEW i, Uses(i), i.x \in Half
  PROVE  Good(a, Branch(a, i))
  BY BranchIs, QuietGood

LEMMA BranchSame ==
  ASSUME NEW a, NEW b, MachOk(a), MachOk(b), Alike(a, b), NEW i, Uses(i), i.x \in Half
  PROVE  Same(Branch(a, i), Branch(b, i))
  <1> DEFINE link == Word(a.PC + BYTES_PER_WORD)
             linked(m1) == IF i.op \in {"BGEZAL", "BGEZALL", "BLTZAL", "BLTZALL"}
                           THEN [m1 EXCEPT !.R.ra = link] ELSE m1
             likely == i.op \in {"BEQL", "BNEL", "BGEZL", "BGTZL", "BLEZL", "BLTZL", "BGEZALL", "BLTZALL"}
             t(m1) == IF BranchTaken(i.op, linked(m1).R[i.rs], linked(m1).R[i.rt]) THEN Word(a.PC + IDisp(i.x))
                      ELSE IF likely THEN Word(a.PC + 2 * BYTES_PER_WORD) ELSE link
  <1>1. a.PC = b.PC
    BY OperandsAlike
  <1>2. MachOk(linked(a)) /\ MachOk(linked(b)) /\ Alike(linked(a), linked(b))
    <2>1. link \in Words /\ "ra" \in AllRegs
      BY NextFits, MachParts, OwnIs
    <2> QED
      BY <2>1, WithRegFits, WithRegAlike
  <1>3. linked(a).PC = a.PC /\ linked(b).PC = a.PC
    BY <1>1, OwnIs, WithReg
  <1>4. /\ Plain(linked(a)) = Quiet(linked(a), link)
        /\ Plain(linked(b)) = Quiet(linked(b), link)
    BY <1>3, PlainIs
  <1>5. Branch(a, i) = [Plain(linked(a)) EXCEPT !.next = t(a)]
    <2>1. Plain(linked(a)).next = link
      BY <1>4, QuietIs
    <2> QED
      BY <2>1 DEF Branch
  <1>6. Branch(b, i) = [Plain(linked(b)) EXCEPT !.next = t(b)]
    <2>1. Plain(linked(b)).next = link
      BY <1>4, QuietIs
    <2> QED
      BY <1>1, <2>1 DEF Branch
  <1>7. t(a) = t(b)
    <2> HIDE DEF linked
    <2>1. linked(a).R[i.rs] = linked(b).R[i.rs] /\ linked(a).R[i.rt] = linked(b).R[i.rt]
      BY <1>2, OperandsAlike
    <2> QED
      BY <2>1
  <1>8. Branch(a, i) = Quiet(linked(a), t(a)) /\ Branch(b, i) = Quiet(linked(b), t(b))
    BY <1>4, <1>5, <1>6, QuietNext
  <1> HIDE DEF linked, t
  <1> QED
    BY <1>2, <1>7, <1>8, QuietSame

\* A jump stays in the words: the upper four bits of PC and 26 bits of the instruction.
LEMMA TargetFits ==
  ASSUME NEW pc \in Words, NEW x \in 0 .. 2^(WordBits - 6) - 1
  PROVE  pc - (pc % 2^(WordBits - 4)) + x * 4 \in Words
  <1> DEFINE b == 2^(WordBits - 4)
             c == 2^(WordBits - 6)
             q == pc \div b
             r == pc % b
  <1>1. b \in Nat /\ c \in Nat /\ b = 4 * c /\ W = 16 * b /\ W >= 128
    BY Tops
  <1>2. pc \in Nat /\ pc < W
    <2>1. W \in Nat
      BY Tops
    <2> QED
      BY <2>1, WordsAre
  <1> HIDE DEF b, c
  <1>3. q \in Nat /\ r \in 0 .. b - 1 /\ pc = b * q + r
    <2>1. b # 0
      BY <1>1
    <2> QED
      BY <1>1, <1>2, <2>1, Euclid
  <1> HIDE DEF q, r
  <1>4. q <= 15
    <2> SUFFICES ASSUME q >= 16 PROVE FALSE
      BY <1>3
    <2>1. b * q >= b * 16
      BY <1>1, <1>3
    <2> QED
      BY <1>1, <1>2, <1>3, <2>1
  <1>5. b * q <= b * 15
    BY <1>1, <1>3, <1>4
  <1>6. pc - r + x * 4 \in 0 .. W - 1
    <2>1. x \in Nat /\ x <= c - 1
      BY <1>1 DEF c
    <2> QED
      BY <1>1, <1>3, <1>5, <2>1
  <1> QED
    BY <1>6, WordsAre DEF r, b

LEMMA JumpGood ==
  ASSUME NEW a, MachOk(a), NEW i, Uses(i)
  PROVE  Good(a, Jump(a, i))
  <1> DEFINE t == IF i.op \in {"J", "JAL"} THEN a.PC - (a.PC % 2^(WordBits - 4)) + i.x * 4 ELSE a.R[i.rs]
             link == Word(a.PC + BYTES_PER_WORD)
             e == CASE i.op = "JAL" -> Set(a, "ra", link)
                    [] i.op = "JALR" -> Set(a, i.rd, link)
                    [] OTHER -> Plain(a)
  <1>1. t \in Words
    <2>1. i.op \in {"J", "JAL"} => i.x \in 0 .. 2^(WordBits - 6) - 1
      BY FieldIs DEF Uses
    <2> QED
      BY <2>1, TargetFits, Operands, MachParts
  <1>2. Jump(a, i) = [e EXCEPT !.next = t]
    BY DEF Jump
  <1>3. link \in Words /\ i.rd \in AllRegs /\ "ra" \in AllRegs
    BY NextFits, MachParts, Operands, OwnIs
  <1> HIDE DEF t
  <1>4. ASSUME NEW d, MachOk(d), d.PC = a.PC, d.cp0 = a.cp0, e = Quiet(d, link)
        PROVE  Good(a, Jump(a, i))
    <2>1. Jump(a, i) = Quiet(d, t)
      BY <1>2, <1>4, QuietNext
    <2> QED
      BY <1>1, <1>4, <2>1, QuietGood
  <1>5. CASE i.op = "JAL"
    <2>1. e = Set(a, "ra", link)
      BY <1>5
    <2> HIDE DEF e, link
    <2>2. e = Quiet([a EXCEPT !.R["ra"] = link], link)
      BY <2>1, SetIs DEF link
    <2>3. LET d == [a EXCEPT !.R["ra"] = link] IN MachOk(d) /\ d.PC = a.PC /\ d.cp0 = a.cp0
      BY <1>3, WithReg, WithRegFits
    <2> QED
      BY <1>4, <2>2, <2>3
  <1>6. CASE i.op = "JALR"
    <2>1. e = Set(a, i.rd, link)
      BY <1>6
    <2> HIDE DEF e, link
    <2>2. e = Quiet([a EXCEPT !.R[i.rd] = link], link)
      BY <2>1, SetIs DEF link
    <2>3. LET d == [a EXCEPT !.R[i.rd] = link] IN MachOk(d) /\ d.PC = a.PC /\ d.cp0 = a.cp0
      BY <1>3, WithReg, WithRegFits
    <2> QED
      BY <1>4, <2>2, <2>3
  <1>7. CASE i.op \notin {"JAL", "JALR"}
    <2>1. e = Plain(a)
      BY <1>7
    <2> HIDE DEF e
    <2> QED
      BY <1>4, <2>1, PlainIs
  <1> QED
    BY <1>5, <1>6, <1>7

LEMMA JumpSame ==
  ASSUME NEW a, NEW b, MachOk(a), MachOk(b), Alike(a, b), NEW i, Uses(i)
  PROVE  Same(Jump(a, i), Jump(b, i))
  <1> DEFINE t == IF i.op \in {"J", "JAL"} THEN a.PC - (a.PC % 2^(WordBits - 4)) + i.x * 4 ELSE a.R[i.rs]
             link == Word(a.PC + BYTES_PER_WORD)
             e(m1) == CASE i.op = "JAL" -> Set(m1, "ra", link)
                        [] i.op = "JALR" -> Set(m1, i.rd, link)
                        [] OTHER -> Plain(m1)
  <1>1. a.PC = b.PC /\ a.R[i.rs] = b.R[i.rs]
    BY OperandsAlike
  <1>2. Jump(a, i) = [e(a) EXCEPT !.next = t]
    BY DEF Jump
  <1>3. Jump(b, i) = [e(b) EXCEPT !.next = t]
    BY <1>1 DEF Jump
  <1>4. link \in Words /\ i.rd \in AllRegs /\ "ra" \in AllRegs
    BY NextFits, MachParts, Operands, OwnIs
  <1> HIDE DEF t
  <1>5. ASSUME NEW c, NEW d, Alike(c, d), e(a) = Quiet(c, link), e(b) = Quiet(d, link)
        PROVE  Same(Jump(a, i), Jump(b, i))
    <2>1. Jump(a, i) = Quiet(c, t) /\ Jump(b, i) = Quiet(d, t)
      BY <1>2, <1>3, <1>5, QuietNext
    <2> QED
      BY <1>5, <2>1, QuietSame
  <1>6. ASSUME NEW r \in AllRegs, e(a) = Set(a, r, link), e(b) = Set(b, r, link)
        PROVE  Same(Jump(a, i), Jump(b, i))
    <2> HIDE DEF e
    <2>1. /\ e(a) = Quiet([a EXCEPT !.R[r] = link], link)
          /\ e(b) = Quiet([b EXCEPT !.R[r] = link], link)
      BY <1>1, <1>6, SetIs
    <2> QED
      BY <1>5, <2>1, WithRegAlike
  <1>7. CASE i.op = "JAL"
    <2>1. e(a) = Set(a, "ra", link) /\ e(b) = Set(b, "ra", link)
      BY <1>7
    <2> HIDE DEF e
    <2> QED
      BY <1>4, <1>6, <2>1
  <1>8. CASE i.op = "JALR"
    <2>1. e(a) = Set(a, i.rd, link) /\ e(b) = Set(b, i.rd, link)
      BY <1>8
    <2> HIDE DEF e
    <2> QED
      BY <1>4, <1>6, <2>1
  <1>9. CASE i.op \notin {"JAL", "JALR"}
    <2>1. e(a) = Plain(a) /\ e(b) = Plain(b)
      BY <1>9
    <2> HIDE DEF e
    <2> QED
      BY <1>1, <1>5, <2>1, PlainIs
  <1> QED
    BY <1>7, <1>8, <1>9

-----------------------------------------------------------------------------
(* Loads *)

LEMMA WithMem ==
  ASSUME NEW a, MachOk(a), NEW o
  PROVE  LET d == [a EXCEPT !.mem = o]
         IN  MachFields(d) /\ d.R = a.R /\ d.hilo = a.hilo /\ d.cp0 = a.cp0 /\ d.PC = a.PC /\ d.mem = o
  BY MachParts DEF MachFields

LEMMA WithMemFits ==
  ASSUME NEW a, MachOk(a), NEW o, MemOk(o)
  PROVE  MachOk([a EXCEPT !.mem = o])
  <1> DEFINE d == [a EXCEPT !.mem = o]
  <1>1. MachFields(d) /\ d.R = a.R /\ d.hilo = a.hilo /\ d.cp0 = a.cp0 /\ d.PC = a.PC /\ d.mem = o
    BY WithMem
  <1> HIDE DEF d
  <1> QED
    BY <1>1 DEF MachOk, d

LEMMA WithMemAlike ==
  ASSUME NEW a, NEW b, MachOk(a), MachOk(b), Alike(a, b), NEW o, NEW p, MemLike(o, p)
  PROVE  Alike([a EXCEPT !.mem = o], [b EXCEPT !.mem = p])
  <1> DEFINE d == [a EXCEPT !.mem = o]
             g == [b EXCEPT !.mem = p]
  <1>1. /\ d.R = a.R /\ d.hilo = a.hilo /\ d.PC = a.PC /\ d.mem = o
        /\ g.R = b.R /\ g.hilo = b.hilo /\ g.PC = b.PC /\ g.mem = p
    BY WithMem
  <1> HIDE DEF d, g
  <1> QED
    BY <1>1 DEF Alike, d, g

LEMMA FaultyGood ==
  ASSUME NEW a, NEW o, MachOk(a), MemOk(o), NEW r \in AllRegs, NEW v \in Words, NEW q \in FaultLists
  PROVE  LET d == [a EXCEPT !.mem = o]
         IN  Good(a, [Set(d, r, v) EXCEPT !.faults = q]) /\ Good(a, [Plain(d) EXCEPT !.faults = q])
  <1> DEFINE d == [a EXCEPT !.mem = o]
             p == [d EXCEPT !.R[r] = v]
             n == Word(a.PC + BYTES_PER_WORD)
  <1>1. d.cp0 = a.cp0 /\ d.PC = a.PC
    BY WithMem
  <1>2. MachOk(d)
    BY WithMemFits
  <1> HIDE DEF d
  <1>3. p.cp0 = a.cp0 /\ p.PC = a.PC
    BY <1>1, <1>2, WithReg
  <1>4. MachOk(p)
    BY <1>2, WithRegFits
  <1>5. Set(d, r, v) = Quiet(p, n) /\ Plain(d) = Quiet(d, n)
    BY <1>1, SetIs, PlainIs
  <1>6. n \in Words
    BY NextFits, MachParts
  <1>7. /\ [Set(d, r, v) EXCEPT !.faults = q] = Eff(p, n, q, FALSE)
        /\ [Plain(d) EXCEPT !.faults = q] = Eff(d, n, q, FALSE)
    BY <1>5, QuietFaults
  <1> HIDE DEF p
  <1>8. Good(a, Eff(p, n, q, FALSE)) /\ Good(a, Eff(d, n, q, FALSE))
    BY <1>1, <1>2, <1>3, <1>4, <1>6, GoodEff
  <1> QED
    BY <1>7, <1>8 DEF d

LEMMA FaultySame ==
  ASSUME NEW a, NEW b, MachOk(a), MachOk(b), Alike(a, b), NEW o, NEW u, MemOk(o), MemOk(u), MemLike(o, u),
         NEW r \in AllRegs, NEW v \in Words, NEW q, NEW s, q = <<>> <=> s = <<>>
  PROVE  LET d == [a EXCEPT !.mem = o]
             g == [b EXCEPT !.mem = u]
         IN  /\ Same([Set(d, r, v) EXCEPT !.faults = q], [Set(g, r, v) EXCEPT !.faults = s])
             /\ Same([Plain(d) EXCEPT !.faults = q], [Plain(g) EXCEPT !.faults = s])
  <1> DEFINE d == [a EXCEPT !.mem = o]
             g == [b EXCEPT !.mem = u]
             p == [d EXCEPT !.R[r] = v]
             t == [g EXCEPT !.R[r] = v]
             n == Word(a.PC + BYTES_PER_WORD)
  <1>1. d.PC = a.PC /\ g.PC = a.PC
    BY WithMem DEF Alike
  <1>2. MachOk(d) /\ MachOk(g)
    BY WithMemFits
  <1>3. Alike(d, g)
    BY WithMemAlike
  <1> HIDE DEF d, g
  <1>4. Alike(p, t)
    BY <1>2, <1>3, WithRegAlike
  <1>5. /\ Set(d, r, v) = Quiet(p, n) /\ Plain(d) = Quiet(d, n)
        /\ Set(g, r, v) = Quiet(t, n) /\ Plain(g) = Quiet(g, n)
    BY <1>1, SetIs, PlainIs
  <1>6. /\ [Set(d, r, v) EXCEPT !.faults = q] = Eff(p, n, q, FALSE)
        /\ [Plain(d) EXCEPT !.faults = q] = Eff(d, n, q, FALSE)
        /\ [Set(g, r, v) EXCEPT !.faults = s] = Eff(t, n, s, FALSE)
        /\ [Plain(g) EXCEPT !.faults = s] = Eff(g, n, s, FALSE)
    BY <1>5, QuietFaults
  <1> HIDE DEF p, t
  <1>7. /\ Same(Eff(p, n, q, FALSE), Eff(t, n, s, FALSE))
        /\ Same(Eff(d, n, q, FALSE), Eff(g, n, s, FALSE))
    BY <1>3, <1>4, SameEff
  <1> QED
    BY <1>6, <1>7 DEF d, g

LEMMA FaultsFit ==
  ASSUME NEW r, r.fault \in Fault \cup {NoFault}
  PROVE  /\ Faults(r) \in FaultLists
         /\ Faults(r) = <<>> <=> r.fault = NoFault
         /\ Faults(r) = <<>> \/ \E f \in Fault : Faults(r) = <<f>>
  <1>1. CASE r.fault = NoFault
    BY <1>1, NoFaults DEF Faults
  <1>2. CASE r.fault # NoFault
    <2>1. r.fault \in Fault
      BY <1>2
    <2> QED
      BY <1>2, <2>1, NoFaults DEF Faults
  <1> QED
    BY <1>1, <1>2

LEMMA TwoFaults ==
  ASSUME NEW r, NEW s, r.fault \in Fault \cup {NoFault}, s.fault \in Fault \cup {NoFault}
  PROVE  /\ Faults(r) \o Faults(s) \in FaultLists
         /\ Faults(r) \o Faults(s) = <<>> <=> r.fault = NoFault /\ s.fault = NoFault
  <1>1. ASSUME NEW f, NEW g
        PROVE  <<f>> \o <<>> = <<f>> /\ <<>> \o <<g>> = <<g>> /\ <<>> \o <<>> = <<>> /\ <<f>> \o <<g>> = <<f, g>>
    <2> DEFINE S == {f, g}
               c == <<f>> \o <<g>>
    <2>1. <<f>> \in Seq(S) /\ <<g>> \in Seq(S)
      OBVIOUS
    <2>2. <<f>> \o <<>> = <<f>> /\ <<>> \o <<g>> = <<g>> /\ <<>> \o <<>> = <<>>
      BY <2>1, ConcatEmptySeq, EmptySeq
    <2>3. Len(<<f>>) = 1 /\ Len(<<g>>) = 1 /\ <<f>>[1] = f /\ <<g>>[1] = g
      OBVIOUS
    <2>4. c \in Seq(S) /\ Len(c) = 2 /\ c[1] = f /\ c[2] = g
      BY <2>1, <2>3, ConcatProperties
    <2> HIDE DEF c
    <2>5. c = <<f, g>>
      BY <2>4
    <2> QED
      BY <2>2, <2>5 DEF c
  <1>2. ASSUME NEW f \in Fault, NEW g \in Fault PROVE <<f, g>> \in FaultLists /\ <<f, g>> # <<>>
    BY DEF FaultLists
  <1>3. CASE r.fault = NoFault \/ s.fault = NoFault
    <2>1. Faults(r) \o Faults(s) = IF r.fault = NoFault THEN Faults(s) ELSE Faults(r)
      BY <1>1, <1>3 DEF Faults
    <2> QED
      BY <1>3, <2>1, FaultsFit
  <1>4. CASE r.fault # NoFault /\ s.fault # NoFault
    <2>1. r.fault \in Fault /\ s.fault \in Fault
      BY <1>4
    <2>2. Faults(r) \o Faults(s) = <<r.fault, s.fault>>
      BY <1>1, <1>4 DEF Faults
    <2> QED
      BY <1>2, <1>4, <2>1, <2>2
  <1> QED
    BY <1>3, <1>4

\* An access of the program's to its own memory.
Reaches(a, i) == ~InKernelData(EffectiveAddress(a, i))

LEMMA Aligned ==
  ASSUME NEW x \in Words
  PROVE  /\ RoundDown(x) \in Words /\ x % 4 \in 0 .. 3
         /\ ~InKernelData(x) => ~InKernelData(RoundDown(x))
  <1>1. x \in Nat /\ x \in 0 .. W - 1 /\ x \in Int
    BY WordsAre
  <1>2. /\ RoundDown(x) \in Nat /\ RoundDown(x) <= x /\ x - 3 <= RoundDown(x)
        /\ RoundDown(x) % 4 = 0
    BY <1>1, WholeWords
  <1>3. RoundDown(x) \in Words
    <2>1. W \in Nat
      BY Tops
    <2>2. RoundDown(x) \in 0 .. W - 1
      BY <1>1, <1>2, <2>1
    <2> QED
      BY <2>2, WordsAre
  <1>4. ASSUME InKernelData(RoundDown(x)) PROVE InKernelData(x)
    <2> DEFINE y == RoundDown(x)
               k == K_DATA_BOT
               s == K_DATA_SIZE
    <2>1. k \in Nat /\ s \in Nat /\ k % 4 = 0 /\ s % 4 = 0
      BY Layout
    <2>2. y \in k .. k + s - 1
      BY <1>4 DEF InKernelData
    <2> HIDE DEF y, k, s
    <2>3. y \in Nat /\ y <= x /\ x - 3 <= y /\ y % 4 = 0
      BY <1>2 DEF y
    <2>4. y + 4 <= k + s
      BY <2>1, <2>2, <2>3
    <2>5. x \in k .. k + s - 1
      BY <1>1, <2>1, <2>2, <2>3, <2>4
    <2> QED
      BY <2>5 DEF InKernelData, k, s
  <1> QED
    BY <1>1, <1>3, <1>4

LEMMA AddressFits ==
  ASSUME NEW a, MachOk(a), NEW i, Uses(i), i.x \in Half
  PROVE  EffectiveAddress(a, i) \in Words
  <1>1. a.R[i.rs] \in Int /\ i.x \in Int
    BY Operands, WordsAre
  <1>2. Imm(i.x) \in Words
    BY <1>1, SignedInt
  <1>3. a.R[i.rs] + Imm(i.x) \in Int
    BY <1>1, <1>2, WordsAre
  <1> QED
    BY <1>3, WordFits DEF EffectiveAddress

LEMMA SizesAre ==
  ASSUME NEW op \in LoadOps \cup StoreOps
  PROVE  Size[op] \in Sizes
  BY DEF LoadOps, StoreOps, Size, Sizes

LEMMA LoadGood ==
  ASSUME NEW a, MachOk(a), NEW i, Uses(i), i.x \in Half, i.op \in LoadOps
  PROVE  Good(a, Load(a, i))
  <1> DEFINE n == Size[i.op]
             r == ReadMem(a.mem, EffectiveAddress(a, i), n)
             v == IF i.op \in {"LBU", "LHU"} THEN LowBytes(r.value, n) ELSE r.value
             q == Faults(r)
  <1>1. EffectiveAddress(a, i) \in Words /\ n \in Sizes /\ MemOk(a.mem) /\ i.rt \in AllRegs
    BY AddressFits, SizesAre, MachParts, Operands
  <1> HIDE DEF n
  <1>2. MemOk(r.mem) /\ r.value \in Words /\ r.fault \in Fault \cup {NoFault}
    BY <1>1, ReadFits
  <1>3. Load(a, i) = [Set([a EXCEPT !.mem = r.mem], i.rt, v) EXCEPT !.faults = q]
    BY DEF Load, n
  <1> HIDE DEF r
  <1>4. v \in Words /\ q \in FaultLists
    BY <1>1, <1>2, LowFits, FaultsFit DEF Sizes
  <1> HIDE DEF v, q
  <1> DEFINE d == [a EXCEPT !.mem = r.mem]
  <1>5. Good(a, [Set(d, i.rt, v) EXCEPT !.faults = q])
    BY <1>1, <1>2, <1>4, FaultyGood
  <1> QED
    BY Zenon, <1>3, <1>5

LEMMA LoadSame ==
  ASSUME NEW a, NEW b, MachOk(a), MachOk(b), Alike(a, b), NEW i, Uses(i), i.x \in Half, i.op \in LoadOps,
         Reaches(a, i)
  PROVE  Same(Load(a, i), Load(b, i))
  <1> DEFINE n == Size[i.op]
             w == EffectiveAddress(a, i)
             r == ReadMem(a.mem, w, n)
             t == ReadMem(b.mem, w, n)
             v == IF i.op \in {"LBU", "LHU"} THEN LowBytes(r.value, n) ELSE r.value
  <1>1. /\ w \in Words /\ n \in Sizes /\ i.rt \in AllRegs /\ ~InKernelData(w)
        /\ MemOk(a.mem) /\ MemOk(b.mem) /\ MemLike(a.mem, b.mem)
    BY AddressFits, SizesAre, MachParts, Operands DEF Alike, Reaches
  <1>2. EffectiveAddress(b, i) = w
    BY OperandsAlike DEF EffectiveAddress
  <1> HIDE DEF n, w
  <1>3. /\ MemOk(r.mem) /\ r.value \in Words /\ r.fault \in Fault \cup {NoFault}
        /\ MemOk(t.mem) /\ t.value \in Words /\ t.fault \in Fault \cup {NoFault}
    BY <1>1, ReadFits
  <1>4. r.value = t.value /\ r.fault = t.fault /\ MemLike(r.mem, t.mem)
    BY <1>1, ReadLike
  <1>5. Load(a, i) = [Set([a EXCEPT !.mem = r.mem], i.rt, v) EXCEPT !.faults = Faults(r)]
    BY DEF Load, n, w
  <1>6. Load(b, i) = [Set([b EXCEPT !.mem = t.mem], i.rt, v) EXCEPT !.faults = Faults(t)]
    <2> DEFINE u == IF i.op \in {"LBU", "LHU"} THEN LowBytes(t.value, n) ELSE t.value
    <2>1. Load(b, i) = [Set([b EXCEPT !.mem = t.mem], i.rt, u) EXCEPT !.faults = Faults(t)]
      BY <1>2 DEF Load, n
    <2>2. u = v
      BY <1>4
    <2> HIDE DEF u, v
    <2> QED
      BY Zenon, <2>1, <2>2
  <1> HIDE DEF r, t
  <1>7. v \in Words /\ (Faults(r) = <<>> <=> Faults(t) = <<>>)
    BY <1>1, <1>3, <1>4, LowFits, FaultsFit DEF Sizes
  <1> HIDE DEF v
  <1> DEFINE d == [a EXCEPT !.mem = r.mem]
             g == [b EXCEPT !.mem = t.mem]
  <1>8. Same([Set(d, i.rt, v) EXCEPT !.faults = Faults(r)], [Set(g, i.rt, v) EXCEPT !.faults = Faults(t)])
    BY <1>1, <1>3, <1>4, <1>7, FaultySame
  <1> QED
    BY Zenon, <1>5, <1>6, <1>8

-----------------------------------------------------------------------------
(* Stores, and accesses that are not aligned *)

LEMMA LoadPartGood ==
  ASSUME NEW a, MachOk(a), NEW i, Uses(i), i.x \in Half
  PROVE  Good(a, LoadPart(a, i))
  <1> DEFINE w == EffectiveAddress(a, i)
             r == ReadMem(a.mem, RoundDown(w), 4)
             v == IF i.op = "LWL" THEN Lwl(r.value, a.R[i.rt], w % 4) ELSE Lwr(r.value, a.R[i.rt], w % 4)
             u == IF r.fault = NoFault THEN v ELSE r.value
             q == Faults(r)
             d == [a EXCEPT !.mem = r.mem]
  <1>1. w \in Words /\ MemOk(a.mem) /\ i.rt \in AllRegs /\ a.R[i.rt] \in Words
    BY AddressFits, MachParts, Operands
  <1>2. LoadPart(a, i) = [Set(d, i.rt, u) EXCEPT !.faults = q]
    BY DEF LoadPart
  <1> HIDE DEF w
  <1>3. RoundDown(w) \in Words /\ w % 4 \in 0 .. 3 /\ 4 \in Sizes
    BY <1>1, Aligned DEF Sizes
  <1>4. MemOk(r.mem) /\ r.value \in Words /\ r.fault \in Fault \cup {NoFault}
    BY <1>1, <1>3, ReadFits
  <1> HIDE DEF r
  <1>5. u \in Words /\ q \in FaultLists
    <2>1. v \in Words
      BY <1>1, <1>3, <1>4, UnalignedFits
    <2> QED
      BY <1>4, <2>1, FaultsFit
  <1> HIDE DEF u, q
  <1>6. Good(a, [Set(d, i.rt, u) EXCEPT !.faults = q])
    BY <1>1, <1>4, <1>5, FaultyGood
  <1> QED
    BY Zenon, <1>2, <1>6

LEMMA LoadPartSame ==
  ASSUME NEW a, NEW b, MachOk(a), MachOk(b), Alike(a, b), NEW i, Uses(i), i.x \in Half, Reaches(a, i)
  PROVE  Same(LoadPart(a, i), LoadPart(b, i))
  <1> DEFINE w == EffectiveAddress(a, i)
             k == RoundDown(w)
             r == ReadMem(a.mem, k, 4)
             t == ReadMem(b.mem, k, 4)
             part(x, m1) == IF i.op = "LWL" THEN Lwl(x.value, m1.R[i.rt], w % 4)
                            ELSE Lwr(x.value, m1.R[i.rt], w % 4)
             u(x, m1) == IF x.fault = NoFault THEN part(x, m1) ELSE x.value
             d == [a EXCEPT !.mem = r.mem]
             g == [b EXCEPT !.mem = t.mem]
  <1>1. /\ w \in Words /\ i.rt \in AllRegs /\ a.R[i.rt] \in Words /\ a.R[i.rt] = b.R[i.rt]
        /\ ~InKernelData(w) /\ MemOk(a.mem) /\ MemOk(b.mem) /\ MemLike(a.mem, b.mem)
    BY AddressFits, MachParts, Operands, OperandsAlike DEF Alike, Reaches
  <1>2. EffectiveAddress(b, i) = w
    BY OperandsAlike DEF EffectiveAddress
  <1>3. LoadPart(a, i) = [Set(d, i.rt, u(r, a)) EXCEPT !.faults = Faults(r)]
    BY DEF LoadPart
  <1> HIDE DEF w
  <1>4. LoadPart(b, i) = [Set(g, i.rt, u(t, b)) EXCEPT !.faults = Faults(t)]
    BY <1>2 DEF LoadPart
  <1>5. k \in Words /\ w % 4 \in 0 .. 3 /\ 4 \in Sizes /\ ~InKernelData(k)
    BY <1>1, Aligned DEF Sizes
  <1> HIDE DEF k
  <1>6. /\ MemOk(r.mem) /\ r.value \in Words /\ r.fault \in Fault \cup {NoFault}
        /\ MemOk(t.mem) /\ t.fault \in Fault \cup {NoFault}
    BY <1>1, <1>5, ReadFits
  <1>7. r.value = t.value /\ r.fault = t.fault /\ MemLike(r.mem, t.mem)
    BY <1>1, <1>5, ReadLike
  <1> HIDE DEF r, t
  <1>8. u(r, a) = u(t, b)
    BY <1>1, <1>7
  <1>9. u(r, a) \in Words /\ (Faults(r) = <<>> <=> Faults(t) = <<>>)
    <2>1. part(r, a) \in Words
      BY <1>1, <1>5, <1>6, UnalignedFits
    <2> HIDE DEF part
    <2> QED
      BY <1>6, <1>7, <2>1, FaultsFit
  <1> HIDE DEF u
  <1>10. Same([Set(d, i.rt, u(r, a)) EXCEPT !.faults = Faults(r)],
              [Set(g, i.rt, u(r, a)) EXCEPT !.faults = Faults(t)])
    BY <1>1, <1>6, <1>7, <1>9, FaultySame
  <1> QED
    BY Zenon, <1>3, <1>4, <1>8, <1>10

LEMMA StoreGood ==
  ASSUME NEW a, MachOk(a), NEW i, Uses(i), i.x \in Half, i.op \in StoreOps
  PROVE  Good(a, Store(a, i))
  <1> DEFINE n == Size[i.op]
             r == SetMem(a.mem, EffectiveAddress(a, i), a.R[i.rt], n)
             q == Faults(r)
             d == [a EXCEPT !.mem = r.mem]
  <1>1. EffectiveAddress(a, i) \in Words /\ n \in Sizes /\ MemOk(a.mem) /\ a.R[i.rt] \in Words
    BY AddressFits, SizesAre, MachParts, Operands
  <1> HIDE DEF n
  <1>2. MemOk(r.mem) /\ r.fault \in Fault \cup {NoFault}
    BY <1>1, WriteFits
  <1>3. Store(a, i) = [Plain(d) EXCEPT !.faults = q]
    BY DEF Store, n
  <1> HIDE DEF r
  <1>4. q \in FaultLists /\ "zero" \in AllRegs /\ 0 \in Words
    BY <1>2, FaultsFit, OwnIs, WordsAre
  <1> HIDE DEF q
  <1>5. Good(a, [Plain(d) EXCEPT !.faults = q])
    BY <1>2, <1>4, FaultyGood
  <1> QED
    BY Zenon, <1>3, <1>5

LEMMA StoreSame ==
  ASSUME NEW a, NEW b, MachOk(a), MachOk(b), Alike(a, b), NEW i, Uses(i), i.x \in Half, i.op \in StoreOps,
         Reaches(a, i)
  PROVE  Same(Store(a, i), Store(b, i))
  <1> DEFINE n == Size[i.op]
             w == EffectiveAddress(a, i)
             v == a.R[i.rt]
             r == SetMem(a.mem, w, v, n)
             t == SetMem(b.mem, w, v, n)
             d == [a EXCEPT !.mem = r.mem]
             g == [b EXCEPT !.mem = t.mem]
  <1>1. /\ w \in Words /\ n \in Sizes /\ v \in Words /\ ~InKernelData(w)
        /\ MemOk(a.mem) /\ MemOk(b.mem) /\ MemLike(a.mem, b.mem)
    BY AddressFits, SizesAre, MachParts, Operands DEF Alike, Reaches
  <1>2. EffectiveAddress(b, i) = w /\ b.R[i.rt] = v
    BY OperandsAlike DEF EffectiveAddress
  <1>3. Store(a, i) = [Plain(d) EXCEPT !.faults = Faults(r)]
    BY DEF Store
  <1> HIDE DEF w, v
  <1>4. Store(b, i) = [Plain(g) EXCEPT !.faults = Faults(t)]
    BY <1>2 DEF Store
  <1> HIDE DEF n
  <1>5. /\ MemOk(r.mem) /\ r.fault \in Fault \cup {NoFault}
        /\ MemOk(t.mem) /\ t.fault \in Fault \cup {NoFault}
    BY <1>1, WriteFits
  <1>6. r.fault = t.fault /\ MemLike(r.mem, t.mem)
    BY <1>1, WriteLike
  <1> HIDE DEF r, t
  <1>7. Faults(r) = <<>> <=> Faults(t) = <<>>
    BY <1>5, <1>6, FaultsFit
  <1>8. "zero" \in AllRegs /\ 0 \in Words
    BY OwnIs, WordsAre
  <1>9. Same([Plain(d) EXCEPT !.faults = Faults(r)], [Plain(g) EXCEPT !.faults = Faults(t)])
    BY <1>5, <1>6, <1>7, <1>8, FaultySame
  <1> QED
    BY Zenon, <1>3, <1>4, <1>9

LEMMA StorePartGood ==
  ASSUME NEW a, MachOk(a), NEW i, Uses(i), i.x \in Half
  PROVE  Good(a, StorePart(a, i))
  <1> DEFINE w == EffectiveAddress(a, i)
             old == ReadMem(a.mem, RoundDown(w), 4)
             v == IF i.op = "SWL" THEN Swl(old.value, a.R[i.rt], w % 4)
                  ELSE Swr(old.value, a.R[i.rt], w % 4)
             r == SetMem(old.mem, RoundDown(w), v, 4)
             q == Faults(old) \o Faults(r)
             d == [a EXCEPT !.mem = r.mem]
  <1>1. w \in Words /\ MemOk(a.mem) /\ a.R[i.rt] \in Words
    BY AddressFits, MachParts, Operands
  <1>2. StorePart(a, i) = [Plain(d) EXCEPT !.faults = q]
    BY DEF StorePart
  <1> HIDE DEF w
  <1>3. RoundDown(w) \in Words /\ w % 4 \in 0 .. 3 /\ 4 \in Sizes
    BY <1>1, Aligned DEF Sizes
  <1>4. MemOk(old.mem) /\ old.value \in Words /\ old.fault \in Fault \cup {NoFault}
    BY <1>1, <1>3, ReadFits
  <1> HIDE DEF old
  <1>5. v \in Words
    BY <1>1, <1>3, <1>4, UnalignedFits
  <1> HIDE DEF v
  <1>6. MemOk(r.mem) /\ r.fault \in Fault \cup {NoFault}
    BY <1>3, <1>4, <1>5, WriteFits
  <1> HIDE DEF r
  <1>7. q \in FaultLists /\ "zero" \in AllRegs /\ 0 \in Words
    BY <1>4, <1>6, TwoFaults, OwnIs, WordsAre
  <1> HIDE DEF q
  <1>8. Good(a, [Plain(d) EXCEPT !.faults = q])
    BY <1>6, <1>7, FaultyGood
  <1> QED
    BY Zenon, <1>2, <1>8

LEMMA StorePartSame ==
  ASSUME NEW a, NEW b, MachOk(a), MachOk(b), Alike(a, b), NEW i, Uses(i), i.x \in Half, Reaches(a, i)
  PROVE  Same(StorePart(a, i), StorePart(b, i))
  <1> DEFINE w == EffectiveAddress(a, i)
             k == RoundDown(w)
             old == ReadMem(a.mem, k, 4)
             new == ReadMem(b.mem, k, 4)
             part(x, m1) == IF i.op = "SWL" THEN Swl(x.value, m1.R[i.rt], w % 4)
                            ELSE Swr(x.value, m1.R[i.rt], w % 4)
             r == SetMem(old.mem, k, part(old, a), 4)
             t == SetMem(new.mem, k, part(new, b), 4)
             d == [a EXCEPT !.mem = r.mem]
             g == [b EXCEPT !.mem = t.mem]
             q == Faults(old) \o Faults(r)
             s == Faults(new) \o Faults(t)
  <1>1. /\ w \in Words /\ a.R[i.rt] \in Words /\ a.R[i.rt] = b.R[i.rt]
        /\ ~InKernelData(w) /\ MemOk(a.mem) /\ MemOk(b.mem) /\ MemLike(a.mem, b.mem)
    BY AddressFits, MachParts, Operands, OperandsAlike DEF Alike, Reaches
  <1>2. EffectiveAddress(b, i) = w
    BY OperandsAlike DEF EffectiveAddress
  <1>3. StorePart(a, i) = [Plain(d) EXCEPT !.faults = q]
    BY DEF StorePart
  <1> HIDE DEF w
  <1>4. StorePart(b, i) = [Plain(g) EXCEPT !.faults = s]
    BY <1>2 DEF StorePart
  <1>5. k \in Words /\ w % 4 \in 0 .. 3 /\ 4 \in Sizes /\ ~InKernelData(k)
    BY <1>1, Aligned DEF Sizes
  <1> HIDE DEF k
  <1>6. /\ MemOk(old.mem) /\ old.value \in Words /\ old.fault \in Fault \cup {NoFault}
        /\ MemOk(new.mem) /\ new.fault \in Fault \cup {NoFault}
    BY <1>1, <1>5, ReadFits
  <1>7. old.value = new.value /\ old.fault = new.fault /\ MemLike(old.mem, new.mem)
    BY <1>1, <1>5, ReadLike
  <1> HIDE DEF old, new
  <1>8. part(old, a) = part(new, b)
    BY <1>1, <1>7
  <1>9. part(old, a) \in Words
    BY <1>1, <1>5, <1>6, UnalignedFits
  <1> HIDE DEF part
  <1>10. /\ MemOk(r.mem) /\ r.fault \in Fault \cup {NoFault}
         /\ MemOk(t.mem) /\ t.fault \in Fault \cup {NoFault}
    BY <1>5, <1>6, <1>8, <1>9, WriteFits
  <1>11. r.fault = t.fault /\ MemLike(r.mem, t.mem)
    BY <1>5, <1>6, <1>7, <1>8, <1>9, WriteLike
  <1> HIDE DEF r, t
  <1>12. q = <<>> <=> s = <<>>
    BY <1>6, <1>7, <1>10, <1>11, TwoFaults
  <1>13. "zero" \in AllRegs /\ 0 \in Words
    BY OwnIs, WordsAre
  <1> HIDE DEF q, s
  <1>14. Same([Plain(d) EXCEPT !.faults = q], [Plain(g) EXCEPT !.faults = s])
    BY <1>10, <1>11, <1>12, <1>13, FaultySame
  <1> QED
    BY Zenon, <1>3, <1>4, <1>14

-----------------------------------------------------------------------------
(* System calls and break *)

LEMMA HandlerLen == Len(Handler) \in Nat
  OBVIOUS

LEMMA ExpandLike ==
  ASSUME NEW o, NEW q, MemOk(o), MemOk(q), MemLike(o, q), NEW b \in Int
  PROVE  MemLike(ExpandData(o, b), ExpandData(q, b))
  <1>1. /\ o.data_top = q.data_top /\ o.stack_bot = q.stack_bot /\ o.text = q.text
        /\ o.data = q.data /\ o.stack = q.stack /\ o.special = q.special
    BY DEF MemLike, Shared
  <1> DEFINE size == o.data_top - DATA_BOT + RoundUpWord(b)
             f == [i \in 0 .. size - 1 |-> IF i \in DOMAIN o.data THEN o.data[i] ELSE 0]
             p(x) == ExpandData(x, b)
  <1>2. p(o) = [o EXCEPT !.data_top = DATA_BOT + size, !.data = f]
    BY DEF ExpandData
  <1>3. p(q) = [q EXCEPT !.data_top = DATA_BOT + size, !.data = f]
    BY <1>1 DEF ExpandData
  <1>4. \A x \in {o, q} : p(x).text = x.text /\ p(x).stack = x.stack /\ p(x).special = x.special
                          /\ p(x).stack_bot = x.stack_bot
    BY ExpandDataFits
  <1> HIDE DEF f, size, p
  <1>5. /\ p(o).data_top = DATA_BOT + size /\ p(o).data = f
        /\ p(q).data_top = DATA_BOT + size /\ p(q).data = f
    BY <1>2, <1>3 DEF MemOk, MemFields
  <1> QED
    BY <1>1, <1>4, <1>5 DEF MemLike, Shared, p

LEMMA TopFits ==
  ASSUME NEW o, MemOk(o), Apart(o)
  PROVE  o.data_top \in Words
  <1>1. o.data_top \in Int /\ DATA_BOT < o.data_top /\ o.data_top <= o.stack_bot
        /\ o.stack_bot \in Int /\ o.stack_bot <= STACK_TOP
    BY DEF MemOk, MemBounds, Apart
  <1>2. DATA_BOT \in Nat /\ STACK_TOP \in Nat /\ STACK_TOP < W
    <2>1. /\ STACK_TOP \in Nat /\ EXCEPTION_ADDR \in Nat /\ K_DATA_BOT \in Nat
          /\ K_DATA_SIZE \in Nat
          /\ STACK_TOP <= EXCEPTION_ADDR /\ K_DATA_BOT + K_DATA_SIZE + H <= W /\ DATA_BOT \in Nat
          /\ 72 <= K_DATA_SIZE
      BY Layout
    <2>2. W \in Nat /\ H \in Nat
      BY Tops
    <2>3. EXCEPTION_ADDR <= K_DATA_BOT
      <3>1. EXCEPTION_ADDR + 4 * Len(Handler) <= K_DATA_BOT
        BY CpuAssumption
      <3>2. Len(Handler) \in Nat
        BY HandlerLen
      <3> QED
        BY <2>1, <3>1, <3>2
    <2> QED
      BY <2>1, <2>2, <2>3
  <1>3. W \in Nat
    BY Tops
  <1>4. o.data_top \in 0 .. W - 1
    BY <1>1, <1>2, <1>3
  <1> QED
    BY <1>4, WordsAre

LEMMA LeavingIs ==
  ASSUME NEW a
  PROVE  [Plain(a) EXCEPT !.leave = TRUE] = Eff(a, Word(a.PC + BYTES_PER_WORD), <<>>, TRUE)
  <1> DEFINE n == Word(a.PC + BYTES_PER_WORD)
             none == <<>>
             no == FALSE
             yes == TRUE
  <1>1. Plain(a) = Eff(a, n, none, no)
    BY PlainIs DEF Quiet
  <1> HIDE DEF n, none, no, yes
  <1>2. [Eff(a, n, none, no) EXCEPT !.leave = yes] = Eff(a, n, none, yes)
    BY DEF Eff
  <1>3. [Plain(a) EXCEPT !.leave = yes] = Eff(a, n, none, yes)
    BY Zenon, <1>1, <1>2
  <1> QED
    BY Zenon, <1>3 DEF n, none, yes

LEMMA SystemCallGood ==
  ASSUME NEW a, MachOk(a), Apart(a.mem), NEW input \in Words
  PROVE  Good(a, SystemCall(a, input))
  <1> DEFINE v0 == a.R.v0
             a0 == Signed(a.R.a0)
             d == [a EXCEPT !.mem = ExpandData(a.mem, a0)]
  <1>1. "v0" \in AllRegs
    BY OwnIs
  <1>2. Good(a, [Plain(a) EXCEPT !.leave = TRUE])
    <2> DEFINE n == Word(a.PC + BYTES_PER_WORD)
    <2>1. [Plain(a) EXCEPT !.leave = TRUE] = Eff(a, n, <<>>, TRUE)
      BY LeavingIs
    <2>2. n \in Words /\ <<>> \in FaultLists
      BY NextFits, MachParts, NoFaults
    <2>3. Good(a, Eff(a, n, <<>>, TRUE))
      BY <2>2, GoodEff
    <2> QED
      BY <2>1, <2>3
  <1>3. Good(a, Set(a, "v0", input)) /\ Good(a, Plain(a))
    BY <1>1, SetGood, PlainGood
  <1>4. Good(a, Set(d, "v0", a.mem.data_top))
    <2>1. a0 \in Int /\ MemOk(a.mem) /\ a.mem.data_top \in Words
      <3>1. a.R.a0 \in Int
        BY OwnIs, MachParts, WordsAre
      <3>2. MemOk(a.mem)
        BY MachParts
      <3> QED
        BY <3>1, <3>2, SignedInt, TopFits
    <2> HIDE DEF a0
    <2>2. MemOk(ExpandData(a.mem, a0))
      BY <2>1, ExpandDataFits
    <2>3. MachOk(d)
      BY <2>2, WithMemFits
    <2>4. d.cp0 = a.cp0 /\ d.PC = a.PC
      BY WithMem
    <2> HIDE DEF d
    <2> DEFINE p == [d EXCEPT !.R["v0"] = a.mem.data_top]
    <2>5. MachOk(p)
      BY <1>1, <2>1, <2>3, WithRegFits
    <2>6. p.cp0 = a.cp0 /\ p.PC = a.PC
      BY <1>1, <2>3, <2>4, WithReg
    <2>7. Set(d, "v0", a.mem.data_top) = Quiet(p, Word(a.PC + BYTES_PER_WORD))
      BY <2>4, SetIs
    <2>8. Word(a.PC + BYTES_PER_WORD) \in Words
      BY NextFits, MachParts
    <2> HIDE DEF p
    <2> QED
      BY <2>5, <2>6, <2>7, <2>8, QuietGood
  <1>5. SystemCall(a, input) \in {[Plain(a) EXCEPT !.leave = TRUE], Set(a, "v0", input),
                                  Set(d, "v0", a.mem.data_top), Plain(a)}
    BY DEF SystemCall, ExitCalls, ReadNumber, ReadCharacter, SbrkCall
  <1> QED
    BY <1>2, <1>3, <1>4, <1>5

LEMMA SystemCallSame ==
  ASSUME NEW a, NEW b, MachOk(a), MachOk(b), Alike(a, b), Apart(a.mem), NEW input \in Words
  PROVE  Same(SystemCall(a, input), SystemCall(b, input))
  <1> DEFINE v0 == a.R.v0
             a0 == Signed(a.R.a0)
             top == a.mem.data_top
             d == [a EXCEPT !.mem = ExpandData(a.mem, a0)]
             g == [b EXCEPT !.mem = ExpandData(b.mem, a0)]
  <1>1. "v0" \in AllRegs /\ b.R.v0 = a.R.v0 /\ b.R.a0 = a.R.a0 /\ b.mem.data_top = top
    <2>1. "v0" \in AllRegs /\ "v0" \in Own /\ "a0" \in Own
      BY OwnIs
    <2>2. "data_top" \in Shared
      BY DEF Shared
    <2> QED
      BY <2>1, <2>2 DEF Alike, MemLike
  <1>2. Same([Plain(a) EXCEPT !.leave = TRUE], [Plain(b) EXCEPT !.leave = TRUE])
    <2> DEFINE n == Word(a.PC + BYTES_PER_WORD)
    <2>1. [Plain(a) EXCEPT !.leave = TRUE] = Eff(a, n, <<>>, TRUE)
      BY LeavingIs
    <2>2. [Plain(b) EXCEPT !.leave = TRUE] = Eff(b, n, <<>>, TRUE)
      BY LeavingIs DEF Alike
    <2>3. Same(Eff(a, n, <<>>, TRUE), Eff(b, n, <<>>, TRUE))
      BY SameEff
    <2> QED
      BY <2>1, <2>2, <2>3
  <1>3. Same(Set(a, "v0", input), Set(b, "v0", input)) /\ Same(Plain(a), Plain(b))
    BY <1>1, SetSame, PlainSame
  <1>4. Same(Set(d, "v0", top), Set(g, "v0", top))
    <2>1. a0 \in Int /\ MemOk(a.mem) /\ MemOk(b.mem) /\ MemLike(a.mem, b.mem)
      <3>1. a.R.a0 \in Int
        BY OwnIs, MachParts, WordsAre
      <3> QED
        BY <3>1, MachParts, SignedInt DEF Alike
    <2> HIDE DEF a0
    <2>2. MemOk(ExpandData(a.mem, a0)) /\ MemOk(ExpandData(b.mem, a0))
      BY <2>1, ExpandDataFits
    <2>3. MemLike(ExpandData(a.mem, a0), ExpandData(b.mem, a0))
      BY <2>1, ExpandLike
    <2>4. MachOk(d) /\ MachOk(g)
      BY <2>2, WithMemFits
    <2>5. Alike(d, g)
      BY <2>3, WithMemAlike
    <2> HIDE DEF d, g, top
    <2> QED
      BY <1>1, <2>4, <2>5, SetSame
  <1>5. SystemCall(a, input) =
          CASE v0 \in ExitCalls -> [Plain(a) EXCEPT !.leave = TRUE]
            [] v0 \in {ReadNumber, ReadCharacter} -> Set(a, "v0", input)
            [] v0 = SbrkCall -> Set(d, "v0", top)
            [] OTHER -> Plain(a)
    BY DEF SystemCall
  <1>6. SystemCall(b, input) =
          CASE v0 \in ExitCalls -> [Plain(b) EXCEPT !.leave = TRUE]
            [] v0 \in {ReadNumber, ReadCharacter} -> Set(b, "v0", input)
            [] v0 = SbrkCall -> Set(g, "v0", top)
            [] OTHER -> Plain(b)
    BY <1>1 DEF SystemCall
  <1> DEFINE xa == [Plain(a) EXCEPT !.leave = TRUE]
             xb == [Plain(b) EXCEPT !.leave = TRUE]
  <1> HIDE DEF d, g, v0, top, xa, xb
  <1> QED
    BY <1>2, <1>3, <1>4, <1>5, <1>6 DEF ExitCalls, ReadNumber, ReadCharacter, SbrkCall, xa, xb

LEMMA BreakIs ==
  ASSUME NEW a, NEW i
  PROVE  LET l == (i.x = 1)
         IN  Break(a, i) = Eff(a, Word(a.PC + BYTES_PER_WORD), <<[code |-> "Bp", addr |-> a.cp0.BadVAddr]>>, l)
  <1> DEFINE l == (i.x = 1)
             n == Word(a.PC + BYTES_PER_WORD)
             q == <<[code |-> "Bp", addr |-> a.cp0.BadVAddr]>>
             no == FALSE
  <1>1. Break(a, i) = [Raising(a, "Bp") EXCEPT !.leave = l]
    BY DEF Break
  <1>2. Raising(a, "Bp") = Eff(a, n, q, no)
    BY RaisingIs
  <1> HIDE DEF l, n, q, no
  <1>3. [Eff(a, n, q, no) EXCEPT !.leave = l] = Eff(a, n, q, l)
    BY DEF Eff
  <1>4. Break(a, i) = Eff(a, n, q, l)
    BY Zenon, <1>1, <1>2, <1>3
  <1> QED
    BY Zenon, <1>4 DEF l, n, q

LEMMA BreakGood ==
  ASSUME NEW a, MachOk(a), NEW i
  PROVE  Good(a, Break(a, i))
  <1> DEFINE f == [code |-> "Bp", addr |-> a.cp0.BadVAddr]
             l == (i.x = 1)
             n == Word(a.PC + BYTES_PER_WORD)
  <1>1. f \in Fault
    <2>1. a.cp0.BadVAddr \in Words /\ "Bp" \in DOMAIN ExcCode
      BY MachParts DEF Cp0s, Cp0Names, ExcCode
    <2> QED
      BY <2>1 DEF Fault
  <1>2. Break(a, i) = Eff(a, n, <<f>>, l)
    BY BreakIs
  <1>3. n \in Words
    BY NextFits, MachParts
  <1>4. l \in BOOLEAN
    OBVIOUS
  <1> HIDE DEF f, l, n
  <1>5. <<f>> \in FaultLists /\ <<f>> # <<>>
    BY <1>1, NoFaults
  <1>6. Good(a, Eff(a, n, <<f>>, l))
    BY <1>3, <1>4, <1>5, GoodEff DEF n
  <1> QED
    BY Zenon, <1>2, <1>6

LEMMA BreakSame ==
  ASSUME NEW a, NEW b, Alike(a, b), NEW i
  PROVE  Same(Break(a, i), Break(b, i))
  <1> DEFINE q(x) == <<[code |-> "Bp", addr |-> x.cp0.BadVAddr]>>
             l == (i.x = 1)
             n == Word(a.PC + BYTES_PER_WORD)
  <1>1. Break(a, i) = Eff(a, n, q(a), l)
    BY BreakIs
  <1>2. Break(b, i) = Eff(b, n, q(b), l)
    BY BreakIs DEF Alike
  <1>3. q(a) # <<>> /\ q(b) # <<>>
    OBVIOUS
  <1> HIDE DEF q, l, n
  <1>4. Same(Eff(a, n, q(a), l), Eff(b, n, q(b), l))
    BY <1>3, SameEff
  <1> QED
    BY Zenon, <1>1, <1>2, <1>4

-----------------------------------------------------------------------------
(* Coprocessor 0 *)

LEMMA AndFits ==
  ASSUME NEW x \in Words, NEW y \in Nat
  PROVE  BitAnd(x, y) \in Words
  <1>1. x \in Nat /\ x \in 0 .. W - 1
    BY WordsAre
  <1>2. And[x][y] <= x /\ And[x][y] \in Nat
    BY <1>1, AndBelow, AndIs
  <1>3. W \in Nat
    BY Tops
  <1>4. And[x][y] \in 0 .. W - 1
    BY <1>1, <1>2, <1>3
  <1> QED
    BY <1>4, WordsAre DEF BitAnd

LEMMA MasksAre ==
  /\ BD + IP + ExcCodeBits \in Nat /\ BitNot(IP7) \in Nat
  /\ CU + UM + IM + EXL + IE \in Nat /\ Second(CU + UM + IM + EXL + IE) = 1
  /\ CU01 + UM \in Words /\ Second(CU01 + UM) = 0
  /\ CU01 + IM + UM \in Words /\ Second(CU01 + IM + UM) = 0
  <1> DEFINE b == 2^(WordBits - 4)
             c == 2^(WordBits - 8)
             t == 2^(WordBits - 1)
  <1>1. b \in Nat /\ c \in Nat /\ t \in Nat /\ b = 16 * c /\ W = 16 * b /\ IM < c
    BY Tops
  <1>2. W \in Nat /\ BitNot(IP7) = W - 1 - IP7
    BY Tops DEF BitNot, W
  <1> HIDE DEF b, c, t
  <1>3. BD = t /\ CU = 15 * b /\ CU01 = 3 * b
    BY DEF BD, CU, CU01, b, t
  <1>4. BD + IP + ExcCodeBits \in Nat
    BY <1>1, <1>3 DEF IP, ExcCodeBits
  <1>5. BitNot(IP7) \in Nat
    BY <1>1, <1>2 DEF IM, IP7
  <1>6. CU + UM + IM + EXL + IE = 4 * (60 * c + 16324) + 3
    BY <1>1, <1>3 DEF UM, IM, EXL, IE
  <1>7. CU01 + UM = 4 * (12 * c + 4)
    BY <1>1, <1>3 DEF UM
  <1>8. CU01 + IM + UM = 4 * (12 * c + 16324)
    BY <1>1, <1>3 DEF UM, IM
  <1>9. CU01 + UM < W /\ CU01 + IM + UM < W
    BY <1>1, <1>3 DEF UM, IM
  <1>10. ASSUME NEW k \in Nat PROVE Second(4 * k) = 0 /\ Second(4 * k + 3) = 1
    <2>1. (4 * k) \div 2 = 2 * k /\ (4 * k + 3) \div 2 = 2 * k + 1
      OBVIOUS
    <2>2. (2 * k) % 2 = 0 /\ (2 * k + 1) % 2 = 1
      OBVIOUS
    <2> QED
      BY <2>1, <2>2 DEF Second
  <1>11. 60 * c + 16324 \in Nat /\ 12 * c + 4 \in Nat /\ 12 * c + 16324 \in Nat
    BY <1>1
  <1>12. /\ Second(CU + UM + IM + EXL + IE) = 1 /\ Second(CU01 + UM) = 0
         /\ Second(CU01 + IM + UM) = 0
    BY <1>6, <1>7, <1>8, <1>10, <1>11
  <1>13. CU + UM + IM + EXL + IE \in Nat /\ CU01 + UM \in Nat /\ CU01 + IM + UM \in Nat
    BY <1>6, <1>7, <1>8, <1>11
  <1>14. CU01 + UM \in Words /\ CU01 + IM + UM \in Words
    <2> DEFINE x == CU01 + UM
               y == CU01 + IM + UM
    <2> HIDE DEF x, y
    <2>1. x \in 0 .. W - 1 /\ y \in 0 .. W - 1
      BY <1>2, <1>9, <1>13 DEF x, y
    <2> QED
      BY <2>1, WordsAre DEF x, y
  <1> QED
    BY <1>4, <1>5, <1>12, <1>13, <1>14

LEMMA WithCp0 ==
  ASSUME NEW a, MachOk(a), NEW c
  PROVE  LET d == [a EXCEPT !.cp0 = c]
         IN  MachFields(d) /\ d.R = a.R /\ d.hilo = a.hilo /\ d.cp0 = c /\ d.PC = a.PC /\ d.mem = a.mem
  BY MachParts DEF MachFields

LEMMA WithCp0Fits ==
  ASSUME NEW a, MachOk(a), NEW c \in Cp0s
  PROVE  MachOk([a EXCEPT !.cp0 = c])
  <1> DEFINE d == [a EXCEPT !.cp0 = c]
  <1>1. MachFields(d) /\ d.R = a.R /\ d.hilo = a.hilo /\ d.cp0 = c /\ d.PC = a.PC /\ d.mem = a.mem
    BY WithCp0
  <1> HIDE DEF d
  <1> QED
    BY <1>1 DEF MachOk, d

StatusOf(v) == BitOr(BitAnd(v, CU + UM + IM + EXL + IE), CU01 + UM)

\* The mask of mtc0 keeps EXL.
LEMMA StatusKeeps ==
  ASSUME NEW v \in Words
  PROVE  StatusOf(v) \in Words /\ Second(StatusOf(v)) = Second(v)
  <1> DEFINE k == CU + UM + IM + EXL + IE
             u == CU01 + UM
             x == BitAnd(v, k)
  <1>1. v \in Nat /\ k \in Nat /\ u \in Words /\ u \in Nat /\ Second(k) = 1 /\ Second(u) = 0
    BY MasksAre, WordsAre
  <1> HIDE DEF k, u
  <1>2. x \in Words /\ x \in Nat
    BY <1>1, AndFits, WordsAre
  <1>3. Second(x) = Second(v)
    <2>1. Second(And[v][k]) = Second(v) * Second(k) /\ Second(v) \in 0 .. 1
      BY <1>1, AndBits
    <2>2. Second(v) * 1 = Second(v)
      BY <2>1
    <2> QED
      BY <1>1, <2>1, <2>2 DEF BitAnd
  <1> HIDE DEF x
  <1>4. Second(BitOr(x, u)) = Second(x)
    <2> DEFINE p == x \div 2
               q == u \div 2
               s == (x % 2) + (u % 2) - (x % 2) * (u % 2)
               y == BitOr(p, q)
    <2>1. BitOr(x, u) = 2 * y + s /\ s \in 0 .. 1
      BY <1>1, <1>2, OrStep
    <2>2. p \in Nat /\ q \in Nat
      BY <1>1, <1>2
    <2>3. (p % 2) = Second(x) /\ (q % 2) = 0
      BY <1>1 DEF Second
    <2> HIDE DEF p, q, s
    <2>4. /\ y = 2 * BitOr(p \div 2, q \div 2) + ((p % 2) + (q % 2) - (p % 2) * (q % 2))
      BY <2>2, OrStep
    <2>5. y \in Nat /\ BitOr(p \div 2, q \div 2) \in Nat
      <3>1. p \div 2 \in Nat /\ q \div 2 \in Nat
        BY <2>2
      <3> QED
        BY <2>2, <3>1, OrType
    <2>6. Second(x) \in 0 .. 1
      BY <1>2, SecondIs
    <2>7. y = 2 * BitOr(p \div 2, q \div 2) + Second(x)
      <3> DEFINE z == BitOr(p \div 2, q \div 2)
      <3> HIDE DEF z
      <3>1. (p % 2) * (q % 2) = 0 /\ (p % 2) + (q % 2) - 0 = Second(x)
        BY <2>3, <2>6
      <3>2. y = 2 * z + ((p % 2) + (q % 2) - (p % 2) * (q % 2))
        BY <2>4 DEF z
      <3>3. y = 2 * z + Second(x)
        BY <3>1, <3>2
      <3> QED
        BY <3>3 DEF z
    <2> DEFINE z == BitOr(p \div 2, q \div 2)
    <2> HIDE DEF y, z
    <2>8. (y % 2) = Second(x)
      BY <2>5, <2>6, <2>7 DEF z
    <2>9. (2 * y + s) \div 2 = y
      BY <2>1, <2>5
    <2> QED
      BY <2>1, <2>8, <2>9 DEF Second
  <1>5. BitOr(x, u) \in Words
    BY <1>1, <1>2, BitWords
  <1> QED
    BY <1>3, <1>4, <1>5 DEF StatusOf, x, k, u

\* mtc0 to Status goes through a mask and sets the bits that are always set.
LEMMA WriteIs ==
  ASSUME NEW a, MachOk(a), NEW i, i.rt \in AllRegs, i.x \in {"Status", "Cause", "Compare", "EPC"}
  PROVE  \E c \in Cp0s :
           /\ WriteCp0(a, i) = Quiet([a EXCEPT !.cp0 = c], Word(a.PC + BYTES_PER_WORD))
           /\ c.Status = IF i.x = "Status" THEN StatusOf(a.R[i.rt]) ELSE a.cp0.Status
           /\ c.EPC = IF i.x = "EPC" THEN a.R[i.rt] ELSE a.cp0.EPC
  <1> DEFINE v == a.R[i.rt]
             w == CASE i.x = "Status" -> StatusOf(v)
                    [] i.x = "Cause" -> BitAnd(v, BD + IP + ExcCodeBits)
                    [] OTHER -> v
             d == [a.cp0 EXCEPT ![i.x] = w]
             u == BitAnd(d.Cause, BitNot(IP7))
             c == IF i.x = "Compare" THEN [d EXCEPT !.Cause = u] ELSE d
             n == Word(a.PC + BYTES_PER_WORD)
  <1>1. a.cp0 \in Cp0s /\ v \in Words
    BY MachParts
  <1>2. WriteCp0(a, i) = [Plain(a) EXCEPT !.m.cp0 = c]
    BY DEF WriteCp0, StatusOf
  <1>3. w \in Words
    <2>1. StatusOf(v) \in Words /\ BitAnd(v, BD + IP + ExcCodeBits) \in Words
      BY <1>1, StatusKeeps, AndFits, MasksAre
    <2> HIDE DEF v
    <2> QED
      BY <1>1, <2>1
  <1>4. i.x = "Status" => w = StatusOf(v)
    OBVIOUS
  <1>5. i.x = "EPC" => w = v
    OBVIOUS
  <1> HIDE DEF w, v
  <1>6. /\ d \in Cp0s /\ d.Status = (IF i.x = "Status" THEN w ELSE a.cp0.Status)
        /\ d.EPC = (IF i.x = "EPC" THEN w ELSE a.cp0.EPC)
    BY <1>1, <1>3 DEF Cp0s, Cp0Names
  <1> HIDE DEF d
  <1>7. u \in Words
    <2>1. d.Cause \in Words
      BY <1>6 DEF Cp0s, Cp0Names
    <2> QED
      BY <2>1, AndFits, MasksAre
  <1> HIDE DEF u
  <1>8. c \in Cp0s /\ c.Status = d.Status /\ c.EPC = d.EPC
    BY <1>6, <1>7 DEF Cp0s, Cp0Names
  <1> HIDE DEF c
  <1>9. WriteCp0(a, i) = Quiet([a EXCEPT !.cp0 = c], n)
    <2> DEFINE none == <<>>
               no == FALSE
    <2>1. Plain(a) = Eff(a, n, none, no)
      BY PlainIs DEF Quiet
    <2> HIDE DEF n, none, no
    <2>2. [Eff(a, n, none, no) EXCEPT !.m.cp0 = c] = Eff([a EXCEPT !.cp0 = c], n, none, no)
      BY DEF Eff
    <2>3. WriteCp0(a, i) = Eff([a EXCEPT !.cp0 = c], n, none, no)
      BY Zenon, <1>2, <2>1, <2>2
    <2> QED
      BY Zenon, <2>3 DEF none, no, Quiet
  <1>10. c.Status = IF i.x = "Status" THEN StatusOf(v) ELSE a.cp0.Status
    BY <1>4, <1>6, <1>8
  <1>11. c.EPC = IF i.x = "EPC" THEN v ELSE a.cp0.EPC
    BY <1>5, <1>6, <1>8
  <1> QED
    BY <1>8, <1>9, <1>10, <1>11 DEF v

LEMMA WriteCp0Good ==
  ASSUME NEW a, MachOk(a), NEW i, Uses(i), i.x \in {"Cause", "Compare"}
  PROVE  Good(a, WriteCp0(a, i))
  <1> DEFINE n == Word(a.PC + BYTES_PER_WORD)
  <1>1. i.rt \in AllRegs /\ n \in Words /\ <<>> \in FaultLists
    BY Operands, NextFits, MachParts, NoFaults
  <1>2. PICK c \in Cp0s :
          /\ WriteCp0(a, i) = Quiet([a EXCEPT !.cp0 = c], n)
          /\ c.Status = a.cp0.Status /\ c.EPC = a.cp0.EPC
    BY <1>1, WriteIs
  <1> DEFINE d == [a EXCEPT !.cp0 = c]
             e == Quiet(d, n)
  <1>3. d.cp0 = c /\ d.PC = a.PC
    BY WithCp0
  <1>4. MachOk(d)
    BY WithCp0Fits
  <1>5. e.m = d /\ e.next = n /\ e.faults = <<>> /\ e.leave = FALSE
    BY DEF Quiet, Eff
  <1> HIDE DEF d, e, n
  <1>6. Good(a, e)
    BY <1>1, <1>2, <1>3, <1>4, <1>5 DEF Good
  <1> QED
    BY Zenon, <1>2, <1>6 DEF e, d

LEMMA WriteCp0Same ==
  ASSUME NEW a, NEW b, MachOk(a), MachOk(b), Alike(a, b), NEW i, Uses(i), i.x \in {"Cause", "Compare"}
  PROVE  Same(WriteCp0(a, i), WriteCp0(b, i))
  <1> DEFINE n == Word(a.PC + BYTES_PER_WORD)
  <1>1. i.rt \in AllRegs /\ a.PC = b.PC
    BY Operands DEF Alike
  <1>2. PICK c \in Cp0s : WriteCp0(a, i) = Quiet([a EXCEPT !.cp0 = c], n)
    BY <1>1, WriteIs
  <1>3. PICK k \in Cp0s : WriteCp0(b, i) = Quiet([b EXCEPT !.cp0 = k], n)
    BY <1>1, WriteIs
  <1> DEFINE d == [a EXCEPT !.cp0 = c]
             g == [b EXCEPT !.cp0 = k]
  <1>4. /\ d.R = a.R /\ d.hilo = a.hilo /\ d.PC = a.PC /\ d.mem = a.mem
        /\ g.R = b.R /\ g.hilo = b.hilo /\ g.PC = b.PC /\ g.mem = b.mem
    BY WithCp0
  <1> HIDE DEF d, g, n
  <1>5. Alike(d, g)
    BY <1>4 DEF Alike
  <1>6. Same(Quiet(d, n), Quiet(g, n))
    BY <1>5, QuietSame
  <1> QED
    BY Zenon, <1>2, <1>3, <1>6 DEF d, g

-----------------------------------------------------------------------------
(* Every instruction *)

\* Execute, case by case.
LEMMA ExecuteIs ==
  ASSUME NEW m1, NEW i, NEW input
  PROVE  /\ i.op \in ValueOps => Execute(m1, i, input) = Calculate(m1, i)
         /\ i.op \in HiLoOps => Execute(m1, i, input) = MultiplyOrDivide(m1, i)
         /\ i.op \in {"MFHI", "MFLO"} => Execute(m1, i, input) = MoveFrom(m1, i)
         /\ i.op \in {"MOVN", "MOVZ"} => Execute(m1, i, input) = ConditionalMove(m1, i)
         /\ i.op \in TrapOps => Execute(m1, i, input) = Trap(m1, i)
         /\ i.op \in BranchOps => Execute(m1, i, input) = Branch(m1, i)
         /\ i.op \in JumpOps => Execute(m1, i, input) = Jump(m1, i)
         /\ i.op \in LoadOps => Execute(m1, i, input) = Load(m1, i)
         /\ i.op \in {"LWL", "LWR"} => Execute(m1, i, input) = LoadPart(m1, i)
         /\ i.op \in StoreOps => Execute(m1, i, input) = Store(m1, i)
         /\ i.op \in {"SWL", "SWR"} => Execute(m1, i, input) = StorePart(m1, i)
         /\ i.op \in {"MFC0"} => Execute(m1, i, input) = ReadCp0(m1, i)
         /\ i.op \in {"MTC0"} => Execute(m1, i, input) = WriteCp0(m1, i)
         /\ i.op \in {"ERET"} => Execute(m1, i, input) = ReturnFromException(m1)
         /\ i.op \in {"SYSCALL"} => Execute(m1, i, input) = SystemCall(m1, input)
         /\ i.op \in {"BREAK"} => Execute(m1, i, input) = Break(m1, i)
         /\ i.op \in ReservedOps => Execute(m1, i, input) = Raising(m1, "RI")
         /\ i.op \in Cop2Ops => Execute(m1, i, input) = Raising(m1, "CpU")
         /\ i.op \in IdleOps => Execute(m1, i, input) = Plain(m1)
  <1>1. ASSUME i.op \in ValueOps PROVE Execute(m1, i, input) = Calculate(m1, i)
    BY <1>1 DEF Execute, ValueOps, RegisterOps, ShiftOps, ImmediateOps, TrappingOps, HiLoOps,
       TrapOps, BranchOps, JumpOps, LoadOps, StoreOps, ReservedOps, Cop2Ops, IdleOps
  <1>2. ASSUME i.op \in HiLoOps PROVE Execute(m1, i, input) = MultiplyOrDivide(m1, i)
    BY <1>2 DEF Execute, ValueOps, RegisterOps, ShiftOps, ImmediateOps, TrappingOps, HiLoOps,
       TrapOps, BranchOps, JumpOps, LoadOps, StoreOps, ReservedOps, Cop2Ops, IdleOps
  <1>3. ASSUME i.op \in {"MFHI", "MFLO"} PROVE Execute(m1, i, input) = MoveFrom(m1, i)
    BY <1>3 DEF Execute, ValueOps, RegisterOps, ShiftOps, ImmediateOps, TrappingOps, HiLoOps,
       TrapOps, BranchOps, JumpOps, LoadOps, StoreOps, ReservedOps, Cop2Ops, IdleOps
  <1>4. ASSUME i.op \in {"MOVN", "MOVZ"} PROVE Execute(m1, i, input) = ConditionalMove(m1, i)
    BY <1>4 DEF Execute, ValueOps, RegisterOps, ShiftOps, ImmediateOps, TrappingOps, HiLoOps,
       TrapOps, BranchOps, JumpOps, LoadOps, StoreOps, ReservedOps, Cop2Ops, IdleOps
  <1>5. ASSUME i.op \in TrapOps PROVE Execute(m1, i, input) = Trap(m1, i)
    BY <1>5 DEF Execute, ValueOps, RegisterOps, ShiftOps, ImmediateOps, TrappingOps, HiLoOps,
       TrapOps, BranchOps, JumpOps, LoadOps, StoreOps, ReservedOps, Cop2Ops, IdleOps
  <1>6. ASSUME i.op \in BranchOps PROVE Execute(m1, i, input) = Branch(m1, i)
    BY <1>6 DEF Execute, ValueOps, RegisterOps, ShiftOps, ImmediateOps, TrappingOps, HiLoOps,
       TrapOps, BranchOps, JumpOps, LoadOps, StoreOps, ReservedOps, Cop2Ops, IdleOps
  <1>7. ASSUME i.op \in JumpOps PROVE Execute(m1, i, input) = Jump(m1, i)
    BY <1>7 DEF Execute, ValueOps, RegisterOps, ShiftOps, ImmediateOps, TrappingOps, HiLoOps,
       TrapOps, BranchOps, JumpOps, LoadOps, StoreOps, ReservedOps, Cop2Ops, IdleOps
  <1>8. ASSUME i.op \in LoadOps PROVE Execute(m1, i, input) = Load(m1, i)
    BY <1>8 DEF Execute, ValueOps, RegisterOps, ShiftOps, ImmediateOps, TrappingOps, HiLoOps,
       TrapOps, BranchOps, JumpOps, LoadOps, StoreOps, ReservedOps, Cop2Ops, IdleOps
  <1>9. ASSUME i.op \in {"LWL", "LWR"} PROVE Execute(m1, i, input) = LoadPart(m1, i)
    BY <1>9 DEF Execute, ValueOps, RegisterOps, ShiftOps, ImmediateOps, TrappingOps, HiLoOps,
       TrapOps, BranchOps, JumpOps, LoadOps, StoreOps, ReservedOps, Cop2Ops, IdleOps
  <1>10. ASSUME i.op \in StoreOps PROVE Execute(m1, i, input) = Store(m1, i)
    BY <1>10 DEF Execute, ValueOps, RegisterOps, ShiftOps, ImmediateOps, TrappingOps, HiLoOps,
       TrapOps, BranchOps, JumpOps, LoadOps, StoreOps, ReservedOps, Cop2Ops, IdleOps
  <1>11. ASSUME i.op \in {"SWL", "SWR"} PROVE Execute(m1, i, input) = StorePart(m1, i)
    BY <1>11 DEF Execute, ValueOps, RegisterOps, ShiftOps, ImmediateOps, TrappingOps, HiLoOps,
       TrapOps, BranchOps, JumpOps, LoadOps, StoreOps, ReservedOps, Cop2Ops, IdleOps
  <1>12. ASSUME i.op \in {"MFC0"} PROVE Execute(m1, i, input) = ReadCp0(m1, i)
    BY <1>12 DEF Execute, ValueOps, RegisterOps, ShiftOps, ImmediateOps, TrappingOps, HiLoOps,
       TrapOps, BranchOps, JumpOps, LoadOps, StoreOps, ReservedOps, Cop2Ops, IdleOps
  <1>13. ASSUME i.op \in {"MTC0"} PROVE Execute(m1, i, input) = WriteCp0(m1, i)
    BY <1>13 DEF Execute, ValueOps, RegisterOps, ShiftOps, ImmediateOps, TrappingOps, HiLoOps,
       TrapOps, BranchOps, JumpOps, LoadOps, StoreOps, ReservedOps, Cop2Ops, IdleOps
  <1>14. ASSUME i.op \in {"ERET"} PROVE Execute(m1, i, input) = ReturnFromException(m1)
    BY <1>14 DEF Execute, ValueOps, RegisterOps, ShiftOps, ImmediateOps, TrappingOps, HiLoOps,
       TrapOps, BranchOps, JumpOps, LoadOps, StoreOps, ReservedOps, Cop2Ops, IdleOps
  <1>15. ASSUME i.op \in {"SYSCALL"} PROVE Execute(m1, i, input) = SystemCall(m1, input)
    BY <1>15 DEF Execute, ValueOps, RegisterOps, ShiftOps, ImmediateOps, TrappingOps, HiLoOps,
       TrapOps, BranchOps, JumpOps, LoadOps, StoreOps, ReservedOps, Cop2Ops, IdleOps
  <1>16. ASSUME i.op \in {"BREAK"} PROVE Execute(m1, i, input) = Break(m1, i)
    BY <1>16 DEF Execute, ValueOps, RegisterOps, ShiftOps, ImmediateOps, TrappingOps, HiLoOps,
       TrapOps, BranchOps, JumpOps, LoadOps, StoreOps, ReservedOps, Cop2Ops, IdleOps
  <1>17. ASSUME i.op \in ReservedOps PROVE Execute(m1, i, input) = Raising(m1, "RI")
    BY <1>17 DEF Execute, ValueOps, RegisterOps, ShiftOps, ImmediateOps, TrappingOps, HiLoOps,
       TrapOps, BranchOps, JumpOps, LoadOps, StoreOps, ReservedOps, Cop2Ops, IdleOps
  <1>18. ASSUME i.op \in Cop2Ops PROVE Execute(m1, i, input) = Raising(m1, "CpU")
    BY <1>18 DEF Execute, ValueOps, RegisterOps, ShiftOps, ImmediateOps, TrappingOps, HiLoOps,
       TrapOps, BranchOps, JumpOps, LoadOps, StoreOps, ReservedOps, Cop2Ops, IdleOps
  <1>19. ASSUME i.op \in IdleOps PROVE Execute(m1, i, input) = Plain(m1)
    BY <1>19 DEF Execute, ValueOps, RegisterOps, ShiftOps, ImmediateOps, TrappingOps, HiLoOps,
       TrapOps, BranchOps, JumpOps, LoadOps, StoreOps, ReservedOps, Cop2Ops, IdleOps
  <1> QED
    BY <1>1, <1>2, <1>3, <1>4, <1>5, <1>6, <1>7, <1>8, <1>9, <1>10, <1>11, <1>12, <1>13, <1>14,
       <1>15, <1>16, <1>17, <1>18, <1>19

LEMMA HalfField ==
  ASSUME NEW i, Uses(i), i.op \in BranchOps \cup AccessOps
  PROVE  i.x \in Half
  <1>1. i.op \notin {"SLL", "SRL", "SRA", "J", "JAL", "MTC0"}
    BY DEF BranchOps, AccessOps, LoadOps, StoreOps
  <1> QED
    BY <1>1, FieldIs DEF Uses

\* The kinds of instructions of the program.
LEMMA UserOpsAre ==
  ASSUME NEW op \in UserOps
  PROVE  \/ op \in ValueOps
         \/ op \in HiLoOps
         \/ op \in {"MFHI", "MFLO"}
         \/ op \in {"MOVN", "MOVZ"}
         \/ op \in TrapOps
         \/ op \in BranchOps
         \/ op \in JumpOps
         \/ op \in LoadOps
         \/ op \in {"LWL", "LWR"}
         \/ op \in StoreOps
         \/ op \in {"SWL", "SWR"}
         \/ op \in {"MTC0"}
         \/ op \in {"SYSCALL"}
         \/ op \in {"BREAK"}
         \/ op \in ReservedOps
         \/ op \in Cop2Ops
         \/ op \in IdleOps
  BY DEF UserOps, AccessOps

\* The type of a machine is kept by every instruction of the program, and PC, Status and EPC
\* are left to the end of the step.
THEOREM UserGood ==
  ASSUME NEW a, MachOk(a), Apart(a.mem), NEW i, i.op \in UserOps, Uses(i), NEW input \in Words
  PROVE  Good(a, Execute(a, i, input))
  <1>1. CASE i.op \in ValueOps
    BY <1>1, ExecuteIs, CalculateGood
  <1>2. CASE i.op \in HiLoOps
    BY <1>2, ExecuteIs, MultiplyGood
  <1>3. CASE i.op \in {"MFHI", "MFLO"}
    BY <1>3, ExecuteIs, MoveGood
  <1>4. CASE i.op \in {"MOVN", "MOVZ"}
    BY <1>4, ExecuteIs, MoveGood
  <1>5. CASE i.op \in TrapOps
    BY <1>5, ExecuteIs, TrapGood
  <1>6. CASE i.op \in BranchOps
    <2>1. i.x \in Half
      BY <1>6, HalfField
    <2> QED
      BY <1>6, ExecuteIs, BranchGood, <2>1
  <1>7. CASE i.op \in JumpOps
    BY <1>7, ExecuteIs, JumpGood
  <1>8. CASE i.op \in LoadOps
    <2>1. i.x \in Half /\ i.op \in AccessOps
      BY <1>8, HalfField DEF AccessOps
    <2> QED
      BY <1>8, ExecuteIs, LoadGood, <2>1
  <1>9. CASE i.op \in {"LWL", "LWR"}
    <2>1. i.x \in Half /\ i.op \in AccessOps
      BY <1>9, HalfField DEF AccessOps
    <2> QED
      BY <1>9, ExecuteIs, LoadPartGood, <2>1
  <1>10. CASE i.op \in StoreOps
    <2>1. i.x \in Half /\ i.op \in AccessOps
      BY <1>10, HalfField DEF AccessOps
    <2> QED
      BY <1>10, ExecuteIs, StoreGood, <2>1
  <1>11. CASE i.op \in {"SWL", "SWR"}
    <2>1. i.x \in Half /\ i.op \in AccessOps
      BY <1>11, HalfField DEF AccessOps
    <2> QED
      BY <1>11, ExecuteIs, StorePartGood, <2>1
  <1>12. CASE i.op \in {"MTC0"}
    <2>1. i.x \in {"Cause", "Compare"}
      BY <1>12, FieldIs DEF Uses
    <2> QED
      BY <1>12, ExecuteIs, WriteCp0Good, <2>1
  <1>13. CASE i.op \in {"SYSCALL"}
    BY <1>13, ExecuteIs, SystemCallGood
  <1>14. CASE i.op \in {"BREAK"}
    BY <1>14, ExecuteIs, BreakGood
  <1>15. CASE i.op \in ReservedOps
    BY <1>15, ExecuteIs, TrapGood
  <1>16. CASE i.op \in Cop2Ops
    BY <1>16, ExecuteIs, TrapGood
  <1>17. CASE i.op \in IdleOps
    BY <1>17, ExecuteIs, PlainGood
  <1> QED
    BY UserOpsAre, <1>1, <1>2, <1>3, <1>4, <1>5, <1>6, <1>7, <1>8, <1>9, <1>10, <1>11, <1>12,
       <1>13, <1>14, <1>15, <1>16, <1>17

\* Every instruction of the program does the same on two machines that differ in the kernel's
\* part only: it reads nothing of the kernel's.
THEOREM UserSame ==
  ASSUME NEW a, NEW b, MachOk(a), MachOk(b), Alike(a, b), Apart(a.mem), NEW i, i.op \in UserOps, Uses(i),
         i.op \in AccessOps => Reaches(a, i), NEW input \in Words
  PROVE  Same(Execute(a, i, input), Execute(b, i, input))
  <1>1. CASE i.op \in ValueOps
    BY <1>1, ExecuteIs, CalculateSame
  <1>2. CASE i.op \in HiLoOps
    BY <1>2, ExecuteIs, MultiplySame
  <1>3. CASE i.op \in {"MFHI", "MFLO"}
    BY <1>3, ExecuteIs, MoveSame
  <1>4. CASE i.op \in {"MOVN", "MOVZ"}
    BY <1>4, ExecuteIs, MoveSame
  <1>5. CASE i.op \in TrapOps
    BY <1>5, ExecuteIs, TrapSame
  <1>6. CASE i.op \in BranchOps
    <2>1. i.x \in Half
      BY <1>6, HalfField
    <2> QED
      BY <1>6, ExecuteIs, BranchSame, <2>1
  <1>7. CASE i.op \in JumpOps
    BY <1>7, ExecuteIs, JumpSame
  <1>8. CASE i.op \in LoadOps
    <2>1. i.x \in Half /\ i.op \in AccessOps
      BY <1>8, HalfField DEF AccessOps
    <2>2. Reaches(a, i)
      BY <2>1
    <2> QED
      BY <1>8, ExecuteIs, LoadSame, <2>1, <2>2
  <1>9. CASE i.op \in {"LWL", "LWR"}
    <2>1. i.x \in Half /\ i.op \in AccessOps
      BY <1>9, HalfField DEF AccessOps
    <2>2. Reaches(a, i)
      BY <2>1
    <2> QED
      BY <1>9, ExecuteIs, LoadPartSame, <2>1, <2>2
  <1>10. CASE i.op \in StoreOps
    <2>1. i.x \in Half /\ i.op \in AccessOps
      BY <1>10, HalfField DEF AccessOps
    <2>2. Reaches(a, i)
      BY <2>1
    <2> QED
      BY <1>10, ExecuteIs, StoreSame, <2>1, <2>2
  <1>11. CASE i.op \in {"SWL", "SWR"}
    <2>1. i.x \in Half /\ i.op \in AccessOps
      BY <1>11, HalfField DEF AccessOps
    <2>2. Reaches(a, i)
      BY <2>1
    <2> QED
      BY <1>11, ExecuteIs, StorePartSame, <2>1, <2>2
  <1>12. CASE i.op \in {"MTC0"}
    <2>1. i.x \in {"Cause", "Compare"}
      BY <1>12, FieldIs DEF Uses
    <2> QED
      BY <1>12, ExecuteIs, WriteCp0Same, <2>1
  <1>13. CASE i.op \in {"SYSCALL"}
    BY <1>13, ExecuteIs, SystemCallSame
  <1>14. CASE i.op \in {"BREAK"}
    BY <1>14, ExecuteIs, BreakSame
  <1>15. CASE i.op \in ReservedOps
    BY <1>15, ExecuteIs, TrapSame
  <1>16. CASE i.op \in Cop2Ops
    BY <1>16, ExecuteIs, TrapSame
  <1>17. CASE i.op \in IdleOps
    BY <1>17, ExecuteIs, PlainSame
  <1> QED
    BY UserOpsAre, <1>1, <1>2, <1>3, <1>4, <1>5, <1>6, <1>7, <1>8, <1>9, <1>10, <1>11, <1>12,
       <1>13, <1>14, <1>15, <1>16, <1>17
==============================================================================
