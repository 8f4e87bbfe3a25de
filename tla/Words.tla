-------------------------------- MODULE Words --------------------------------
(***************************************************************************)
(* The integers of the simulated machine.  A word is four bytes, and a     *)
(* byte is ByteBits bits wide: 8 in the machine, fewer in the instances    *)
(* that TLC checks, where all words can be enumerated.  Words are          *)
(* represented by the numbers 0 .. 2^32 - 1 (u_reg_word); reg_word, which  *)
(* is signed, is Signed of them.                                           *)
(***************************************************************************)
EXTENDS Integers, FiniteSetsExt

CONSTANT ByteBits

ASSUME ByteBitsAssumption == ByteBits \in Nat \ {0}

BYTES_PER_WORD == 4
HalfBits == 2 * ByteBits
WordBits == 4 * ByteBits

Byte == 0 .. 2^ByteBits - 1
Half == 0 .. 2^HalfBits - 1
Words == 0 .. 2^WordBits - 1

\* What is kept of a result.
Word(x) == x % 2^WordBits

\* An n-bit number as a signed one, and a signed number as a word.
SignedOf(x, n) == IF x >= 2^(n - 1) THEN x - 2^n ELSE x
Signed(x) == SignedOf(x, WordBits)
SignExtend(x, n) == Word(SignedOf(x, n))
ShortValue(x) == SignedOf(x % 2^HalfBits, HalfBits)

Low(x) == x % 2^HalfBits
High(x) == x \div 2^HalfBits
SIGN_BIT(x) == x \div 2^(WordBits - 1)

RoundDown(a) == a - (a % BYTES_PER_WORD)
RoundUpWord(n) == RoundDown(n + BYTES_PER_WORD - 1)

\* Bits.
BitAt(x, i) == (x \div 2^i) % 2
And[x \in Nat] ==
  [y \in Nat |->
     IF x = 0 \/ y = 0 THEN 0 ELSE 2 * And[x \div 2][y \div 2] + (x % 2) * (y % 2)]
BitAnd(x, y) == And[x][y]
BitOr(x, y)  == x + y - And[x][y]
BitXor(x, y) == x + y - 2 * And[x][y]
BitNot(x)    == 2^WordBits - 1 - x
=============================================================================
