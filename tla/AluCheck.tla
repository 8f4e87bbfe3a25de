------------------------------- MODULE AluCheck -------------------------------
(***************************************************************************)
(* The integer instructions against arithmetic: one instruction of Alu is  *)
(* executed on operands of every value, and the result is compared with    *)
(* what the architecture asks for, stated on mathematical integers.        *)
(***************************************************************************)
EXTENDS Alu

CONSTANTS
  His, Los     \* what HI and LO hold before

\* What the proofs need of powers of two.
ASSUME PowersAssumption ==
  /\ {2^WordBits, 2^(WordBits - 1), 2^HalfBits, 2^(HalfBits - 1)} \subseteq Nat \ {0}
  /\ 2^WordBits = 2 * 2^(WordBits - 1) /\ 2^HalfBits = 2 * 2^(HalfBits - 1)
  /\ 2^HalfBits * 2^HalfBits = 2^WordBits /\ 2^WordBits * 2^WordBits = 2^(2 * WordBits)
  /\ \A k \in 0 .. 4 : /\ 2^(k * ByteBits) \in Nat \ {0}
                       /\ 2^(k * ByteBits) * 2^((4 - k) * ByteBits) = 2^WordBits

ASSUME RegistersAssumption == His \subseteq Words /\ Los \subseteq Words

VARIABLES
  op,          \* the instruction that was executed, "none" before
  s, t,        \* its operands; the immediate field is the low half of t
  old, new,    \* HI and LO before and after
  result,      \* what is written to the register
  fault        \* whether an overflow is raised instead
vars == <<op, s, t, old, new, result, fault>>

Init ==
  /\ op = "none" /\ s \in Words /\ t \in Words
  /\ \E h \in His, l \in Los : old = Pair(h, l)
  /\ new = old /\ result = 0 /\ fault = FALSE

Add(o) ==
  /\ op = "none" /\ op' = o
  /\ fault' = Overflows(o, s, t, Low(t))
  /\ result' = IF fault' THEN 0 ELSE Value(o, s, t, Low(t))
  /\ UNCHANGED <<s, t, old, new>>

MultiplyDivide(o) ==
  /\ op = "none" /\ op' = o
  /\ new' = HiLo(o, s, t, old)
  /\ UNCHANGED <<s, t, old, result, fault>>

Next ==
  \/ \E o \in TrappingOps : Add(o)
  \/ \E o \in HiLoOps : MultiplyDivide(o)

Spec == Init /\ [][Next]_vars

-----------------------------------------------------------------------------
(* Properties *)

\* The two registers as one number, and a product as the instruction takes its operands.
Long(p) == p.hi * 2^WordBits + p.lo
Product ==
  IF op \in {"MULT", "MUL", "MADD", "MSUB"} THEN Signed(s) * Signed(t) ELSE s * t

\* signed_multiply and unsigned_multiply, which work by halves with hand-made carries, and
\* the carries and borrows of madd and msub between LO and HI: together HI and LO hold
\* the sum of the products, modulo a double word.
ProductsExact ==
  /\ op \in {"MULT", "MULTU", "MUL"} => Long(new) = Product % 2^(2 * WordBits)
  /\ op \in {"MADD", "MADDU"} => Long(new) = (Long(old) + Product) % 2^(2 * WordBits)
  /\ op \in {"MSUB", "MSUBU"} => Long(new) = (Long(old) - Product) % 2^(2 * WordBits)

\* ARITH_OVFL and its like for sub compare signs: an overflow is raised exactly when the
\* result, as a number, does not fit in a word, and the result is right otherwise.
OverflowExact ==
  LET exact == CASE op = "ADD" -> Signed(s) + Signed(t)
                 [] op = "ADDI" -> Signed(s) + ShortValue(Low(t))
                 [] op = "SUB" -> Signed(s) - Signed(t)
  IN  op \in TrappingOps =>
        /\ fault <=> exact \notin -(2^(WordBits - 1)) .. 2^(WordBits - 1) - 1
        /\ ~fault => Signed(result) = exact

\* div and divu: quotient and remainder make up the dividend, the remainder is smaller than
\* the divisor and has the dividend's sign.  A division that has no result leaves HI and
\* LO alone (run.cpp:421, "undefined on divide by zero or overflow").
DivisionLaw ==
  /\ op = "DIV" /\ Divides(s, t) =>
       LET q == Signed(new.lo)  r == Signed(new.hi)
       IN  /\ q * Signed(t) + r = Signed(s)
           /\ r * r < Signed(t) * Signed(t) /\ r * Signed(s) >= 0
  /\ op = "DIVU" /\ Divides(s, t) =>
       new.lo * t + new.hi = s /\ new.hi < t
  /\ op \in {"DIV", "DIVU"} /\ t = 0 => new = old
  /\ op = "DIV" /\ Signed(s) = -(2^(WordBits - 1)) /\ Signed(t) = -1 => new = old

\* What add, addi, sub, div and divu leave is the exact result, or nothing is left where there
\* is none: at the two ends of the range of a word and at the divisors 0 and -1.
ExactOrNoResult == OverflowExact /\ DivisionLaw

\* The pairs of instructions for unaligned words, at each place in the words s and t that
\* lie one after the other: lwl and lwr, in either order, load the word that starts there,
\* and swl and swr store a word there and leave the other bytes as they are.
UnalignedPairs ==
  \A k \in 0 .. 3 :
    LET word(a, b) == (a + b * 2^WordBits) \div 2^(k * ByteBits) % 2^WordBits
        left == (k + 3) % 4
        upper == IF k = 0 THEN s ELSE t
        reg == old.hi
    IN  /\ Lwr(s, Lwl(upper, reg, left), k) = word(s, t)
        /\ Lwl(upper, Lwr(s, reg, k), left) = word(s, t)
        /\ LET s1 == Swr(s, reg, k)
               both == IF k = 0 THEN <<Swl(s1, reg, left), t>> ELSE <<s1, Swl(t, reg, left)>>
           IN  /\ word(both[1], both[2]) = reg
               /\ LowBytes(both[1], k) = LowBytes(s, k)
               /\ HighBytes(both[2], 4 - k) = HighBytes(t, 4 - k)
=============================================================================
