--------------------------------- MODULE Alu ---------------------------------
(***************************************************************************)
(* run.cpp: what the integer instructions compute from their operands.  s  *)
(* and t are the contents of the registers rs and rt, x the immediate      *)
(* field (a half) or the shift count.  Words are unsigned; where the code  *)
(* computes with reg_word, which is signed, Signed says so.                *)
(*                                                                         *)
(* CarryLost, BorrowByDifference, OverflowByAddends, RemainderOfMagnitudes *)
(* and LwrKeepsLow are not the code but mistakes next to it, which the     *)
(* properties must tell from the code.                                     *)
(***************************************************************************)
EXTENDS Words

Flag(b) == IF b THEN 1 ELSE 0

\* (short) IMM as a word: sign-extended.
Imm(x) == Word(ShortValue(x))

\* The shift count of SLLV, SRLV and SRAV: the low bits of rs, 5 of them in 32-bit words.
Count(s) == s % WordBits

\* CLO and CLZ count down from bit 31 to the first bit that is not b.
Leading(x, b) == WordBits - 1 - Max({-1} \cup {i \in 0 .. WordBits - 1 : BitAt(x, i) # b})

-----------------------------------------------------------------------------
(* Instructions that write one register *)

RegisterOps ==
  {"ADDU", "SUBU", "AND", "OR", "XOR", "NOR", "SLT", "SLTU", "SLLV", "SRLV", "SRAV", "CLO", "CLZ"}
ShiftOps == {"SLL", "SRL", "SRA"}
ImmediateOps == {"ADDIU", "ANDI", "ORI", "XORI", "LUI", "SLTI", "SLTIU"}
TrappingOps == {"ADD", "ADDI", "SUB"}
ValueOps == RegisterOps \cup ShiftOps \cup ImmediateOps \cup TrappingOps

ShiftLeft(v, n) == Word(v * 2^n)
ShiftRight(v, n) == v \div 2^n
ShiftArithmetic(v, n) == Word(Signed(v) \div 2^n)

Value(op, s, t, x) ==
  CASE op \in {"ADD", "ADDU"} -> Word(s + t)
    [] op \in {"ADDI", "ADDIU"} -> Word(s + Imm(x))
    [] op \in {"SUB", "SUBU"} -> Word(s - t)
    [] op = "AND" -> BitAnd(s, t)
    [] op = "ANDI" -> BitAnd(s, x)
    [] op = "OR" -> BitOr(s, t)
    [] op = "ORI" -> BitOr(s, x)
    [] op = "XOR" -> BitXor(s, t)
    [] op = "XORI" -> BitXor(s, x)
    [] op = "NOR" -> BitNot(BitOr(s, t))
    [] op = "LUI" -> x * 2^HalfBits
    [] op = "SLT" -> Flag(Signed(s) < Signed(t))
    [] op = "SLTI" -> Flag(Signed(s) < ShortValue(x))
    [] op = "SLTU" -> Flag(s < t)
    [] op = "SLTIU" -> Flag(s < Imm(x))
    [] op = "SLL" -> ShiftLeft(t, x)
    [] op = "SRL" -> ShiftRight(t, x)
    [] op = "SRA" -> ShiftArithmetic(t, x)
    [] op = "SLLV" -> ShiftLeft(t, Count(s))
    [] op = "SRLV" -> ShiftRight(t, Count(s))
    [] op = "SRAV" -> ShiftArithmetic(t, Count(s))
    [] op = "CLO" -> Leading(s, 1)
    [] op = "CLZ" -> Leading(s, 0)

\* ARITH_OVFL compares signs.
ArithOvfl(result, op1, op2) ==
  SIGN_BIT(op1) = SIGN_BIT(op2) /\ SIGN_BIT(op1) # SIGN_BIT(result)

OverflowByAddends(op, s, t, x) ==
  \/ op = "ADD" /\ ArithOvfl(Word(s + t), s, t)
  \/ op = "ADDI" /\ ArithOvfl(Word(s + Imm(x)), s, Imm(x))
  \/ op = "SUB" /\ SIGN_BIT(s) = SIGN_BIT(t) /\ SIGN_BIT(s) # SIGN_BIT(Word(s - t))

Overflows(op, s, t, x) ==
  \/ op = "ADD" /\ ArithOvfl(Word(s + t), s, t)
  \/ op = "ADDI" /\ ArithOvfl(Word(s + Imm(x)), s, Imm(x))
  \/ op = "SUB" /\ SIGN_BIT(s) # SIGN_BIT(t) /\ SIGN_BIT(s) # SIGN_BIT(Word(s - t))

-----------------------------------------------------------------------------
(* Conditions of branches, traps and conditional moves *)

BranchTaken(op, s, t) ==
  CASE op \in {"BEQ", "BEQL"} -> s = t
    [] op \in {"BNE", "BNEL"} -> s # t
    [] op \in {"BGEZ", "BGEZL", "BGEZAL", "BGEZALL"} -> SIGN_BIT(s) = 0
    [] op \in {"BLTZ", "BLTZL", "BLTZAL", "BLTZALL"} -> SIGN_BIT(s) # 0
    [] op \in {"BGTZ", "BGTZL"} -> s # 0 /\ SIGN_BIT(s) = 0
    [] op \in {"BLEZ", "BLEZL"} -> s = 0 \/ SIGN_BIT(s) # 0

TrapTaken(op, s, t, x) ==
  CASE op = "TEQ" -> s = t
    [] op = "TEQI" -> s = Imm(x)
    [] op = "TNE" -> s # t
    [] op = "TNEI" -> s # Imm(x)
    [] op = "TGE" -> Signed(s) >= Signed(t)
    [] op = "TGEI" -> Signed(s) >= ShortValue(x)
    [] op = "TGEU" -> s >= t
    [] op = "TGEIU" -> s >= Imm(x)
    [] op = "TLT" -> Signed(s) < Signed(t)
    [] op = "TLTI" -> Signed(s) < ShortValue(x)
    [] op = "TLTU" -> s < t
    [] op = "TLTIU" -> s < Imm(x)

MoveDone(op, t) == (op = "MOVN" /\ t # 0) \/ (op = "MOVZ" /\ t = 0)

-----------------------------------------------------------------------------
(* HI and LO *)

Pair(h, l) == [hi |-> h, lo |-> l]

CarryLost(v1, v2) ==
  LET a == High(v1)  b == Low(v1)  c == High(v2)  d == Low(v2)
      mid2 == Word(Word(a * d) + Word(c * b) + High(b * d))
  IN  Pair(Word(a * c + High(mid2)), Low(b * d) + Low(mid2) * 2^HalfBits)

\* unsigned_multiply: by halves, with the carries out of the middle column.
UnsignedMultiply(v1, v2) ==
  LET a == High(v1)  b == Low(v1)  c == High(v2)  d == Low(v2)
      bd == Word(b * d)
      ad == Word(a * d)
      cb == Word(c * b)
      ac == Word(a * c)
      mid == Word(ad + cb)
      mid2 == Word(mid + High(bd))
      carry_mid == Flag(mid < ad \/ mid < cb) + Flag(mid2 < mid \/ mid2 < High(bd))
  IN  Pair(Word(ac + carry_mid * 2^HalfBits + High(mid2)), Low(bd) + Low(mid2) * 2^HalfBits)

\* signed_multiply: of the magnitudes, and then the two's complement of the pair.
Negate(v) == Word(-v)
NegatePair(p) ==
  LET lo == Word(BitNot(p.lo) + 1)
  IN  Pair(Word(BitNot(p.hi) + Flag(lo = 0)), lo)
Magnitude(v) == IF Signed(v) < 0 THEN Negate(v) ELSE v

SignedMultiply(v1, v2) ==
  LET p == UnsignedMultiply(Magnitude(v1), Magnitude(v2))
  IN  IF SIGN_BIT(v1) # SIGN_BIT(v2) THEN NegatePair(p) ELSE p

Multiply(op, s, t) ==
  IF op \in {"MULT", "MUL", "MADD", "MSUB"} THEN SignedMultiply(s, t) ELSE UnsignedMultiply(s, t)

AddTo(old, p) ==
  LET tmp == Word(old.lo + p.lo)
  IN  Pair(Word(old.hi + Flag(tmp < p.lo \/ tmp < old.lo) + p.hi), tmp)

BorrowByDifference(old, p) ==
  LET tmp == Word(old.lo - p.lo)
  IN  Pair(Word(old.hi - Flag(tmp > old.lo \/ tmp = 0) - p.hi), tmp)

SubtractFrom(old, p) ==
  Pair(Word(old.hi - Flag(p.lo > old.lo) - p.hi), Word(old.lo - p.lo))

\* C's division truncates.
Quotient(x, y) ==
  LET q == (IF x < 0 THEN -x ELSE x) \div (IF y < 0 THEN -y ELSE y)
  IN  IF (x < 0) # (y < 0) THEN -q ELSE q

RemainderOfMagnitudes(x, y) == (IF x < 0 THEN -x ELSE x) % (IF y < 0 THEN -y ELSE y)
Remainder(x, y) == x - Quotient(x, y) * y

\* Both divisions leave the pair alone for 0x80000000 and 0xffffffff, which overflow only
\* when they are signed.
Divides(s, t) == t # 0 /\ ~(s = 2^(WordBits - 1) /\ t = 2^WordBits - 1)

HiLoOps == {"MULT", "MULTU", "MUL", "MADD", "MADDU", "MSUB", "MSUBU", "DIV", "DIVU", "MTHI", "MTLO"}

HiLo(op, s, t, old) ==
  CASE op \in {"MULT", "MULTU", "MUL"} -> Multiply(op, s, t)
    [] op \in {"MADD", "MADDU"} -> AddTo(old, Multiply(op, s, t))
    [] op \in {"MSUB", "MSUBU"} -> SubtractFrom(old, Multiply(op, s, t))
    [] op = "DIV" /\ Divides(s, t) ->
         Pair(Word(Remainder(Signed(s), Signed(t))), Word(Quotient(Signed(s), Signed(t))))
    [] op = "DIVU" /\ Divides(s, t) -> Pair(s % t, s \div t)
    [] op = "MTHI" -> [old EXCEPT !.hi = s]
    [] op = "MTLO" -> [old EXCEPT !.lo = s]
    [] OTHER -> old

-----------------------------------------------------------------------------
(* Unaligned words, the least significant byte first: byte is the place of the address in *)
(* its word.                                                                               *)

LowBytes(v, n) == v % 2^(n * ByteBits)
HighBytes(v, n) == v - LowBytes(v, 4 - n)
Up(v, n) == v * 2^(n * ByteBits)
Down(v, n) == v \div 2^(n * ByteBits)

LwrKeepsLow(word, reg, byte) == LowBytes(reg, byte) + HighBytes(word, 4 - byte)

Lwl(word, reg, byte) == Up(LowBytes(word, byte + 1), 3 - byte) + LowBytes(reg, 3 - byte)
Lwr(word, reg, byte) == HighBytes(reg, byte) + Down(HighBytes(word, 4 - byte), byte)
Swl(word, reg, byte) == HighBytes(word, 3 - byte) + Down(reg, 3 - byte)
Swr(word, reg, byte) == Up(LowBytes(reg, 4 - byte), byte) + LowBytes(word, byte)
=============================================================================
