------------------------------ MODULE Expansion ------------------------------
(***************************************************************************)
(* Pseudo-instructions: the sequences of instructions that parser.y and    *)
(* inst.cpp make of them, and what a sequence does when it is executed.    *)
(*                                                                         *)
(* A statement is a record [op, d, a, b, v]: d is the destination, a and b *)
(* are the sources, and b is Immediate when v, a word, takes its place; d, *)
(* a and v of an access to memory are the register, the base and the       *)
(* offset.  In an instruction imm is the immediate field, the shift count, *)
(* or how far a branch goes, with TheLabel for the label of the statement. *)
(*                                                                         *)
(* RotateWritesFirst, HighUnadjusted and TrapOnDifference are not the code *)
(* but mistakes next to it, which the property must tell from the code.    *)
(***************************************************************************)
EXTENDS Alu, SequencesExt

Immediate == -1
TheLabel == 0
AT == 1       \* the register that the assembler keeps for itself

-----------------------------------------------------------------------------
(* Instructions: inst.cpp *)

Ins(op, rd, rs, rt, imm) == <<[op |-> op, rd |-> rd, rs |-> rs, rt |-> rt, imm |-> imm]>>

\* r_type_inst, r_sh_type_inst, and an i_type_inst whose immediate fits.
R(op, rd, rs, rt) == Ins(op, rd, rs, rt, 0)
Sh(op, rd, rt, n) == Ins(op, rd, 0, rt, n % WordBits)
Im(op, rt, rs, x) == Ins(op, 0, rs, rt, x)

\* branch_offset: over the n - 1 instructions after it.
Over(op, rt, rs, n) == Im(op, rt, rs, n)
ToLabel(op, rt, rs) == Im(op, rt, rs, TheLabel)

MemoryOps == {"LB", "LBU", "LWL", "LWR", "SB", "SWL", "SWR"}
TrapImmOps == {"TEQI", "TGEI", "TGEIU", "TLTI", "TLTIU", "TNEI"}
Extended == {"ADDI", "ADDIU", "SLTI", "SLTIU"} \cup TrapImmOps \cup MemoryOps

Fits(op, v) == IF op \in Extended THEN v = Imm(v) ELSE v \in Half

\* imm_op_to_op, for the operations that come to it.
RegisterForm ==
  [ADDI |-> "ADD", ADDIU |-> "ADDU", ANDI |-> "AND", ORI |-> "OR", XORI |-> "XOR",
   SLTI |-> "SLT", SLTIU |-> "SLTU"]

ProduceImmediate(rt, v) ==
  IF Low(v) = 0 THEN Im("LUI", rt, 0, High(v))
  ELSE IF High(v) = 0 THEN Im("ORI", rt, 0, Low(v))
  ELSE Im("LUI", AT, 0, High(v)) \o Im("ORI", rt, AT, Low(v))

HighUnadjusted(op, rt, rs, v) ==
  Im("LUI", AT, 0, High(v)) \o (IF rs = 0 THEN <<>> ELSE R("ADDU", AT, AT, rs))
    \o Im(op, rt, AT, Low(v))

\* i_type_inst_full_word, for loads and stores: the low half will be sign-extended.
FarAddress(op, rt, rs, v) ==
  LET carry == Low(v) \div 2^(HalfBits - 1)
  IN  Im("LUI", AT, 0, High(v) + carry) \o (IF rs = 0 THEN <<>> ELSE R("ADDU", AT, AT, rs))
        \o Im(op, rt, AT, Low(v))

\* The others.
FullWord(op, rt, rs, v) ==
  IF op \in {"ORI", "ADDI", "ADDIU", "LUI"} /\ rs = 0 THEN ProduceImmediate(rt, v)
  ELSE IF op \in DOMAIN RegisterForm THEN
    ProduceImmediate(AT, v) \o R(RegisterForm[op], rt, rs, AT)
  ELSE ProduceImmediate(AT, v) \o R("fatal_error", 0, 0, 0)

\* i_type_inst with a value that is known.
I(op, rt, rs, v) ==
  IF Fits(op, v) THEN Im(op, rt, rs, Low(v))
  ELSE IF op \in MemoryOps THEN FarAddress(op, rt, rs, v)
  ELSE FullWord(op, rt, rs, v)

-----------------------------------------------------------------------------
(* Pseudo-instructions: parser.y *)

\* A constant as an operand: in $at, or $zero for 0.
Const(v) == IF v = 0 THEN <<>> ELSE I("ORI", AT, 0, v)
ConstReg(v) == IF v = 0 THEN 0 ELSE AT

Abs(rd, rs) ==
  (IF rd = rs THEN <<>> ELSE R("ADDU", rd, 0, rs)) \o Over("BGEZ", 0, rs, 2) \o R("SUB", rd, 0, rs)

RotateWritesFirst(op, rd, rs, rt) ==
  LET away == IF op = "ror" THEN "SLLV" ELSE "SRLV"
      back == IF op = "ror" THEN "SRLV" ELSE "SLLV"
  IN  R("SUBU", AT, 0, rt) \o R(back, rd, rt, rs) \o R(away, AT, AT, rs) \o R("OR", rd, rd, AT)

Rotate(op, rd, rs, rt) ==
  LET away == IF op = "ror" THEN "SLLV" ELSE "SRLV"
      back == IF op = "ror" THEN "SRLV" ELSE "SLLV"
  IN  R("SUBU", AT, 0, rt) \o R(away, AT, AT, rs) \o R(back, rd, rt, rs) \o R("OR", rd, rd, AT)

RotateBy(op, rd, rs, v) ==
  LET away == IF op = "ror" THEN "SLL" ELSE "SRL"
      back == IF op = "ror" THEN "SRL" ELSE "SLL"
  IN  Sh(away, AT, rs, -v) \o Sh(back, rd, rs, v) \o R("OR", rd, rd, AT)

\* div_inst; a division with the destination $zero is the machine's own.
DivInst(op, rd, rs, rt, const_divisor) ==
  (IF rd = 0 \/ const_divisor THEN <<>> ELSE Over("BNE", 0, rt, 2) \o R("BREAK", 0, 0, 0))
    \o R(IF op \in {"div", "rem"} THEN "DIV" ELSE "DIVU", 0, rs, rt)
    \o (IF rd = 0 THEN <<>> ELSE R(IF op \in {"div", "divu"} THEN "MFLO" ELSE "MFHI", rd, 0, 0))

TrapOnDifference(op, rd, rs, rt) ==
  R(IF op = "mulou" THEN "MULTU" ELSE "MULT", 0, rs, rt)
    \o (IF rd = 0 THEN <<>>
        ELSE R("MFHI", AT, 0, 0) \o Over("BEQ", 0, AT, 2) \o R("BREAK", 0, 0, 0) \o R("MFLO", rd, 0, 0))

\* mult_inst
MultInst(op, rd, rs, rt) ==
  LET check == IF op = "mulou" THEN Over("BEQ", 0, AT, 2)
               ELSE R("MFLO", rd, 0, 0) \o Sh("SRA", rd, rd, WordBits - 1) \o Over("BEQ", rd, AT, 2)
  IN  R(IF op = "mulou" THEN "MULTU" ELSE "MULT", 0, rs, rt)
        \o (IF rd = 0 THEN <<>>
            ELSE R("MFHI", AT, 0, 0) \o check \o R("BREAK", 0, 0, 0) \o R("MFLO", rd, 0, 0))

Slt(unsigned) == IF unsigned THEN "SLTU" ELSE "SLT"

\* set_le_inst, set_ge_inst, set_gt_inst, set_eq_inst
OneIfEqual(rd, rs, rt) ==
  Over("BNE", rs, rt, 3) \o Im("ORI", rd, 0, 1) \o Over("BEQ", 0, 0, 2)
SetLe(op, rd, rs, rt) == OneIfEqual(rd, rs, rt) \o R(Slt(op = "sleu"), rd, rs, rt)
SetGe(op, rd, rs, rt) == OneIfEqual(rd, rs, rt) \o R(Slt(op = "sgeu"), rd, rt, rs)
SetGt(op, rd, rs, rt) == R(Slt(op = "sgtu"), rd, rt, rs)
SetEq(op, rd, rs, rt) ==
  LET if_eq == Flag(op = "seq")
  IN  Over("BEQ", rs, rt, 3) \o Im("ORI", rd, 0, 1 - if_eq) \o Over("BEQ", 0, 0, 2)
        \o Im("ORI", rd, 0, if_eq)

SetOps == {"sle", "sleu", "sge", "sgeu", "sgt", "sgtu", "seq", "sne"}
SetInst(op, rd, rs, rt) ==
  CASE op \in {"sle", "sleu"} -> SetLe(op, rd, rs, rt)
    [] op \in {"sge", "sgeu"} -> SetGe(op, rd, rs, rt)
    [] op \in {"sgt", "sgtu"} -> SetGt(op, rd, rs, rt)
    [] op \in {"seq", "sne"} -> SetEq(op, rd, rs, rt)

\* Branches that compare registers: on the comparison with $at, or on its opposite.
BranchOps == {"bgt", "bgtu", "bge", "bgeu", "blt", "bltu", "ble", "bleu"}
BranchInst(op, rs, rt) ==
  LET slt == Slt(op \in {"bgtu", "bgeu", "bltu", "bleu"})
      test == IF op \in {"bgt", "bgtu", "ble", "bleu"} THEN R(slt, AT, rt, rs) ELSE R(slt, AT, rs, rt)
      branch == IF op \in {"bgt", "bgtu", "blt", "bltu"} THEN "BNE" ELSE "BEQ"
  IN  test \o ToLabel(branch, 0, AT)

\* And with a constant: bgt and ble compare with the next number, by incr_expr_offset.
BranchImm(op, rs, v) ==
  CASE op \in {"bgt", "ble"} ->
         I("SLTI", AT, rs, Word(v + 1)) \o ToLabel(IF op = "bgt" THEN "BEQ" ELSE "BNE", 0, AT)
    [] op = "bgtu" ->
         I("ORI", AT, 0, v) \o Over("BEQ", rs, AT, 3) \o R("SLTU", AT, rs, AT) \o ToLabel("BEQ", 0, AT)
    [] op = "bleu" ->
         I("ORI", AT, 0, v) \o ToLabel("BEQ", rs, AT) \o R("SLTU", AT, rs, AT) \o ToLabel("BNE", 0, AT)
    [] op \in {"bge", "bgeu"} -> I(IF op = "bge" THEN "SLTI" ELSE "SLTIU", AT, rs, v) \o ToLabel("BEQ", 0, AT)
    [] op \in {"blt", "bltu"} -> I(IF op = "blt" THEN "SLTI" ELSE "SLTIU", AT, rs, v) \o ToLabel("BNE", 0, AT)

\* op_to_imm_op
ImmediateForm ==
  [add |-> "ADDI", addu |-> "ADDIU", and |-> "ANDI", or |-> "ORI", xor |-> "XORI", slt |-> "SLTI",
   sltu |-> "SLTIU"]
TrapForm ==
  [teqi |-> "TEQI", tgei |-> "TGEI", tgeiu |-> "TGEIU", tlti |-> "TLTI", tltiu |-> "TLTIU", tnei |-> "TNEI"]

\* Accesses to memory that may be unaligned, the least significant byte first.
Ulw(rd, base, v) == I("LWL", rd, base, Word(v + 3)) \o I("LWR", rd, base, v)
Ulh(op, rd, base, v) ==
  I(IF op = "ulh" THEN "LB" ELSE "LBU", rd, base, Word(v + 1)) \o I("LBU", AT, base, v)
    \o Sh("SLL", rd, rd, ByteBits) \o R("OR", rd, rd, AT)
Usw(rd, base, v) == I("SWL", rd, base, Word(v + 3)) \o I("SWR", rd, base, v)
\* The register is turned by a byte, and turned back.
Ush(rd, base, v) ==
  I("SB", rd, base, v)
    \o Sh("SLL", AT, rd, WordBits - ByteBits) \o Sh("SRL", rd, rd, ByteBits) \o R("OR", rd, rd, AT)
    \o I("SB", rd, base, Word(v + 1))
    \o Sh("SRL", AT, rd, WordBits - ByteBits) \o Sh("SLL", rd, rd, ByteBits) \o R("OR", rd, rd, AT)

UnaryMacros == {"abs", "neg", "negu", "not", "move"}
RegisterMacros ==
  UnaryMacros \cup {"ror", "rol", "div", "divu", "rem", "remu", "mulo", "mulou"} \cup SetOps \cup BranchOps

Registers(op, d, a, b) ==
  CASE op = "abs" -> Abs(d, a)
    [] op = "neg" -> R("SUB", d, 0, a)
    [] op = "negu" -> R("SUBU", d, 0, a)
    [] op = "not" -> R("NOR", d, a, 0)
    [] op = "move" -> R("ADDU", d, 0, a)
    [] op \in {"ror", "rol"} -> Rotate(op, d, a, b)
    [] op \in {"div", "divu", "rem", "remu"} -> DivInst(op, d, a, b, FALSE)
    [] op \in {"mulo", "mulou"} -> MultInst(op, d, a, b)
    [] op \in SetOps -> SetInst(op, d, a, b)
    [] op \in BranchOps -> BranchInst(op, a, b)

AddressMacros == {"ulw", "ulh", "ulhu", "usw", "ush"}
ImmediateMacros ==
  {"li", "la", "sub", "subu", "nor", "mul", "ror", "rol", "div", "divu", "rem", "remu", "mulo", "mulou",
   "beq", "bne"} \cup DOMAIN ImmediateForm \cup DOMAIN TrapForm \cup SetOps \cup BranchOps

Immediates(op, d, a, v) ==
  CASE op = "li" -> I("ORI", d, 0, v)
    [] op = "la" -> IF a = 0 THEN I("ORI", d, 0, v) ELSE I("ADDI", d, a, v)
    [] op \in DOMAIN ImmediateForm -> I(ImmediateForm[op], d, a, v)
    [] op \in DOMAIN TrapForm -> I(TrapForm[op], 0, a, v)
    [] op \in {"sub", "subu"} -> I(IF op = "sub" THEN "ADDI" ELSE "ADDIU", d, a, Word(-v))
    [] op = "nor" -> Const(v) \o R("NOR", d, a, ConstReg(v))
    [] op = "mul" -> I("ORI", AT, 0, v) \o R("MUL", d, a, AT)
    [] op \in {"ror", "rol"} -> RotateBy(op, d, a, v)
    [] op \in {"div", "divu", "rem", "remu"} -> I("ORI", AT, 0, v) \o DivInst(op, d, a, AT, TRUE)
    [] op \in {"mulo", "mulou"} ->
         IF v = 0 THEN I("ORI", d, 0, v) ELSE I("ORI", AT, 0, v) \o MultInst(op, d, a, AT)
    [] op \in SetOps -> Const(v) \o SetInst(op, d, a, ConstReg(v))
    [] op \in {"beq", "bne"} ->
         Const(v) \o ToLabel(IF op = "beq" THEN "BEQ" ELSE "BNE", a, ConstReg(v))
    [] op \in BranchOps -> BranchImm(op, a, v)

Accesses(op, d, base, v) ==
  CASE op = "ulw" -> Ulw(d, base, v)
    [] op \in {"ulh", "ulhu"} -> Ulh(op, d, base, v)
    [] op = "usw" -> Usw(d, base, v)
    [] op = "ush" -> Ush(d, base, v)

Expanded(st) ==
  IF st.op \in AddressMacros THEN Accesses(st.op, st.d, st.a, st.v)
  ELSE IF st.b = Immediate THEN Immediates(st.op, st.d, st.a, st.v)
  ELSE Registers(st.op, st.d, st.a, st.b)

-----------------------------------------------------------------------------
(* Execution: run.cpp.  A machine has its registers, hilo, its bytes, the number of the *)
(* instruction that is next, and how the sequence ended when it did before its last one. *)

Put(m, r, v) == [m EXCEPT !.regs[r] = IF r = 0 THEN 0 ELSE v, !.pc = @ + 1]
End(m, how) == [m EXCEPT !.end = how]

WordAt(bytes, a) ==
  bytes[a] + Up(bytes[a + 1], 1) + Up(bytes[a + 2], 2) + Up(bytes[a + 3], 3)
PutWord(bytes, a, w) ==
  [x \in DOMAIN bytes |-> IF x \in a .. a + 3 THEN Down(w, x - a) % 2^ByteBits ELSE bytes[x]]

Access(i, m) ==
  LET addr == Word(m.regs[i.rs] + Imm(i.imm))
      reg == m.regs[i.rt]
      place == addr % BYTES_PER_WORD
      word == WordAt(m.bytes, RoundDown(addr))
      Write(bytes) == [m EXCEPT !.bytes = bytes, !.pc = @ + 1]
  IN  CASE i.op = "LB" -> Put(m, i.rt, SignExtend(m.bytes[addr], ByteBits))
        [] i.op = "LBU" -> Put(m, i.rt, m.bytes[addr])
        [] i.op = "LWL" -> Put(m, i.rt, Lwl(word, reg, place))
        [] i.op = "LWR" -> Put(m, i.rt, Lwr(word, reg, place))
        [] i.op = "SB" -> Write([m.bytes EXCEPT ![addr] = reg % 2^ByteBits])
        [] i.op = "SWL" -> Write(PutWord(m.bytes, RoundDown(addr), Swl(word, reg, place)))
        [] i.op = "SWR" -> Write(PutWord(m.bytes, RoundDown(addr), Swr(word, reg, place)))

Do(i, m) ==
  LET s == m.regs[i.rs]  t == m.regs[i.rt]
      dest == IF i.op \in ImmediateOps \cup {"ADDI"} THEN i.rt ELSE i.rd
  IN  CASE i.op \in ValueOps ->
             IF Overflows(i.op, s, t, i.imm) THEN End(m, "overflow")
             ELSE Put(m, dest, Value(i.op, s, t, i.imm))
        [] i.op = "MUL" -> Put([m EXCEPT !.hilo = HiLo("MUL", s, t, @)], dest, HiLo("MUL", s, t, m.hilo).lo)
        [] i.op \in {"MULT", "MULTU", "DIV", "DIVU"} -> [m EXCEPT !.hilo = HiLo(i.op, s, t, @), !.pc = @ + 1]
        [] i.op = "MFHI" -> Put(m, dest, m.hilo.hi)
        [] i.op = "MFLO" -> Put(m, dest, m.hilo.lo)
        [] i.op \in {"BEQ", "BNE", "BGEZ"} ->
             IF ~BranchTaken(i.op, s, t) THEN [m EXCEPT !.pc = @ + 1]
             ELSE IF i.imm = TheLabel THEN End(m, "label")
             ELSE [m EXCEPT !.pc = @ + i.imm]
        [] i.op \in TrapImmOps -> IF TrapTaken(i.op, s, t, i.imm) THEN End(m, "trap") ELSE [m EXCEPT !.pc = @ + 1]
        [] i.op \in MemoryOps -> Access(i, m)
        [] i.op = "BREAK" -> End(m, "break")
        [] i.op = "fatal_error" -> End(m, "fatal")

\* Branches go forward: each instruction has its turn once.
Executed(code, m) ==
  FoldLeftDomain(LAMBDA n, k : IF n.end = "" /\ n.pc = k THEN Do(code[k], n) ELSE n, m, code)
=============================================================================
