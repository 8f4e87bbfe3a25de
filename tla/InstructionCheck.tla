--------------------------- MODULE InstructionCheck ---------------------------
(***************************************************************************)
(* All instructions: those of AluCheck, the encoding of each instruction   *)
(* as a word and its decoding, the floating-point unit's conditions and    *)
(* conversions, and what the pseudo-instructions are expanded to.  They do *)
(* not share state; encoding and the floating-point unit start from one of *)
(* AluCheck's initial states, pseudo-instructions take s and t as their    *)
(* operands.                                                               *)
(***************************************************************************)
EXTENDS AluCheck, Encoding, Fpu, Expansion

CONSTANTS
  Regs,          \* register numbers in the instructions that are encoded
  Imms, Targets, \* and their immediates and targets
  ConditionCodes,
  Controls,      \* the words that CTC1 writes
  Compared,      \* the numbers that are compared
  Numbers,       \* and those that are converted, in quarters
  Bytes          \* what is in memory before an unaligned access

\* The condition codes are eight; the numbers are counts of quarters.
ASSUME OperandsAssumption ==
  ConditionCodes \subseteq 0 .. 7 /\ Compared \subseteq Int /\ Numbers \subseteq Int

VARIABLES
  inst,          \* the instruction that was encoded
  fcr,           \* the floating-point control registers
  codes,         \* what the architecture says the condition codes are
  convert,       \* a conversion, with its operand and its result
  macro          \* a pseudo-instruction and the machine after its expansion
all == <<vars, inst, fcr, codes, convert, macro>>

NoInst == Inst("none")
NoConversion == [op |-> "none", of |-> 0, word |-> 0]
NoMacro == [op |-> "none"]

\* initialize_registers: no condition is true.
InitAll ==
  /\ Init
  /\ inst = NoInst /\ fcr = InitialFcr
  /\ codes = [n \in 0 .. 7 |-> 0] /\ convert = NoConversion /\ macro = NoMacro

\* What the builders r_type_inst, r_sh_type_inst, r_co_type_inst, r_cond_type_inst,
\* i_type_inst_free and j_type_inst make of the operands: fields that an instruction does
\* not use are 0.  The grammar ignores release 2; cop2, whose immediate is put where a jump
\* has its target, is left out, and so is ssnop, which is made as sll.
Assembled(e) ==
  LET F == EncodedFields(e.type)
      Of(f, S) == IF f \in F THEN S ELSE {0}
      nd == IF e.op \in {"bc1fl", "bc1tl", "bc2fl", "bc2tl"} THEN 1 ELSE 0
      tf == IF e.op \in {"bc1t", "bc1tl", "bc2t", "bc2tl"} THEN 1 ELSE 0
      onCode == e.type \in {"BC", "MOVC"} \/ e.op \in {"movf.s", "movf.d", "movt.s", "movt.d"}
      rss == IF e.type = "FP_CMP" THEN {e.word.funct % 16} ELSE Of("rs", Regs)
      rts == CASE onCode -> {CcToRt(c, nd, tf) : c \in ConditionCodes}
               [] ~onCode /\ e.type = "FP_MOVC" -> Regs
               [] OTHER -> Of("rt", Regs)
      shamts == IF e.type = "FP_CMP" THEN {CcToRt(c, 0, 0) : c \in ConditionCodes} ELSE Of("shamt", Regs)
      rds == IF e.op = "break" THEN {0, 1} ELSE Of("rd", Regs)
  IN  {[op |-> e.op, rs |-> a, rt |-> b, rd |-> c, shamt |-> d, imm |-> x, target |-> y] :
         a \in rss, b \in rts, c \in rds, d \in shamts, x \in Of("imm", Imms), y \in Of("target", Targets)}

\* Encoding and the floating-point unit start from one state of the other variables.
First == op = "none" /\ s = 0 /\ t = 0 /\ old = Pair(0, 0) /\ macro = NoMacro

Store(e) ==
  /\ First /\ fcr = InitialFcr /\ inst = NoInst /\ convert = NoConversion
  /\ e.release = 1 /\ e.op \notin {"cop2", "ssnop"}
  /\ inst' \in Assembled(e)
  /\ UNCHANGED <<vars, fcr, codes, convert, macro>>

\* What the architecture says a comparison is: the relations for which it is true, and
\* whether it objects to numbers that are not.
Relations(c) ==
  CASE c \in {"F", "SF"} -> {} [] c \in {"UN", "NGLE"} -> {"unordered"}
    [] c \in {"EQ", "SEQ"} -> {"equal"} [] c \in {"UEQ", "NGL"} -> {"unordered", "equal"}
    [] c \in {"OLT", "LT"} -> {"less"} [] c \in {"ULT", "NGE"} -> {"unordered", "less"}
    [] c \in {"OLE", "LE"} -> {"less", "equal"} [] c \in {"ULE", "NGT"} -> {"unordered", "less", "equal"}
Signals(c) == c \in {"SF", "NGLE", "SEQ", "NGL", "LT", "NGE", "LE", "NGT"}
Comparisons ==
  {"F", "UN", "EQ", "UEQ", "OLT", "ULT", "OLE", "ULE", "SF", "NGLE", "SEQ", "NGL", "LT", "NGE", "LE", "NGT"}

Relation(v1, v2) ==
  CASE NaN \in {v1, v2} -> "unordered" [] NaN \notin {v1, v2} /\ v1 < v2 -> "less"
    [] v1 = v2 /\ v1 # NaN -> "equal" [] OTHER -> "greater"

\* c.cond.s and c.cond.d.
CompareNumbers(c, cc, v1, v2) ==
  /\ First /\ inst = NoInst /\ convert = NoConversion
  /\ fcr' = Compare(fcr, CondOf(c), cc, v1, v2).fcr
  /\ codes' = IF Relation(v1, v2) = "unordered" /\ Signals(c) THEN codes
              ELSE [codes EXCEPT ![cc] = IF Relation(v1, v2) \in Relations(c) THEN 1 ELSE 0]
  /\ UNCHANGED <<vars, inst, convert, macro>>

\* ctc1: FCCR holds the codes side by side, FCSR has code 0 at bit 23 and the others from
\* bit 25.
WriteControl(r, word) ==
  LET One(b) == IF b THEN 1 ELSE 0
      places == <<25, 26, 27, 28, 29, 30, 31>>
  IN  /\ First /\ inst = NoInst /\ convert = NoConversion
      /\ fcr' = Ctc1(fcr, r, word).fcr
      /\ codes' = CASE r = FCCR_REG -> [n \in 0 .. 7 |-> One(n \in word)]
                    [] r = FCSR_REG ->
                         [n \in 0 .. 7 |-> One((IF n = 0 THEN 23 ELSE places[n]) \in word)]
                    [] OTHER -> codes
      /\ UNCHANGED <<vars, inst, convert, macro>>

Convert(o, q) ==
  /\ First /\ inst = NoInst /\ fcr = InitialFcr /\ convert = NoConversion
  /\ convert' = [op |-> o, of |-> q, word |-> Converted(o, q)]
  /\ UNCHANGED <<vars, inst, fcr, codes, macro>>

\* A statement finds s in register 3, t in register 4 or as its immediate, and something
\* else in register 2.
Before ==
  [regs |-> [r \in 0 .. 4 |-> CASE r = 0 -> 0 [] r = 3 -> s [] r = 4 -> t [] OTHER -> 2^(WordBits - 1) + 1],
   hilo |-> Pair(1, 1), bytes |-> Bytes, pc |-> 1, end |-> ""]

Statement(o, d, a, b, v) == [op |-> o, d |-> d, a |-> a, b |-> b, v |-> v]
RegisterStatements ==
  {Statement(o, d, 3, 0, 0) : o \in UnaryMacros, d \in {0, 2, 3}}
    \cup {Statement(o, d, 3, b, 0) : o \in RegisterMacros \ UnaryMacros, d \in {0, 2, 3, 4}, b \in {0, 3, 4}}
\* A zero that divides is an error.
ImmediateStatements ==
  {Statement(o, d, a, Immediate, t) :
     o \in IF t = 0 THEN ImmediateMacros \ {"div", "divu", "rem", "remu"} ELSE ImmediateMacros,
     d \in {0, 2, 3}, a \in {0, 3}}
AccessStatements == {Statement(o, d, 3, Immediate, t) : o \in AddressMacros, d \in {2, 3, 4}}

Expand(st) ==
  /\ op = "none" /\ old = Pair(0, 0) /\ macro = NoMacro
  /\ inst = NoInst /\ fcr = InitialFcr /\ convert = NoConversion
  /\ macro' = [st |-> st, m |-> Executed(Expanded(st), Before)]
  /\ UNCHANGED <<vars, inst, fcr, codes, convert>>

NextAll ==
  \/ /\ macro = NoMacro /\ inst = NoInst /\ fcr = InitialFcr /\ convert = NoConversion
     /\ Next /\ UNCHANGED <<inst, fcr, codes, convert, macro>>
  \/ /\ First
     /\ \/ \E e \in Table : Store(e)
        \/ \E c \in Comparisons, cc \in ConditionCodes, v1, v2 \in Compared \cup {NaN} :
             CompareNumbers(c, cc, v1, v2)
        \/ \E r \in DOMAIN fcr, word \in Controls : WriteControl(r, word)
        \/ \E o \in {"CEIL", "FLOOR", "ROUND", "TRUNC", "CVT"}, q \in Numbers : Convert(o, q)
  \/ /\ op = "none" /\ macro = NoMacro
     /\ \E st \in RegisterStatements \cup ImmediateStatements \cup AccessStatements : Expand(st)

SpecAll == InitAll /\ [][NextAll]_all

-----------------------------------------------------------------------------
(* Properties *)

\* What the execution of an instruction looks at: the four branches on a condition share
\* their code, which reads the test out of rt and never rs.
Acting(i) ==
  CASE i.op \in {"bc1f", "bc1t", "bc1fl", "bc1tl"} -> [i EXCEPT !.op = "bc1", !.rs = 0]
    [] i.op \in {"bc2f", "bc2t", "bc2fl", "bc2tl"} -> [i EXCEPT !.op = "bc2", !.rs = 0]
    [] OTHER -> i

\* Those that do not come back: decoded comparisons and moves on a condition have their
\* registers in the wrong fields, movt comes back as movf, floor.w.s and trunc.w.s share
\* their opcode with an instruction of release 2, break has no code, and a jump's target
\* loses bit 24.
Lost(i) ==
  \/ EntryOf(i.op).type \in {"FP_CMP", "FP_MOVC"}
  \/ i.op \in {"movt", "floor.w.s", "trunc.w.s"}
  \/ i.op = "break" /\ i.rd # 0
  \/ i.op \in {"j", "jal"} /\ i.target \div 2^24 % 2 = 1

\* inst_encode and inst_decode, by field classes, types and a sorted table (inst.cpp:1612,
\* "Code to test encode/decode of instructions"): a word that is read from the text
\* segment and stored back gives an instruction that acts as before, for all instructions
\* but the lost ones.
RoundTrip ==
  inst # NoInst =>
    ((\A d \in Decodings(Encode(inst)) : Acting(d) = Acting(inst)) <=> ~Lost(inst))

\* The comparisons' condition bits, the places of the eight codes in FCSR, FCCR's second
\* view of them, and the branches and moves that read them by number: after any sequence
\* of comparisons and writes each code, and what is done on it, is what the architecture says.
ConditionsExact ==
  \A n \in 0 .. 7 :
    /\ FCC(fcr, n) = codes[n]
    /\ \A nd, tf \in {0, 1} : Bc1Taken(fcr, CcToRt(n, nd, tf)) <=> codes[n] = tf
    /\ MoveOnCcDone("MOVF", fcr, CcToRt(n, 0, 0)) <=> codes[n] = 0
    /\ MoveOnCcDone("MOVT", fcr, CcToRt(n, 0, 0)) <=> codes[n] = 1

\* ceil, floor, round and trunc by libm and casts: the word is the integer next to the
\* number in the direction of the name.  round adds a half and truncates, which is the
\* nearest integer for numbers above -1/2 only.
ConversionsExact ==
  LET q == convert.of  w == 4 * convert.word
  IN  CASE convert.op = "CEIL" -> w >= q /\ w < q + 4
        [] convert.op = "FLOOR" -> w <= q /\ w > q - 4
        [] convert.op \in {"TRUNC", "CVT"} -> IF q >= 0 THEN w <= q /\ w > q - 4 ELSE w >= q /\ w < q + 4
        [] convert.op = "ROUND" /\ q > -2 -> w <= q + 2 /\ w >= q - 2
        [] OTHER -> TRUE

\* What the names of the pseudo-instructions say, of the operands x and y.
Related(o, x, y) ==
  CASE o \in {"seq", "beq", "teqi"} -> x = y
    [] o \in {"sne", "bne", "tnei"} -> x # y
    [] o \in {"slt", "blt", "tlti"} -> Signed(x) < Signed(y)
    [] o \in {"sle", "ble"} -> Signed(x) <= Signed(y)
    [] o \in {"sgt", "bgt"} -> Signed(x) > Signed(y)
    [] o \in {"sge", "bge", "tgei"} -> Signed(x) >= Signed(y)
    [] o \in {"sltu", "bltu", "tltiu"} -> x < y
    [] o \in {"sleu", "bleu"} -> x <= y
    [] o \in {"sgtu", "bgtu"} -> x > y
    [] o \in {"sgeu", "bgeu", "tgeiu"} -> x >= y

RotatedRight(x, n) == x \div 2^n + Word(x * 2^(WordBits - n))
InWord(i) == i \in -(2^(WordBits - 1)) .. 2^(WordBits - 1) - 1
Absolute(i) == IF i < 0 THEN -i ELSE i
Branches == BranchOps \cup {"beq", "bne"}

\* How it ends.
Ending(st, x, y) ==
  LET o == st.op  i == Signed(x)  j == Signed(y)
      overflow == CASE o = "abs" -> Absolute(i) [] o = "neg" -> -i [] o = "add" -> i + j
                    [] o = "sub" -> i - j [] OTHER -> 0
      refused == CASE o \in {"div", "divu", "rem", "remu"} -> y = 0
                   [] o = "mulo" -> ~InWord(i * j) [] o = "mulou" -> x * y \notin Words
                   [] OTHER -> FALSE
  IN  IF ~InWord(overflow) THEN "overflow"
      ELSE IF refused /\ st.d # 0 THEN "break"
      ELSE IF o \in Branches THEN IF Related(o, x, y) THEN "label" ELSE ""
      ELSE IF o \in DOMAIN TrapForm THEN IF Related(o, x, y) THEN "trap" ELSE ""
      ELSE ""

\* The bytes at an address, as a number.
NumberAt(a, n) == MapThenSumSet(LAMBDA k : Up(Bytes[Word(a + k)], k), 0 .. n - 1)

\* What is in its destination then.
Outcome(o, x, y) ==
  CASE o = "abs" -> Absolute(Signed(x))
    [] o \in {"neg", "negu"} -> Word(-x)
    [] o = "not" -> BitNot(x)
    [] o = "move" -> x
    [] o = "li" -> y
    [] o \in {"la", "add", "addu"} -> Word(x + y)
    [] o \in {"sub", "subu"} -> Word(x - y)
    [] o = "and" -> BitAnd(x, y) [] o = "or" -> BitOr(x, y) [] o = "xor" -> BitXor(x, y)
    [] o = "nor" -> BitNot(BitOr(x, y))
    [] o \in {"mul", "mulo", "mulou"} -> Word(x * y)
    [] o = "div" -> Word(Quotient(Signed(x), Signed(y)))
    [] o = "rem" -> Word(Remainder(Signed(x), Signed(y)))
    [] o = "divu" -> x \div y
    [] o = "remu" -> x % y
    [] o = "ror" -> RotatedRight(x, y % WordBits)
    [] o = "rol" -> RotatedRight(x, -y % WordBits)
    [] o \in SetOps \cup {"slt", "sltu"} -> Flag(Related(o, x, y))
    [] o = "ulw" -> NumberAt(Word(x + y), 4)
    [] o = "ulhu" -> NumberAt(Word(x + y), 2)
    [] o = "ulh" -> SignExtend(NumberAt(Word(x + y), 2), HalfBits)

Stored(o, address, v) ==
  LET n == CASE o = "usw" -> 4 [] o = "ush" -> 2 [] OTHER -> 0
      Place(a) == Word(a - address)
  IN  [a \in DOMAIN Bytes |-> IF Place(a) < n THEN Down(v, Place(a)) % 2^ByteBits ELSE Bytes[a]]

\* The machine after it is as its name says: the destination, when the statement did not
\* fail, the other registers, $at apart, and the memory.
AsNamed(st, m) ==
  LET x == Before.regs[st.a]
      y == IF st.b = Immediate THEN st.v ELSE Before.regs[st.b]
      writes == st.op \notin Branches \cup DOMAIN TrapForm \cup {"usw", "ush"}
  IN  /\ m.end = Ending(st, x, y)
      /\ \A r \in {2, 3, 4} : (writes /\ r = st.d) \/ m.regs[r] = Before.regs[r]
      /\ writes /\ st.d # 0 /\ m.end = "" => m.regs[st.d] = Outcome(st.op, x, y)
      /\ m.bytes = Stored(st.op, Word(x + y), Before.regs[st.d])

\* Left open: a quotient that is no word, and an unaligned access whose base is the register
\* that it loads, or turns: the second part takes the changed register for the base.
Open(st) ==
  \/ st.op \in {"div", "rem"} /\ Before.regs[st.a] = 2^(WordBits - 1)
       /\ 2^WordBits - 1 = IF st.b = Immediate THEN st.v ELSE Before.regs[st.b]
  \/ st.op \in AddressMacros \ {"usw"} /\ st.d = st.a

\* Those that go wrong: comparing with the number after the greatest, adding the negative of
\* the least, an address that passes from the least half of memory to the other, which la
\* takes for an overflow, the immediate of a trap when it is wider than a half, and the
\* unsigned division that is taken for the signed one that has no result.
Astray(st) ==
  LET least == 2^(WordBits - 1)
      x == Before.regs[st.a]
      y == IF st.b = Immediate THEN st.v ELSE Before.regs[st.b]
  IN  \/ st.op \in {"bgt", "ble"} /\ st.b = Immediate /\ y = least - 1
      \/ st.op = "sub" /\ y = least
      \/ st.op = "la" /\ st.a # 0 /\ ~InWord(Signed(x) + Signed(y))
      \/ st.op \in DOMAIN TrapForm /\ y # Imm(y)
      \/ st.op \in {"divu", "remu"} /\ st.d # 0 /\ x = least /\ y = 2^WordBits - 1

\* The sequences that parser.y makes of pseudo-instructions, with immediates that i_type_inst
\* splits when they do not fit, $at in the middle, branches over their own instructions and
\* destinations that are also operands: executed, each does what its name says and changes
\* no other register, except in the cases that go astray.
ExpansionsExact ==
  macro # NoMacro => Open(macro.st) \/ (AsNamed(macro.st, macro.m) <=> ~Astray(macro.st))
=============================================================================
