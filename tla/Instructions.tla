---------------------------- MODULE Instructions ----------------------------
(***************************************************************************)
(* The cases of spim_step's switch (run.cpp): what one instruction does to *)
(* the machine, before the end of the step.  A machine is a record         *)
(*   R      the general registers                                          *)
(*   hilo   HI and LO                                                      *)
(*   cp0    Status, Cause, EPC, BadVAddr and Compare                       *)
(*   PC     the address of the instruction                                 *)
(*   mem    its memory (MemImage)                                          *)
(* and the effect of an instruction is the machine after it, the address   *)
(* it goes on at (next), the exceptions that it raised, in order (faults), *)
(* and whether spim_step returns early (leave).                            *)
(*                                                                         *)
(* Delayed branches and delayed loads are off, as they are in this build.  *)
(* The floating point registers and instructions are left out.             *)
(***************************************************************************)
EXTENDS Alu, MemImage, SequencesExt

CONSTANT Inputs    \* numbers that read_int and read_char may give

\* An instruction: x is the immediate field, the shift count, the jump's target or the
\* number of the coprocessor's register.
Instr(op, rs, rt, rd, x) == [op |-> op, rs |-> rs, rt |-> rt, rd |-> rd, x |-> x]

ExcCode ==
  [Int |-> 0, AdEL |-> 4, AdES |-> 5, IBE |-> 6, DBE |-> 7, Sys |-> 8, Bp |-> 9, RI |-> 10,
   CpU |-> 11, Ov |-> 12, Tr |-> 13]

\* The bits of Status and Cause; those at the top of the word stand at its top here too.
IE == 1
EXL == 2
UM == 16
IM == 65280
IP == 65280
IP7 == 32768
ExcCodeBits == 124
BD == 2^(WordBits - 1)
CU == 15 * 2^(WordBits - 4)
CU01 == 3 * 2^(WordBits - 4)

Plain(m) == [m |-> m, next |-> Word(m.PC + BYTES_PER_WORD), faults |-> <<>>, leave |-> FALSE]
Set(m, r, v) == [Plain(m) EXCEPT !.m.R[r] = v]
Raising(m, code) == [Plain(m) EXCEPT !.faults = <<[code |-> code, addr |-> m.cp0.BadVAddr]>>]

-----------------------------------------------------------------------------
(* Arithmetic *)

Calculate(m, i) ==
  LET s == m.R[i.rs]  t == m.R[i.rt]
      dest == IF i.op \in ImmediateOps \cup {"ADDI"} THEN i.rt ELSE i.rd
  IN  IF Overflows(i.op, s, t, i.x) THEN Raising(m, "Ov") ELSE Set(m, dest, Value(i.op, s, t, i.x))

MultiplyOrDivide(m, i) ==
  LET p == HiLo(i.op, m.R[i.rs], m.R[i.rt], m.hilo)
      e == [Plain(m) EXCEPT !.m.hilo = p]
  IN  IF i.op = "MUL" THEN [e EXCEPT !.m.R[i.rd] = p.lo] ELSE e

MoveFrom(m, i) == Set(m, i.rd, IF i.op = "MFHI" THEN m.hilo.hi ELSE m.hilo.lo)

ConditionalMove(m, i) == IF MoveDone(i.op, m.R[i.rt]) THEN Set(m, i.rd, m.R[i.rs]) ELSE Plain(m)

Trap(m, i) ==
  IF TrapTaken(i.op, m.R[i.rs], m.R[i.rt], i.x) THEN Raising(m, "Tr") ELSE Plain(m)

-----------------------------------------------------------------------------
(* Branches and jumps *)

\* IDISP: the offset counted in bytes.  SIGN_EX sets its upper half when bit 15 is set,
\* and leaves it as it is otherwise, so that what does not fit in 16 bits goes astray half
\* of the times only.
IDisp(x) ==
  LET disp == 4 * SignedOf(x, HalfBits)
  IN  IF Low(disp) < 2^(HalfBits - 1) THEN disp ELSE SignedOf(Low(disp), HalfBits)

\* The "likely" branches skip the next instruction when they are not taken, although it is
\* in no delay slot; the linking ones write $ra before they look at rs.
Branch(m, i) ==
  LET linked == IF i.op \in {"BGEZAL", "BGEZALL", "BLTZAL", "BLTZALL"}
                THEN [m EXCEPT !.R.ra = Word(m.PC + BYTES_PER_WORD)] ELSE m
      likely == i.op \in {"BEQL", "BNEL", "BGEZL", "BGTZL", "BLEZL", "BLTZL", "BGEZALL", "BLTZALL"}
  IN  [Plain(linked) EXCEPT !.next =
         IF BranchTaken(i.op, linked.R[i.rs], linked.R[i.rt]) THEN Word(m.PC + IDisp(i.x))
         ELSE IF likely THEN Word(m.PC + 2 * BYTES_PER_WORD) ELSE @]

Jump(m, i) ==
  LET top == m.PC - (m.PC % 2^(WordBits - 4))
      link == Word(m.PC + BYTES_PER_WORD)
      e == CASE i.op = "JAL" -> Set(m, "ra", link)
             [] i.op = "JALR" -> Set(m, i.rd, link)
             [] OTHER -> Plain(m)
  IN  [e EXCEPT !.next = IF i.op \in {"J", "JAL"} THEN top + i.x * 4 ELSE m.R[i.rs]]

-----------------------------------------------------------------------------
(* Loads and stores *)

Size == [LB |-> 1, LBU |-> 1, LH |-> 2, LHU |-> 2, LW |-> 4, LL |-> 4,
         SB |-> 1, SH |-> 2, SW |-> 4, SC |-> 4]

EffectiveAddress(m, i) == Word(m.R[i.rs] + Imm(i.x))

Faults(r) == IF r.fault = NoFault THEN <<>> ELSE <<r.fault>>

\* A load that faults writes its register all the same, with 0.
Load(m, i) ==
  LET n == Size[i.op]
      r == ReadMem(m.mem, EffectiveAddress(m, i), n)
      v == IF i.op \in {"LBU", "LHU"} THEN LowBytes(r.value, n) ELSE r.value
  IN  [Set([m EXCEPT !.mem = r.mem], i.rt, v) EXCEPT !.faults = Faults(r)]

LoadPart(m, i) ==
  LET a == EffectiveAddress(m, i)
      r == ReadMem(m.mem, RoundDown(a), 4)
      v == IF i.op = "LWL" THEN Lwl(r.value, m.R[i.rt], a % 4) ELSE Lwr(r.value, m.R[i.rt], a % 4)
  IN  [Set([m EXCEPT !.mem = r.mem], i.rt, IF r.fault = NoFault THEN v ELSE r.value)
         EXCEPT !.faults = Faults(r)]

Store(m, i) ==
  LET n == Size[i.op]
      r == SetMem(m.mem, EffectiveAddress(m, i), m.R[i.rt], n)
  IN  [Plain([m EXCEPT !.mem = r.mem]) EXCEPT !.faults = Faults(r)]

\* The word is read, changed and written back: both accesses may fault.
StorePart(m, i) ==
  LET a == EffectiveAddress(m, i)
      old == ReadMem(m.mem, RoundDown(a), 4)
      v == IF i.op = "SWL" THEN Swl(old.value, m.R[i.rt], a % 4) ELSE Swr(old.value, m.R[i.rt], a % 4)
      r == SetMem(old.mem, RoundDown(a), v, 4)
  IN  [Plain([m EXCEPT !.mem = r.mem]) EXCEPT !.faults = Faults(old) \o Faults(r)]

-----------------------------------------------------------------------------
(* The system coprocessor *)

ReadCp0(m, i) == Set(m, i.rt, m.cp0[i.x])

\* After a write, some registers are masked; Compare clears its interrupt.
WriteCp0(m, i) ==
  LET v == m.R[i.rt]
      cp0 == [m.cp0 EXCEPT ![i.x] =
                CASE i.x = "Status" ->
                       LET kept == BitAnd(v, CU + UM + IM + EXL + IE)
                       IN  BitOr(kept, CU01 + UM)
                  [] i.x = "Cause" -> BitAnd(v, BD + IP + ExcCodeBits)
                  [] OTHER -> v]
      cleared == [cp0 EXCEPT !.Cause = BitAnd(@, BitNot(IP7))]
  IN  [Plain(m) EXCEPT !.m.cp0 = IF i.x = "Compare" THEN cleared ELSE cp0]

ReturnFromException(m) ==
  [Plain(m) EXCEPT !.m.cp0.Status = BitAnd(@, BitNot(EXL)), !.next = m.cp0.EPC]

-----------------------------------------------------------------------------
(* System calls: do_syscall.  What it prints, files and strings that are read are outside *)
(* the model.                                                                              *)

ReadNumber == 5
SbrkCall == 9
ExitCalls == {10, 17}
ReadCharacter == 12

SystemCall(m, input) ==
  LET v0 == m.R.v0
      a0 == Signed(m.R.a0)
  IN  CASE v0 \in ExitCalls -> [Plain(m) EXCEPT !.leave = TRUE]
        [] v0 \in {ReadNumber, ReadCharacter} -> Set(m, "v0", input)
        [] v0 = SbrkCall -> Set([m EXCEPT !.mem = ExpandData(m.mem, a0)], "v0", m.mem.data_top)
        [] OTHER -> Plain(m)

\* break 1 is left to the debugger: the step ends at once.
Break(m, i) == [Raising(m, "Bp") EXCEPT !.leave = i.x = 1]

-----------------------------------------------------------------------------

TrapOps ==
  {"TEQ", "TEQI", "TNE", "TNEI", "TGE", "TGEI", "TGEU", "TGEIU", "TLT", "TLTI", "TLTU", "TLTIU"}
BranchOps ==
  {"BEQ", "BEQL", "BNE", "BNEL", "BGEZ", "BGEZL", "BGEZAL", "BGEZALL", "BGTZ", "BGTZL",
   "BLEZ", "BLEZL", "BLTZ", "BLTZL", "BLTZAL", "BLTZALL"}
JumpOps == {"J", "JAL", "JR", "JALR"}
LoadOps == {"LB", "LBU", "LH", "LHU", "LW", "LL"}
StoreOps == {"SB", "SH", "SW", "SC"}
AccessOps == LoadOps \cup StoreOps \cup {"LWL", "LWR", "SWL", "SWR"}
ReservedOps == {"RFE", "TLBP", "TLBR", "TLBWI", "TLBWR"}
Cop2Ops ==
  {"COP2", "BC2F", "BC2T", "CFC2", "CTC2", "MFC2", "MTC2", "LWC2", "SWC2", "LDC2", "SDC2"}
IdleOps == {"CACHE", "PREF", "SYNC"}

Execute(m, i, input) ==
  CASE i.op \in ValueOps -> Calculate(m, i)
    [] i.op \in HiLoOps -> MultiplyOrDivide(m, i)
    [] i.op \in {"MFHI", "MFLO"} -> MoveFrom(m, i)
    [] i.op \in {"MOVN", "MOVZ"} -> ConditionalMove(m, i)
    [] i.op \in TrapOps -> Trap(m, i)
    [] i.op \in BranchOps -> Branch(m, i)
    [] i.op \in JumpOps -> Jump(m, i)
    [] i.op \in LoadOps -> Load(m, i)
    [] i.op \in {"LWL", "LWR"} -> LoadPart(m, i)
    [] i.op \in StoreOps -> Store(m, i)
    [] i.op \in {"SWL", "SWR"} -> StorePart(m, i)
    [] i.op = "MFC0" -> ReadCp0(m, i)
    [] i.op = "MTC0" -> WriteCp0(m, i)
    [] i.op = "ERET" -> ReturnFromException(m)
    [] i.op = "SYSCALL" -> SystemCall(m, input)
    [] i.op = "BREAK" -> Break(m, i)
    [] i.op \in ReservedOps -> Raising(m, "RI")
    [] i.op \in Cop2Ops -> Raising(m, "CpU")
    [] i.op \in IdleOps -> Plain(m)
=============================================================================
