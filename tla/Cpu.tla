--------------------------------- MODULE Cpu ---------------------------------
(***************************************************************************)
(* step_program and spim_step (spim-utils.cpp, run.cpp) with the way into  *)
(* an exception (raise_exception, handle_exception): a program of the text *)
(* segment runs on the machine, and exceptions.s runs in between.          *)
(*                                                                         *)
(* HandleInPlace is not the code but a mistake next to it, which the       *)
(* properties must tell from the code.                                     *)
(***************************************************************************)
EXTENDS ExceptionHandler

CONSTANTS
  Decode(_),     \* the instruction that a word encodes (inst_decode)
  Programs,      \* encodings of programs, as long as the text
  UserRegs,      \* the registers that belong to the program
  Registers,     \* what they hold at the start
  Missing,       \* words of the two texts with no instruction, or one that uses a symbol
                 \* without an address
  Followed       \* bound: the program is followed while it runs at these addresses

\* What the proofs need: the bits of Status and Cause have a place in the word, the segments
\* are in the order of mem_image.h, in whole words, and the kernel's data has room for the
\* handler's.
ASSUME CpuAssumption ==
  /\ ByteBits >= 6 /\ WordBits < 2^WordBits /\ 2^0 = 1 /\ IM < 2^(WordBits - 8)
  /\ \A n \in 0 .. WordBits - 1 : 2^n \in Nat \ {0} /\ 2^(n + 1) = 2 * 2^n
  /\ \A n \in 0 .. WordBits, k \in 0 .. WordBits : k <= n => 2^n = 2^k * 2^(n - k)
  /\ \A b \in {TEXT_BOT, DATA_BOT, STACK_TOP, EXCEPTION_ADDR, K_DATA_BOT, SPECIAL_BOT, SPECIAL_TOP,
              TEXT_SIZE, DATA_SIZE, STACK_SIZE, K_DATA_SIZE} : b \in Nat /\ b % BYTES_PER_WORD = 0
  /\ {StackWindow, MM_IO_BOT, MM_IO_TOP} \subseteq Nat
  /\ TEXT_BOT + TEXT_SIZE <= DATA_BOT /\ DATA_SIZE > 0
  /\ DATA_BOT + DATA_SIZE <= STACK_TOP - STACK_SIZE /\ STACK_TOP <= EXCEPTION_ADDR
  /\ EXCEPTION_ADDR + 4 * Len(Handler) <= K_DATA_BOT /\ 72 <= K_DATA_SIZE
  /\ \A b \in {SPECIAL_BOT, MM_IO_BOT} : K_DATA_BOT + K_DATA_SIZE <= b
  /\ SPECIAL_BOT <= SPECIAL_TOP /\ K_DATA_BOT + K_DATA_SIZE + 2^HalfBits <= 2^WordBits

\* The program's registers; the programs and what they are given.
ASSUME ProgramsAssumption ==
  /\ {"at", "v0", "a0", "ra"} \subseteq UserRegs /\ UserRegs \cap {"zero", "k0", "k1"} = {}
  /\ \A p \in Programs : p \in [1 .. TEXT_SIZE \div BYTES_PER_WORD -> Words]
  /\ \A r \in Registers : UserRegs \subseteq DOMAIN r /\ \A x \in UserRegs : r[x] \in Words
  /\ Inputs \subseteq Words
  /\ \A a \in Followed \cup Missing :
       a \notin EXCEPTION_ADDR .. EXCEPTION_ADDR + 4 * Len(Handler) - 1
  /\ \A a \in Missing : a % BYTES_PER_WORD = 0

VARIABLES
  m,                      \* the machine (Instructions)
  exception_occurred,     \* as the step leaves it
  ended                   \* a step has returned false
vars == <<m, exception_occurred, ended>>

LAST_REAL_EXCEPT == 30
AllRegs == UserRegs \cup {"zero", "k0", "k1"}

InitialCp0 ==
  [Status |-> CU01 + IM + UM, Cause |-> 0, EPC |-> 0, BadVAddr |-> 0, Compare |-> 0]

\* set_mem_inst, by the loader.
Loaded(program) ==
  [MakeMemory EXCEPT !.text = [b \in 0 .. TEXT_SIZE - 1 |->
     (program[b \div BYTES_PER_WORD + 1] \div 2^((b % BYTES_PER_WORD) * ByteBits)) % 2^ByteBits]]

Init ==
  /\ \E program \in Programs, r \in Registers :
       m = [R |-> [x \in AllRegs |-> IF x \in UserRegs THEN r[x] ELSE 0], hilo |-> Pair(0, 0),
            cp0 |-> InitialCp0, PC |-> TEXT_BOT, mem |-> Loaded(program)]
  /\ exception_occurred = FALSE /\ ended = FALSE

-----------------------------------------------------------------------------
(* Exceptions *)

InHandler(cp0) == BitAnd(cp0.Status, EXL) # 0

\* raise_exception: EPC is that of the first exception, until EXL is cleared.
Raise(mach, f) ==
  [mach EXCEPT !.cp0.EPC = IF InHandler(mach.cp0) THEN @ ELSE RoundDown(mach.PC),
               !.cp0.Cause = BitAnd(@, BitNot(ExcCodeBits)) + 4 * ExcCode[f.code],
               !.cp0.Status = BitOr(@, EXL),
               !.cp0.BadVAddr = f.addr]

RaiseAll(mach, faults) == FoldLeft(Raise, mach, faults)

HandleInPlace(mach) == mach

\* handle_exception: reports, and goes to the handler.
Handle(mach) == [mach EXCEPT !.PC = EXCEPTION_ADDR]

\* The end of a step: EPC is set again when Cause holds more than an exception code.
EndOfStep(mach, e) ==
  LET raised == RaiseAll([e.m EXCEPT !.PC = mach.PC], e.faults)
      late == Signed(raised.cp0.Cause) \div 4 > LAST_REAL_EXCEPT
  IN  IF e.faults = <<>> THEN [e.m EXCEPT !.PC = e.next]
      ELSE Handle(IF late THEN [raised EXCEPT !.cp0.EPC = e.next - BYTES_PER_WORD] ELSE raised)

-----------------------------------------------------------------------------
(* read_mem_inst *)

InKernelText(a) == a \in EXCEPTION_ADDR .. EXCEPTION_ADDR + 4 * Len(Handler) - 1
HasInstruction(a) == a % BYTES_PER_WORD = 0 /\ a \notin Missing /\ (InText(a) \/ InKernelText(a))
InstructionAt(mach) ==
  IF InText(mach.PC) THEN Decode(Fetch(mach.mem.text, mach.PC - TEXT_BOT, BYTES_PER_WORD))
  ELSE Handler[(mach.PC - EXCEPTION_ADDR) \div BYTES_PER_WORD + 1]

\* R[0] = 0 comes first in every step.
Zeroed == [m EXCEPT !.R.zero = 0]
Effects == {Execute(Zeroed, InstructionAt(m), input) : input \in Inputs}

-----------------------------------------------------------------------------
(* Steps *)

\* Bounds.  Outside the handler a program is followed while it runs at Followed, with
\* instructions as they are decoded that leave to the kernel what is the kernel's: its
\* registers, Status, EPC and its data; without putting an instruction where none is; and
\* while the segments stay apart.
Field(op) ==
  CASE op \in ShiftOps -> 0 .. WordBits - 1
    [] op \in {"J", "JAL"} -> 0 .. 2^(WordBits - 6) - 1
    [] op = "MTC0" -> {"Cause", "Compare"}
    [] OTHER -> Half
UserOps ==
  UNION {ValueOps, HiLoOps, TrapOps, BranchOps, JumpOps, AccessOps, ReservedOps, Cop2Ops, IdleOps,
         {"MFHI", "MFLO", "MOVN", "MOVZ", "MTC0", "SYSCALL", "BREAK"}}
KeepsToUser(mach, i) ==
  /\ i.op \in UserOps /\ i.x \in Field(i.op)
  /\ {i.rs, i.rt, i.rd} \subseteq UserRegs \cup {"zero"}
  /\ i.op \in AccessOps =>
       /\ EffectiveAddress(mach, i) \notin K_DATA_BOT .. K_DATA_BOT + K_DATA_SIZE - 1
       /\ RoundDown(EffectiveAddress(mach, i)) \notin Missing
Apart(mem) == DATA_BOT < mem.data_top /\ mem.data_top <= mem.stack_bot

Running == ~ended /\ (InHandler(m.cp0) \/ m.PC \in Followed)
Stepping ==
  /\ Running /\ HasInstruction(m.PC)
  /\ ~InHandler(m.cp0) => KeepsToUser(Zeroed, InstructionAt(m))

\* An address that is not that of a word of a text.
BadFetch ==
  /\ Running /\ ~HasInstruction(m.PC) /\ m.PC \notin Missing
  /\ m' = Handle(Raise(Zeroed, [code |-> "IBE", addr |-> m.PC]))
  /\ exception_occurred' = FALSE /\ UNCHANGED ended

\* No instruction, or one that cannot be executed: an error, and the program has ended.
NotInstruction ==
  /\ Running /\ m.PC \in Missing
  /\ m' = Zeroed
  /\ exception_occurred' = FALSE /\ ended' = TRUE

Step ==
  /\ Stepping
  /\ \E e \in Effects : ~e.leave /\ Apart(e.m.mem) /\ m' = EndOfStep(m, e)
  /\ exception_occurred' = FALSE /\ UNCHANGED ended

\* The exit system calls end the program where it stands.
Exit ==
  /\ Stepping /\ InstructionAt(m).op = "SYSCALL"
  /\ \E e \in Effects : e.leave /\ m' = e.m
  /\ exception_occurred' = FALSE /\ ended' = TRUE

\* break 1: the exception is raised and its EXL taken back by step_program; PC stays.
BreakToDebugger ==
  /\ Stepping /\ InstructionAt(m).op = "BREAK"
  /\ \E e \in Effects :
       e.leave /\ m' = [RaiseAll(e.m, e.faults) EXCEPT !.cp0.Status = BitAnd(@, BitNot(EXL))]
  /\ exception_occurred' = TRUE /\ UNCHANGED ended

Next == BadFetch \/ NotInstruction \/ Step \/ Exit \/ BreakToDebugger

Spec == Init /\ [][Next]_vars

\* The simulator runs cycle after cycle as long as it plays.
FairSpec == Spec /\ WF_vars(Next)

-----------------------------------------------------------------------------
(* Properties *)

\* Type invariant: words in every register, and the machine that handles an exception is at
\* the handler.
TypeOK ==
  /\ m.R \in [AllRegs -> Words] /\ m.hilo \in [{"hi", "lo"} -> Words]
  /\ m.cp0 \in [{"Status", "Cause", "EPC", "BadVAddr", "Compare"} -> Words]
  /\ m.PC \in Words
  /\ InHandler(m.cp0) => InKernelText(m.PC)

\* The program's view of a machine that may be in the handler: PC is where it goes on, and
\* $at, $v0 and $a0 are where the handler keeps them.
Place == (m.PC - EXCEPTION_ADDR) \div BYTES_PER_WORD
Kept(a) == Word(Fetch(m.mem.k_data, a - K_DATA_BOT, BYTES_PER_WORD))
UserPC ==
  IF ~InHandler(m.cp0) THEN m.PC
  ELSE IF m.PC >= AtRestore THEN m.cp0.EPC ELSE Word(m.cp0.EPC + BYTES_PER_WORD)
UserRegister(r) ==
  IF ~InHandler(m.cp0) THEN m.R[r]
  ELSE CASE r = "at" /\ Place >= 1 /\ m.PC < AtRestore + 20 -> m.R.k1
         [] r = "v0" /\ Place >= 3 /\ m.PC < AtRestore + 8 -> Kept(S1)
         [] r = "a0" /\ Place >= 5 /\ m.PC < AtRestore + 16 -> Kept(S2)
         [] OTHER -> m.R[r]

User == INSTANCE UserMachine WITH
  pc <- UserPC, regs <- [r \in UserRegs |-> UserRegister(r)], hilo <- m.hilo,
  memory <- [s \in {"text", "data", "stack", "special", "data_top", "stack_bot"} |-> m.mem[s]]

\* An exception is invisible to the program: whatever the handler does with the registers,
\* EPC, Status and the kernel's data, the program goes on after the instruction that
\* faulted with everything else as that instruction left it.
ImplementsUserMachine ==
  /\ \E program \in Programs, r \in Registers :
       User!Init(TEXT_BOT, [x \in UserRegs |-> r[x]], Pair(0, 0), User!UserPart(Loaded(program)))
  /\ [][User!Next]_(User!vars)

\* A handled exception ends: the handler returns to the program, or the program has ended.
HandlerReturns == InHandler(m.cp0) ~> (~InHandler(m.cp0) \/ ended)
=============================================================================
