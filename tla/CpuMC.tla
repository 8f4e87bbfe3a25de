-------------------------------- MODULE CpuMC --------------------------------
(***************************************************************************)
(* A small machine for TLC: 24-bit words (bytes of 6 bits, so that the     *)
(* bits of Status and Cause have their places), segments of two words, and *)
(* programs of two instructions that any others may follow each other in,  *)
(* with the exit call after them.  No instruction is in the last word of   *)
(* the text, nor in those on either side of the handler.                   *)
(***************************************************************************)
EXTENDS Cpu

\* First instructions: one of each kind, and each kind of exception.
First ==
  <<R3("ADD", "t1", "sp", "t1"), R3("SUB", "at", "t1", "sp"), Im("ADDIU", "v0", "sp", 4095),
    Im("LUI", "at", "zero", 9), R3("MUL", "v0", "sp", "t1"), R3("DIV", "zero", "sp", "t1"),
    R3("MADD", "zero", "t1", "t1"), R3("MFHI", "v0", "zero", "zero"), R3("MTLO", "zero", "t1", "zero"),
    R3("MOVZ", "zero", "sp", "v0"),
    Im("LW", "at", "sp", 0), Im("LB", "v0", "sp", 1), Im("LHU", "a0", "sp", 2),
    Im("LWL", "t1", "sp", 1), Im("SW", "t1", "sp", 0), Im("SB", "sp", "sp", 4095),
    Im("SWR", "t1", "sp", 0), Im("SWL", "t1", "sp", 1),
    Over("BEQ", "sp", "t1", 1), Over("BGEZALL", "ra", "zero", 1), Over("BGTZ", "sp", "zero", 0),
    Over("BNEL", "sp", "sp", 1),
    <<Instr("J", "zero", "zero", "zero", (TEXT_BOT + 8) \div 4)>>,
    <<Instr("J", "zero", "zero", "zero", (TEXT_BOT + 16) \div 4)>>,
    <<Instr("JAL", "zero", "zero", "zero", (TEXT_BOT + 4) \div 4)>>,
    <<Instr("JR", "t1", "zero", "zero", 0)>>, <<Instr("JALR", "t1", "zero", "at", 0)>>,
    Sys, <<Instr("BREAK", "zero", "zero", "zero", 1)>>, <<Instr("BREAK", "zero", "zero", "zero", 0)>>,
    R3("TLTU", "zero", "sp", "t1"), Im("TEQI", "zero", "v0", 9), <<Instr("TLBP", "zero", "zero", "zero", 0)>>,
    <<Instr("COP2", "zero", "zero", "zero", 0)>>, <<Instr("SYNC", "zero", "zero", "zero", 0)>>,
    Mtc0("t1", "Cause"), Mtc0("t1", "Compare")>>

\* Second ones: what faults again, what was changed, and where the program is.
Second ==
  <<Im("SW", "v0", "sp", 1), R3("ADDU", "v0", "v0", "at"), Over("BEQ", "v0", "zero", 4094),
    Im("LH", "a0", "a0", 0), Sys>>

Ending == Li("v0", 10) \o Sys

Pool == FlattenSeq(First \o Second \o <<Ending>>)
MCDecode(w) == Pool[(w % Len(Pool)) + 1]

MCPrograms ==
  {<<i, Len(First) + j, Len(Pool) - 2, Len(Pool) - 1, 0>> : i \in 0 .. Len(First) - 1, j \in 0 .. Len(Second) - 1}

MCUserRegs == {"at", "v0", "a0", "sp", "t1", "ra"}
Given(v0, a0, sp, t1) == [at |-> 3, v0 |-> v0, a0 |-> a0, sp |-> sp, t1 |-> t1, ra |-> 0]

AfterHandler == EXCEPTION_ADDR + 4 * Len(Handler)
MCMissing == {TEXT_BOT + 16, EXCEPTION_ADDR - 4, AfterHandler}

MCFollowed == (TEXT_BOT - 4 .. TEXT_BOT + TEXT_SIZE + 4) \cup MCMissing

\* Places of the data and of the stack, of the text, and of nothing; the largest number;
\* numbers of system calls.
MCRegisters ==
  {Given(9, 4, DATA_BOT + 4, 2^23 - 1),           \* sbrk
   Given(5, DATA_BOT, STACK_TOP - 12, 0),         \* read_int; below the stack
   Given(10, 0, 2^23 - 1, TEXT_BOT + 6),          \* exit; not aligned
   Given(1, 3, TEXT_BOT + 4, AfterHandler),       \* the text itself; the kernel's text
   Given(17, 0, 65280, 65280)}                    \* the interrupt bits of Cause
=============================================================================
