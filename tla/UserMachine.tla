----------------------------- MODULE UserMachine -----------------------------
(***************************************************************************)
(* What a program may take the machine for that does not look into the     *)
(* kernel: every step executes one instruction, and an instruction that    *)
(* faults has no effect beyond that (a load gives 0) and is stepped over.  *)
(* It ends where there is no instruction.                                  *)
(* Between two steps nothing changes that the program can see.             *)
(***************************************************************************)
EXTENDS Integers

CONSTANTS
  Decode(_),             \* the instruction that a word encodes (inst_decode)
  UserRegs,              \* the registers that belong to the program
  Inputs,                \* what an instruction may read, and its effect (Instructions)
  Execute(_, _, _),
  Missing,               \* words with no instruction (Cpu)
  TEXT_BOT, InText(_),   \* the text, an empty memory and what an array holds (MemImage)
  MakeMemory, Fetch(_, _, _),
  BYTES_PER_WORD, Word(_), RoundDown(_)    \* Words

VARIABLES
  pc, regs, hilo,
  memory,       \* text, data, stack and the special segment
  ended
vars == <<pc, regs, hilo, memory, ended>>

Segments == {"text", "data", "stack", "special", "data_top", "stack_bot"}
UserPart(m) == [s \in Segments |-> m[s]]

Init(start, r, h, m) ==
  pc = start /\ regs = r /\ hilo = h /\ memory = m /\ ended = FALSE

\* The machine that the instruction runs on: the kernel's part is of no account.
Machine ==
  [R |-> [r \in UserRegs \cup {"zero", "k0", "k1"} |-> IF r \in UserRegs THEN regs[r] ELSE 0],
   hilo |-> hilo, PC |-> pc,
   cp0 |-> [Status |-> 0, Cause |-> 0, EPC |-> 0, BadVAddr |-> 0, Compare |-> 0],
   mem |-> [s \in DOMAIN MakeMemory |-> IF s \in Segments THEN memory[s] ELSE MakeMemory[s]]]

After(m, next) ==
  /\ pc' = next
  /\ regs' = [r \in UserRegs |-> m.R[r]]
  /\ hilo' = m.hilo
  /\ memory' = UserPart(m.mem)

Skipped == Word(RoundDown(pc) + BYTES_PER_WORD)

\* An instruction of the text, or none at an address that is not that of a word of it.
CanFetch == InText(pc) /\ pc % BYTES_PER_WORD = 0 /\ pc \notin Missing
Fetched == Decode(Fetch(memory.text, pc - TEXT_BOT, BYTES_PER_WORD))

Run ==
  /\ ~ended /\ CanFetch
  /\ \E input \in Inputs :
       LET e == Execute(Machine, Fetched, input)
       IN  IF e.leave
           THEN ended' = (Fetched.op = "SYSCALL") /\ After(e.m, pc)
           ELSE UNCHANGED ended /\ After(e.m, IF e.faults = <<>> THEN e.next ELSE Skipped)

NoInstruction ==
  /\ ~ended /\ ~CanFetch /\ pc \notin Missing
  /\ After(Machine, Skipped) /\ UNCHANGED ended

Stop == ~ended /\ pc \in Missing /\ After(Machine, pc) /\ ended' = TRUE

Next == Run \/ NoInstruction \/ Stop
=============================================================================
