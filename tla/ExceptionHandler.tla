--------------------------- MODULE ExceptionHandler ---------------------------
(***************************************************************************)
(* exceptions.s: the program that the machine runs at EXCEPTION_ADDR when  *)
(* an instruction faults.  It saves $at, $v0 and $a0, reports the          *)
(* exception, steps EPC over the instruction and returns to the program.   *)
(*                                                                         *)
(* Pseudo-instructions are written as the assembler expands them: an       *)
(* address is built in two instructions, and $at is the assembler's.       *)
(*                                                                         *)
(* ForgetV0 and SaveOnStack are not the code but mistakes next to it,      *)
(* which the properties must tell from the code.                           *)
(***************************************************************************)
EXTENDS Instructions

CONSTANT EXCEPTION_ADDR    \* in the kernel's text

\* The kernel's data: the table of messages (a message is the table here), s1 and s2.
Messages == K_DATA_BOT
S1 == K_DATA_BOT + 64
S2 == K_DATA_BOT + 68

R3(op, rd, rs, rt) == <<Instr(op, rs, rt, rd, 0)>>
Im(op, rt, rs, x) == <<Instr(op, rs, rt, "zero", x)>>
Sys == <<Instr("SYSCALL", "zero", "zero", "zero", 0)>>
Nop == <<Instr("SLL", "zero", "zero", "zero", 0)>>
Li(r, n) == Im("ORI", r, "zero", n)
La(r, a) == Im("LUI", "at", "zero", High(a)) \o Im("ORI", r, "at", Low(a))
\* The upper half is one more when the lower one is sign-extended.
Mem(op, r, a) ==
  Im("LUI", "at", "zero", High(a - ShortValue(a))) \o Im(op, r, "at", Low(a))
Table(r) ==
  Im("LUI", "at", "zero", High(Messages - ShortValue(Messages))) \o R3("ADDU", "at", "at", r)
    \o Im("LW", r, "at", Low(Messages))
Mfc0(r, c) == Im("MFC0", r, "zero", c)
Mtc0(r, c) == Im("MTC0", r, "zero", c)
Shift(rd, rt, n) == <<Instr("SRL", "zero", rt, rd, n)>>
ExcField == Shift("a0", "k0", 2) \o Im("ANDI", "a0", "a0", 31)

\* A branch over the n instructions after it.
Over(op, rs, rt, n) == <<Instr(op, rs, rt, "zero", n + 1)>>

ForgetV0 == R3("ADDU", "k1", "zero", "at") \o Mem("SW", "a0", S2)

SaveOnStack == R3("ADDU", "k1", "zero", "at") \o Im("SW", "v0", "sp", 0) \o Mem("SW", "a0", S2)

Save == R3("ADDU", "k1", "zero", "at") \o Mem("SW", "v0", S1) \o Mem("SW", "a0", S2)

Report ==
  Mfc0("k0", "Cause") \o ExcField
    \o Li("v0", 4) \o La("a0", Messages) \o Sys
    \o Li("v0", 1) \o ExcField \o Sys
    \o Li("v0", 4) \o Im("ANDI", "a0", "k0", 60) \o Table("a0") \o Nop \o Sys

\* "Bad PC exception requires special checks": for IBE, exit unless EPC is a word's address.
CheckPc ==
  Li("at", 4 * ExcCode.IBE) \o Over("BNE", "k0", "at", 7) \o Nop
    \o Mfc0("a0", "EPC") \o Im("ANDI", "a0", "a0", 3) \o Over("BEQ", "a0", "zero", 3) \o Nop
    \o Li("v0", 10) \o Sys

OkPc == Li("v0", 4) \o La("a0", Messages) \o Sys \o ExcField \o Over("BNE", "a0", "zero", 1) \o Nop

SkipFaulting == Mfc0("k0", "EPC") \o Im("ADDIU", "k0", "k0", 4) \o Mtc0("k0", "EPC")

Restore ==
  Mem("LW", "v0", S1) \o Mem("LW", "a0", S2) \o R3("ADDU", "at", "zero", "k1")
    \o Mtc0("zero", "Cause")
    \o Mfc0("k0", "Status") \o Im("ORI", "k0", "k0", 1) \o Mtc0("k0", "Status")
    \o <<Instr("ERET", "zero", "zero", "zero", 0)>>

Handler == Save \o Report \o CheckPc \o OkPc \o SkipFaulting \o Restore

\* Where the parts begin.
AtRestore == EXCEPTION_ADDR + 4 * Len(Save \o Report \o CheckPc \o OkPc \o SkipFaulting)
=============================================================================
