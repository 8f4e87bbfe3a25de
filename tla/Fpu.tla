---------------------------------- MODULE Fpu ----------------------------------
(***************************************************************************)
(* run.cpp, the floating-point unit: comparisons and the eight condition   *)
(* codes in FCSR, the control registers, the branches and moves that read  *)
(* a condition, and the conversions to integers.                           *)
(*                                                                         *)
(* A control word is the set of its bits that are 1.  A number is a        *)
(* multiple of a quarter, given by that integer, or NaN.                   *)
(*                                                                         *)
(* CC_maskFromZero, CompareQuietly and FloorByCast are not the code but    *)
(* mistakes next to it, which the properties must tell from the code.      *)
(***************************************************************************)
LOCAL INSTANCE Integers

CONSTANT NaN    \* a value that is not a number

-----------------------------------------------------------------------------
(* Control registers (CPR[1]) *)

FIR_REG == 0
FCCR_REG == 25
FEXR_REG == 26
FCSR_REG == 31
FIR_MASK == {11, 12, 15}
FCSR_MASK == {23} \cup 25 .. 31
InitialFcr == [n \in {FIR_REG, FCCR_REG, FEXR_REG, FCSR_REG} |-> IF n = FIR_REG THEN FIR_MASK ELSE {}]

CC_maskFromZero(n) == IF n > 7 THEN 24 ELSE 24 + n

\* The bit of the condition code n.
CC_mask(n) == IF n = 0 \/ n > 7 THEN 23 ELSE 25 + n - 1

FCC(fcr, n) == IF CC_mask(n) \in fcr[FCSR_REG] THEN 1 ELSE 0
SET_FCC(fcr, n, v) ==
  [fcr EXCEPT ![FCSR_REG] = IF v = 0 THEN @ \ {CC_mask(n)} ELSE @ \cup {CC_mask(n)}]
ASSIGN_FCC(fcr, word) ==
  [fcr EXCEPT ![FCSR_REG] =
     (@ \ {CC_mask(n) : n \in 0 .. 7}) \cup {CC_mask(n) : n \in word \cap 0 .. 7}]

\* CTC1: the register takes the word whatever it is; FIR gets its value back, FCCR sets the
\* condition codes, and FCSR with bits that do not exist raises an exception.
Ctc1(fcr, r, word) ==
  LET written == [fcr EXCEPT ![r] = word]
  IN  CASE r = FIR_REG -> [fcr |-> [written EXCEPT ![FIR_REG] = FIR_MASK], fpe |-> FALSE]
        [] r = FCCR_REG -> [fcr |-> ASSIGN_FCC(written, word), fpe |-> FALSE]
        [] r = FCSR_REG -> [fcr |-> written, fpe |-> ~(word \subseteq FCSR_MASK)]
        [] OTHER -> [fcr |-> written, fpe |-> FALSE]

-----------------------------------------------------------------------------
(* Comparisons *)

\* r_cond_type_inst: the condition bits of an instruction c.op.s or c.op.d.
CondOf(op) ==
  CASE op = "EQ" -> {"EQ"}
    [] op = "LE" -> {"IN", "LT", "EQ"}
    [] op = "LT" -> {"IN", "LT"}
    [] op = "NGE" -> {"IN", "LT", "UN"}
    [] op = "NGLE" -> {"IN", "UN"}
    [] op = "NGL" -> {"IN", "EQ", "UN"}
    [] op = "NGT" -> {"IN", "LT", "EQ", "UN"}
    [] op = "OLT" -> {"LT"}
    [] op = "OLE" -> {"LT", "EQ"}
    [] op = "SEQ" -> {"IN", "EQ"}
    [] op = "SF" -> {"IN"}
    [] op = "F" -> {}
    [] op = "UEQ" -> {"EQ", "UN"}
    [] op = "ULT" -> {"LT", "UN"}
    [] op = "ULE" -> {"LT", "EQ", "UN"}
    [] op = "UN" -> {"UN"}

\* set_fpu_cc: the result is 1 if one of the relations that hold is asked for.
SetFpuCc(fcr, cond, cc, less, equal, unordered) ==
  LET hit == \/ "LT" \in cond /\ less
             \/ "EQ" \in cond /\ equal
             \/ "UN" \in cond /\ unordered
  IN  SET_FCC(fcr, cc, IF hit THEN 1 ELSE 0)

CompareQuietly(fcr, cond, cc, v1, v2) ==
  [fcr |-> IF NaN \in {v1, v2} THEN SetFpuCc(fcr, cond, cc, FALSE, FALSE, TRUE)
                               ELSE SetFpuCc(fcr, cond, cc, v1 < v2, v1 = v2, FALSE),
   fpe |-> NaN \in {v1, v2} /\ "IN" \in cond]

\* The cases of the comparisons: with a NaN, an instruction with COND_IN raises an
\* exception and leaves the condition code alone.
Compare(fcr, cond, cc, v1, v2) ==
  CASE NaN \in {v1, v2} /\ "IN" \in cond -> [fcr |-> fcr, fpe |-> TRUE]
    [] NaN \in {v1, v2} /\ "IN" \notin cond ->
         [fcr |-> SetFpuCc(fcr, cond, cc, FALSE, FALSE, TRUE), fpe |-> FALSE]
    [] OTHER ->
         [fcr |-> SetFpuCc(fcr, cond, cc, v1 < v2, v1 = v2, FALSE), fpe |-> FALSE]

\* cc_to_rt and its inverses CC and TF: the rt field of bc1f, bc1t, movf and movt.
CcToRt(cc, nd, tf) == cc * 4 + nd * 2 + tf
CcOfRt(rt) == rt \div 4
TfOfRt(rt) == rt % 2

\* BC1F and BC1T share the test; MOVF and MOVT each have their own.
Bc1Taken(fcr, rt) == FCC(fcr, CcOfRt(rt)) = TfOfRt(rt)
MoveOnCcDone(op, fcr, rt) == (FCC(fcr, CcOfRt(rt)) = 0) = (op = "MOVF")

-----------------------------------------------------------------------------
(* Conversions to a word of the number q / 4: a cast truncates. *)

Cast(q) == IF q >= 0 THEN q \div 4 ELSE -((-q) \div 4)
Ceil(q) == -((-q) \div 4)
FloorByCast(q) == Cast(q)
Floor(q) == q \div 4
Round(q) == Cast(q + 2)

Converted(op, q) ==
  CASE op = "CEIL" -> Ceil(q)
    [] op = "FLOOR" -> Floor(q)
    [] op = "ROUND" -> Round(q)
    [] op \in {"TRUNC", "CVT"} -> Cast(q)
=============================================================================
