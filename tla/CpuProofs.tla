------------------------------ MODULE CpuProofs ------------------------------
(***************************************************************************)
(* Proofs about Cpu for all programs, registers, inputs and sizes of the   *)
(* segments: its type invariant, and that it implements UserMachine.  IInv, *)
(* near the end, is the inductive invariant: inside the handler it says at *)
(* every instruction what the registers hold that the handler relies on    *)
(* (AtPlace).  HandlerStep is the handler's part of the argument, StepsOn, *)
(* StepsIn, Exits, Breaks and NoFetch are the program's.                   *)
(***************************************************************************)
EXTENDS MachineProofs

-----------------------------------------------------------------------------
(* The handler's instructions *)

\* Handler is put together of pieces; what it has at each of its 53 places.

\* A sequence of n instructions.
Text(s, n) == n \in Nat /\ \E S : s \in Seq(S) /\ Len(s) = n

LEMMA OneIs ==
  ASSUME NEW x
  PROVE  Text(<<x>>, 1) /\ <<x>>[1] = x
  <1>1. <<x>> \in Seq({x}) /\ Len(<<x>>) = 1 /\ <<x>>[1] = x
    OBVIOUS
  <1> QED
    BY <1>1 DEF Text

\* c has first what s has and then what t has.
Joined(c, s, t, n, l) ==
  /\ Text(c, l)
  /\ \A j \in 1 .. n : c[j] = s[j]
  /\ \A j \in n + 1 .. l : c[j] = t[j - n]

LEMMA JoinedIs ==
  ASSUME NEW s, NEW t, NEW n, NEW k, Text(s, n), Text(t, k), NEW l, n + k = l,
         NEW c, c = s \o t
  PROVE  Joined(c, s, t, n, l)
  <1>1. n \in Nat /\ k \in Nat /\ n + k \in Nat
    BY DEF Text
  <1>2. PICK S : s \in Seq(S) /\ Len(s) = n
    BY DEF Text
  <1>3. PICK T : t \in Seq(T) /\ Len(t) = k
    BY DEF Text
  <1> DEFINE U == S \cup T
  <1>4. s \in Seq(U) /\ t \in Seq(U)
    BY <1>2, <1>3
  <1> HIDE DEF U
  <1>5. /\ c \in Seq(U) /\ Len(c) = n + k
        /\ \A i \in 1 .. n + k : c[i] = IF i <= n THEN s[i] ELSE t[i - n]
    BY <1>2, <1>3, <1>4, ConcatProperties
  <1>6. ASSUME NEW j \in 1 .. n PROVE c[j] = s[j]
    BY <1>1, <1>5
  <1>7. ASSUME NEW j \in n + 1 .. n + k PROVE c[j] = t[j - n]
    <2>1. j \in 1 .. n + k /\ ~(j <= n)
      BY <1>1
    <2> QED
      BY <1>5, <2>1
  <1>8. Text(c, n + k)
    BY <1>1, <1>5 DEF Text
  <1> QED
    BY <1>1, <1>6, <1>7, <1>8 DEF Joined

LEMMA LaIs ==
  ASSUME NEW r, NEW a
  PROVE  /\ Text(La(r, a), 2)
         /\ La(r, a)[1] = Instr("LUI", "zero", "at", "zero", High(a))
         /\ La(r, a)[2] = Instr("ORI", "at", r, "zero", Low(a))
  <1> DEFINE e1 == Im("LUI", "at", "zero", High(a))
             e2 == Im("ORI", r, "at", Low(a))
             c1 == e1
             c2 == c1 \o e2
  <1>1. La(r, a) = c2
    BY Zenon DEF La
  <1>2. Text(e1, 1) /\ e1[1] = Instr("LUI", "zero", "at", "zero", High(a))
    BY OneIs DEF R3, Im, Sys, Nop
  <1>3. Text(e2, 1) /\ e2[1] = Instr("ORI", "at", r, "zero", Low(a))
    BY OneIs DEF R3, Im, Sys, Nop
  <1> HIDE DEF e1, e2
  <1> HIDE DEF c2
  <1>4. /\ Text(c2, 2) /\ \A j \in 1 .. 1 : c2[j] = c1[j]
        /\ c2[2] = e2[1]
    <2>1. c2 = c1 \o e2
      BY Zenon DEF c2
    <2> HIDE DEF c1
    <2> DEFINE p == 1
               q == 1
               u == 2
    <2>2. Text(c1, p)
      BY Zenon, <1>2 DEF c1, p
    <2>3. Text(e2, q) /\ p + q = u
      BY <1>3
    <2> HIDE DEF p, q, u
    <2>4. Joined(c2, c1, e2, p, u)
      BY Zenon, <2>1, <2>2, <2>3, JoinedIs
    <2> QED
      BY <2>4 DEF Joined, p, u
  <1>5. c2[1] = Instr("LUI", "zero", "at", "zero", High(a))
    BY <1>2, <1>4
  <1>6. c2[2] = Instr("ORI", "at", r, "zero", Low(a))
    BY <1>3, <1>4
  <1> QED
    BY Zenon, <1>1, <1>4, <1>5, <1>6

LEMMA MemIs ==
  ASSUME NEW op, NEW r, NEW a
  PROVE  /\ Text(Mem(op, r, a), 2)
         /\ Mem(op, r, a)[1] = Instr("LUI", "zero", "at", "zero", High(a - ShortValue(a)))
         /\ Mem(op, r, a)[2] = Instr(op, "at", r, "zero", Low(a))
  <1> DEFINE e1 == Im("LUI", "at", "zero", High(a - ShortValue(a)))
             e2 == Im(op, r, "at", Low(a))
             c1 == e1
             c2 == c1 \o e2
  <1>1. Mem(op, r, a) = c2
    BY Zenon DEF Mem
  <1>2. Text(e1, 1) /\ e1[1] = Instr("LUI", "zero", "at", "zero", High(a - ShortValue(a)))
    BY OneIs DEF R3, Im, Sys, Nop
  <1>3. Text(e2, 1) /\ e2[1] = Instr(op, "at", r, "zero", Low(a))
    BY OneIs DEF R3, Im, Sys, Nop
  <1> HIDE DEF e1, e2
  <1> HIDE DEF c2
  <1>4. /\ Text(c2, 2) /\ \A j \in 1 .. 1 : c2[j] = c1[j]
        /\ c2[2] = e2[1]
    <2>1. c2 = c1 \o e2
      BY Zenon DEF c2
    <2> HIDE DEF c1
    <2> DEFINE p == 1
               q == 1
               u == 2
    <2>2. Text(c1, p)
      BY Zenon, <1>2 DEF c1, p
    <2>3. Text(e2, q) /\ p + q = u
      BY <1>3
    <2> HIDE DEF p, q, u
    <2>4. Joined(c2, c1, e2, p, u)
      BY Zenon, <2>1, <2>2, <2>3, JoinedIs
    <2> QED
      BY <2>4 DEF Joined, p, u
  <1>5. c2[1] = Instr("LUI", "zero", "at", "zero", High(a - ShortValue(a)))
    BY <1>2, <1>4
  <1>6. c2[2] = Instr(op, "at", r, "zero", Low(a))
    BY <1>3, <1>4
  <1> QED
    BY Zenon, <1>1, <1>4, <1>5, <1>6

LEMMA TableIs ==
  ASSUME NEW r
  PROVE  /\ Text(Table(r), 3)
         /\ Table(r)[1] = Instr("LUI", "zero", "at", "zero", High(Messages - ShortValue(Messages)))
         /\ Table(r)[2] = Instr("ADDU", "at", r, "at", 0)
         /\ Table(r)[3] = Instr("LW", "at", r, "zero", Low(Messages))
  <1> DEFINE e1 == Im("LUI", "at", "zero", High(Messages - ShortValue(Messages)))
             e2 == R3("ADDU", "at", "at", r)
             e3 == Im("LW", r, "at", Low(Messages))
             c1 == e1
             c2 == c1 \o e2
             c3 == c2 \o e3
  <1>1. Table(r) = c3
    BY Zenon DEF Table
  <1>2. /\ Text(e1, 1)
        /\ e1[1] = Instr("LUI", "zero", "at", "zero", High(Messages - ShortValue(Messages)))
    BY OneIs DEF R3, Im, Sys, Nop
  <1>3. Text(e2, 1) /\ e2[1] = Instr("ADDU", "at", r, "at", 0)
    BY OneIs DEF R3, Im, Sys, Nop
  <1>4. Text(e3, 1) /\ e3[1] = Instr("LW", "at", r, "zero", Low(Messages))
    BY OneIs DEF R3, Im, Sys, Nop
  <1> HIDE DEF e1, e2, e3
  <1> HIDE DEF c2, c3
  <1>5. /\ Text(c2, 2) /\ \A j \in 1 .. 1 : c2[j] = c1[j]
        /\ c2[2] = e2[1]
    <2>1. c2 = c1 \o e2
      BY Zenon DEF c2
    <2> HIDE DEF c1
    <2> DEFINE p == 1
               q == 1
               u == 2
    <2>2. Text(c1, p)
      BY Zenon, <1>2 DEF c1, p
    <2>3. Text(e2, q) /\ p + q = u
      BY <1>3
    <2> HIDE DEF p, q, u
    <2>4. Joined(c2, c1, e2, p, u)
      BY Zenon, <2>1, <2>2, <2>3, JoinedIs
    <2> QED
      BY <2>4 DEF Joined, p, u
  <1>6. /\ Text(c3, 3) /\ \A j \in 1 .. 2 : c3[j] = c2[j]
        /\ c3[3] = e3[1]
    <2>1. c3 = c2 \o e3
      BY Zenon DEF c3
    <2> HIDE DEF c1
    <2> DEFINE p == 2
               q == 1
               u == 3
    <2>2. Text(c2, p)
      BY Zenon, <1>5 DEF p
    <2>3. Text(e3, q) /\ p + q = u
      BY <1>4
    <2> HIDE DEF p, q, u
    <2>4. Joined(c3, c2, e3, p, u)
      BY Zenon, <2>1, <2>2, <2>3, JoinedIs
    <2> QED
      BY <2>4 DEF Joined, p, u
  <1>7. c3[1] = Instr("LUI", "zero", "at", "zero", High(Messages - ShortValue(Messages)))
    BY <1>2, <1>5, <1>6
  <1>8. c3[2] = Instr("ADDU", "at", r, "at", 0)
    BY <1>3, <1>5, <1>6
  <1>9. c3[3] = Instr("LW", "at", r, "zero", Low(Messages))
    BY <1>4, <1>6
  <1> QED
    BY Zenon, <1>1, <1>6, <1>7, <1>8, <1>9

LEMMA ExcFieldIs ==
  /\ Text(ExcField, 2)
  /\ ExcField[1] = Instr("SRL", "zero", "k0", "a0", 2)
  /\ ExcField[2] = Instr("ANDI", "a0", "a0", "zero", 31)
  <1> DEFINE e1 == Shift("a0", "k0", 2)
             e2 == Im("ANDI", "a0", "a0", 31)
             c1 == e1
             c2 == c1 \o e2
  <1>1. ExcField = c2
    BY Zenon DEF ExcField
  <1>2. Text(e1, 1) /\ e1[1] = Instr("SRL", "zero", "k0", "a0", 2)
    BY OneIs DEF Shift, R3, Im, Sys, Nop
  <1>3. Text(e2, 1) /\ e2[1] = Instr("ANDI", "a0", "a0", "zero", 31)
    BY OneIs DEF R3, Im, Sys, Nop
  <1> HIDE DEF e1, e2
  <1> HIDE DEF c2
  <1>4. /\ Text(c2, 2) /\ \A j \in 1 .. 1 : c2[j] = c1[j]
        /\ c2[2] = e2[1]
    <2>1. c2 = c1 \o e2
      BY Zenon DEF c2
    <2> HIDE DEF c1
    <2> DEFINE p == 1
               q == 1
               u == 2
    <2>2. Text(c1, p)
      BY Zenon, <1>2 DEF c1, p
    <2>3. Text(e2, q) /\ p + q = u
      BY <1>3
    <2> HIDE DEF p, q, u
    <2>4. Joined(c2, c1, e2, p, u)
      BY Zenon, <2>1, <2>2, <2>3, JoinedIs
    <2> QED
      BY <2>4 DEF Joined, p, u
  <1>5. c2[1] = Instr("SRL", "zero", "k0", "a0", 2)
    BY <1>2, <1>4
  <1>6. c2[2] = Instr("ANDI", "a0", "a0", "zero", 31)
    BY <1>3, <1>4
  <1> QED
    BY Zenon, <1>1, <1>4, <1>5, <1>6

\* The pieces of the handler, instruction by instruction.
LEMMA SaveIs ==
  /\ Text(Save, 5)
  /\ Save[1] = Instr("ADDU", "zero", "at", "k1", 0)
  /\ Save[2] = Instr("LUI", "zero", "at", "zero", High(S1 - ShortValue(S1)))
  /\ Save[3] = Instr("SW", "at", "v0", "zero", Low(S1))
  /\ Save[4] = Instr("LUI", "zero", "at", "zero", High(S2 - ShortValue(S2)))
  /\ Save[5] = Instr("SW", "at", "a0", "zero", Low(S2))
  <1> DEFINE e1 == R3("ADDU", "k1", "zero", "at")
             e2 == Mem("SW", "v0", S1)
             e3 == Mem("SW", "a0", S2)
             c1 == e1
             c2 == c1 \o e2
             c3 == c2 \o e3
  <1>1. Save = c3
    BY Zenon DEF Save
  <1>2. Text(e1, 1) /\ e1[1] = Instr("ADDU", "zero", "at", "k1", 0)
    BY OneIs DEF R3, Im, Sys, Nop
  <1>3. /\ Text(e2, 2) /\ e2[1] = Instr("LUI", "zero", "at", "zero", High(S1 - ShortValue(S1)))
        /\ e2[2] = Instr("SW", "at", "v0", "zero", Low(S1))
    BY MemIs
  <1>4. /\ Text(e3, 2) /\ e3[1] = Instr("LUI", "zero", "at", "zero", High(S2 - ShortValue(S2)))
        /\ e3[2] = Instr("SW", "at", "a0", "zero", Low(S2))
    BY MemIs
  <1> HIDE DEF e1, e2, e3
  <1> HIDE DEF c2, c3
  <1>5. /\ Text(c2, 3) /\ \A j \in 1 .. 1 : c2[j] = c1[j]
        /\ c2[2] = e2[1]
        /\ c2[3] = e2[2]
    <2>1. c2 = c1 \o e2
      BY Zenon DEF c2
    <2> HIDE DEF c1
    <2> DEFINE p == 1
               q == 2
               u == 3
    <2>2. Text(c1, p)
      BY Zenon, <1>2 DEF c1, p
    <2>3. Text(e2, q) /\ p + q = u
      BY <1>3
    <2> HIDE DEF p, q, u
    <2>4. Joined(c2, c1, e2, p, u)
      BY Zenon, <2>1, <2>2, <2>3, JoinedIs
    <2> QED
      BY <2>4 DEF Joined, p, u
  <1>6. /\ Text(c3, 5) /\ \A j \in 1 .. 3 : c3[j] = c2[j]
        /\ c3[4] = e3[1]
        /\ c3[5] = e3[2]
    <2>1. c3 = c2 \o e3
      BY Zenon DEF c3
    <2> HIDE DEF c1
    <2> DEFINE p == 3
               q == 2
               u == 5
    <2>2. Text(c2, p)
      BY Zenon, <1>5 DEF p
    <2>3. Text(e3, q) /\ p + q = u
      BY <1>4
    <2> HIDE DEF p, q, u
    <2>4. Joined(c3, c2, e3, p, u)
      BY Zenon, <2>1, <2>2, <2>3, JoinedIs
    <2> QED
      BY <2>4 DEF Joined, p, u
  <1>7. c3[1] = Instr("ADDU", "zero", "at", "k1", 0)
    BY <1>2, <1>5, <1>6
  <1>8. c3[2] = Instr("LUI", "zero", "at", "zero", High(S1 - ShortValue(S1)))
    BY <1>3, <1>5, <1>6
  <1>9. c3[3] = Instr("SW", "at", "v0", "zero", Low(S1))
    BY <1>3, <1>5, <1>6
  <1>10. c3[4] = Instr("LUI", "zero", "at", "zero", High(S2 - ShortValue(S2)))
    BY <1>4, <1>6
  <1>11. c3[5] = Instr("SW", "at", "a0", "zero", Low(S2))
    BY <1>4, <1>6
  <1> QED
    BY Zenon, <1>1, <1>6, <1>7, <1>8, <1>9, <1>10, <1>11

LEMMA ReportIs ==
  /\ Text(Report, 18)
  /\ Report[1] = Instr("MFC0", "zero", "k0", "zero", "Cause")
  /\ Report[2] = Instr("SRL", "zero", "k0", "a0", 2)
  /\ Report[3] = Instr("ANDI", "a0", "a0", "zero", 31)
  /\ Report[4] = Instr("ORI", "zero", "v0", "zero", 4)
  /\ Report[5] = Instr("LUI", "zero", "at", "zero", High(Messages))
  /\ Report[6] = Instr("ORI", "at", "a0", "zero", Low(Messages))
  /\ Report[7] = Instr("SYSCALL", "zero", "zero", "zero", 0)
  /\ Report[8] = Instr("ORI", "zero", "v0", "zero", 1)
  /\ Report[9] = Instr("SRL", "zero", "k0", "a0", 2)
  /\ Report[10] = Instr("ANDI", "a0", "a0", "zero", 31)
  /\ Report[11] = Instr("SYSCALL", "zero", "zero", "zero", 0)
  /\ Report[12] = Instr("ORI", "zero", "v0", "zero", 4)
  /\ Report[13] = Instr("ANDI", "k0", "a0", "zero", 60)
  /\ Report[14] = Instr("LUI", "zero", "at", "zero", High(Messages - ShortValue(Messages)))
  /\ Report[15] = Instr("ADDU", "at", "a0", "at", 0)
  /\ Report[16] = Instr("LW", "at", "a0", "zero", Low(Messages))
  /\ Report[17] = Instr("SLL", "zero", "zero", "zero", 0)
  /\ Report[18] = Instr("SYSCALL", "zero", "zero", "zero", 0)
  <1> DEFINE e1 == Mfc0("k0", "Cause")
             e2 == ExcField
             e3 == Li("v0", 4)
             e4 == La("a0", Messages)
             e5 == Sys
             e6 == Li("v0", 1)
             e7 == ExcField
             e8 == Sys
             e9 == Li("v0", 4)
             e10 == Im("ANDI", "a0", "k0", 60)
             e11 == Table("a0")
             e12 == Nop
             e13 == Sys
             c1 == e1
             c2 == c1 \o e2
             c3 == c2 \o e3
             c4 == c3 \o e4
             c5 == c4 \o e5
             c6 == c5 \o e6
             c7 == c6 \o e7
             c8 == c7 \o e8
             c9 == c8 \o e9
             c10 == c9 \o e10
             c11 == c10 \o e11
             c12 == c11 \o e12
             c13 == c12 \o e13
  <1>1. Report = c13
    BY Zenon DEF Report
  <1>2. Text(e1, 1) /\ e1[1] = Instr("MFC0", "zero", "k0", "zero", "Cause")
    BY OneIs DEF Mfc0, R3, Im, Sys, Nop
  <1>3. /\ Text(e2, 2) /\ e2[1] = Instr("SRL", "zero", "k0", "a0", 2)
        /\ e2[2] = Instr("ANDI", "a0", "a0", "zero", 31)
    BY ExcFieldIs
  <1>4. Text(e3, 1) /\ e3[1] = Instr("ORI", "zero", "v0", "zero", 4)
    BY OneIs DEF Li, R3, Im, Sys, Nop
  <1>5. /\ Text(e4, 2) /\ e4[1] = Instr("LUI", "zero", "at", "zero", High(Messages))
        /\ e4[2] = Instr("ORI", "at", "a0", "zero", Low(Messages))
    BY LaIs
  <1>6. Text(e5, 1) /\ e5[1] = Instr("SYSCALL", "zero", "zero", "zero", 0)
    BY OneIs DEF R3, Im, Sys, Nop
  <1>7. Text(e6, 1) /\ e6[1] = Instr("ORI", "zero", "v0", "zero", 1)
    BY OneIs DEF Li, R3, Im, Sys, Nop
  <1>8. /\ Text(e7, 2) /\ e7[1] = Instr("SRL", "zero", "k0", "a0", 2)
        /\ e7[2] = Instr("ANDI", "a0", "a0", "zero", 31)
    BY ExcFieldIs
  <1>9. Text(e8, 1) /\ e8[1] = Instr("SYSCALL", "zero", "zero", "zero", 0)
    BY OneIs DEF R3, Im, Sys, Nop
  <1>10. Text(e9, 1) /\ e9[1] = Instr("ORI", "zero", "v0", "zero", 4)
    BY OneIs DEF Li, R3, Im, Sys, Nop
  <1>11. Text(e10, 1) /\ e10[1] = Instr("ANDI", "k0", "a0", "zero", 60)
    BY OneIs DEF R3, Im, Sys, Nop
  <1>12. /\ Text(e11, 3)
         /\ e11[1] = Instr("LUI", "zero", "at", "zero", High(Messages - ShortValue(Messages)))
         /\ e11[2] = Instr("ADDU", "at", "a0", "at", 0)
         /\ e11[3] = Instr("LW", "at", "a0", "zero", Low(Messages))
    BY TableIs
  <1>13. Text(e12, 1) /\ e12[1] = Instr("SLL", "zero", "zero", "zero", 0)
    BY OneIs DEF R3, Im, Sys, Nop
  <1>14. Text(e13, 1) /\ e13[1] = Instr("SYSCALL", "zero", "zero", "zero", 0)
    BY OneIs DEF R3, Im, Sys, Nop
  <1> HIDE DEF e1, e2, e3, e4, e5, e6, e7, e8, e9, e10, e11, e12, e13
  <1> HIDE DEF c2, c3, c4, c5, c6, c7, c8, c9, c10, c11, c12, c13
  <1>15. /\ Text(c2, 3) /\ \A j \in 1 .. 1 : c2[j] = c1[j]
        /\ c2[2] = e2[1]
        /\ c2[3] = e2[2]
    <2>1. c2 = c1 \o e2
      BY Zenon DEF c2
    <2> HIDE DEF c1
    <2> DEFINE p == 1
               q == 2
               u == 3
    <2>2. Text(c1, p)
      BY Zenon, <1>2 DEF c1, p
    <2>3. Text(e2, q) /\ p + q = u
      BY <1>3
    <2> HIDE DEF p, q, u
    <2>4. Joined(c2, c1, e2, p, u)
      BY Zenon, <2>1, <2>2, <2>3, JoinedIs
    <2> QED
      BY <2>4 DEF Joined, p, u
  <1>16. /\ Text(c3, 4) /\ \A j \in 1 .. 3 : c3[j] = c2[j]
        /\ c3[4] = e3[1]
    <2>1. c3 = c2 \o e3
      BY Zenon DEF c3
    <2> HIDE DEF c1
    <2> DEFINE p == 3
               q == 1
               u == 4
    <2>2. Text(c2, p)
      BY Zenon, <1>15 DEF p
    <2>3. Text(e3, q) /\ p + q = u
      BY <1>4
    <2> HIDE DEF p, q, u
    <2>4. Joined(c3, c2, e3, p, u)
      BY Zenon, <2>1, <2>2, <2>3, JoinedIs
    <2> QED
      BY <2>4 DEF Joined, p, u
  <1>17. /\ Text(c4, 6) /\ \A j \in 1 .. 4 : c4[j] = c3[j]
        /\ c4[5] = e4[1]
        /\ c4[6] = e4[2]
    <2>1. c4 = c3 \o e4
      BY Zenon DEF c4
    <2> HIDE DEF c1
    <2> DEFINE p == 4
               q == 2
               u == 6
    <2>2. Text(c3, p)
      BY Zenon, <1>16 DEF p
    <2>3. Text(e4, q) /\ p + q = u
      BY <1>5
    <2> HIDE DEF p, q, u
    <2>4. Joined(c4, c3, e4, p, u)
      BY Zenon, <2>1, <2>2, <2>3, JoinedIs
    <2> QED
      BY <2>4 DEF Joined, p, u
  <1>18. /\ Text(c5, 7) /\ \A j \in 1 .. 6 : c5[j] = c4[j]
        /\ c5[7] = e5[1]
    <2>1. c5 = c4 \o e5
      BY Zenon DEF c5
    <2> HIDE DEF c1
    <2> DEFINE p == 6
               q == 1
               u == 7
    <2>2. Text(c4, p)
      BY Zenon, <1>17 DEF p
    <2>3. Text(e5, q) /\ p + q = u
      BY <1>6
    <2> HIDE DEF p, q, u
    <2>4. Joined(c5, c4, e5, p, u)
      BY Zenon, <2>1, <2>2, <2>3, JoinedIs
    <2> QED
      BY <2>4 DEF Joined, p, u
  <1>19. /\ Text(c6, 8) /\ \A j \in 1 .. 7 : c6[j] = c5[j]
        /\ c6[8] = e6[1]
    <2>1. c6 = c5 \o e6
      BY Zenon DEF c6
    <2> HIDE DEF c1
    <2> DEFINE p == 7
               q == 1
               u == 8
    <2>2. Text(c5, p)
      BY Zenon, <1>18 DEF p
    <2>3. Text(e6, q) /\ p + q = u
      BY <1>7
    <2> HIDE DEF p, q, u
    <2>4. Joined(c6, c5, e6, p, u)
      BY Zenon, <2>1, <2>2, <2>3, JoinedIs
    <2> QED
      BY <2>4 DEF Joined, p, u
  <1>20. /\ Text(c7, 10) /\ \A j \in 1 .. 8 : c7[j] = c6[j]
        /\ c7[9] = e7[1]
        /\ c7[10] = e7[2]
    <2>1. c7 = c6 \o e7
      BY Zenon DEF c7
    <2> HIDE DEF c1
    <2> DEFINE p == 8
               q == 2
               u == 10
    <2>2. Text(c6, p)
      BY Zenon, <1>19 DEF p
    <2>3. Text(e7, q) /\ p + q = u
      BY <1>8
    <2> HIDE DEF p, q, u
    <2>4. Joined(c7, c6, e7, p, u)
      BY Zenon, <2>1, <2>2, <2>3, JoinedIs
    <2> QED
      BY <2>4 DEF Joined, p, u
  <1>21. /\ Text(c8, 11) /\ \A j \in 1 .. 10 : c8[j] = c7[j]
        /\ c8[11] = e8[1]
    <2>1. c8 = c7 \o e8
      BY Zenon DEF c8
    <2> HIDE DEF c1
    <2> DEFINE p == 10
               q == 1
               u == 11
    <2>2. Text(c7, p)
      BY Zenon, <1>20 DEF p
    <2>3. Text(e8, q) /\ p + q = u
      BY <1>9
    <2> HIDE DEF p, q, u
    <2>4. Joined(c8, c7, e8, p, u)
      BY Zenon, <2>1, <2>2, <2>3, JoinedIs
    <2> QED
      BY <2>4 DEF Joined, p, u
  <1>22. /\ Text(c9, 12) /\ \A j \in 1 .. 11 : c9[j] = c8[j]
        /\ c9[12] = e9[1]
    <2>1. c9 = c8 \o e9
      BY Zenon DEF c9
    <2> HIDE DEF c1
    <2> DEFINE p == 11
               q == 1
               u == 12
    <2>2. Text(c8, p)
      BY Zenon, <1>21 DEF p
    <2>3. Text(e9, q) /\ p + q = u
      BY <1>10
    <2> HIDE DEF p, q, u
    <2>4. Joined(c9, c8, e9, p, u)
      BY Zenon, <2>1, <2>2, <2>3, JoinedIs
    <2> QED
      BY <2>4 DEF Joined, p, u
  <1>23. /\ Text(c10, 13) /\ \A j \in 1 .. 12 : c10[j] = c9[j]
        /\ c10[13] = e10[1]
    <2>1. c10 = c9 \o e10
      BY Zenon DEF c10
    <2> HIDE DEF c1
    <2> DEFINE p == 12
               q == 1
               u == 13
    <2>2. Text(c9, p)
      BY Zenon, <1>22 DEF p
    <2>3. Text(e10, q) /\ p + q = u
      BY <1>11
    <2> HIDE DEF p, q, u
    <2>4. Joined(c10, c9, e10, p, u)
      BY Zenon, <2>1, <2>2, <2>3, JoinedIs
    <2> QED
      BY <2>4 DEF Joined, p, u
  <1>24. /\ Text(c11, 16) /\ \A j \in 1 .. 13 : c11[j] = c10[j]
        /\ c11[14] = e11[1]
        /\ c11[15] = e11[2]
        /\ c11[16] = e11[3]
    <2>1. c11 = c10 \o e11
      BY Zenon DEF c11
    <2> HIDE DEF c1
    <2> DEFINE p == 13
               q == 3
               u == 16
    <2>2. Text(c10, p)
      BY Zenon, <1>23 DEF p
    <2>3. Text(e11, q) /\ p + q = u
      BY <1>12
    <2> HIDE DEF p, q, u
    <2>4. Joined(c11, c10, e11, p, u)
      BY Zenon, <2>1, <2>2, <2>3, JoinedIs
    <2> QED
      BY <2>4 DEF Joined, p, u
  <1>25. /\ Text(c12, 17) /\ \A j \in 1 .. 16 : c12[j] = c11[j]
        /\ c12[17] = e12[1]
    <2>1. c12 = c11 \o e12
      BY Zenon DEF c12
    <2> HIDE DEF c1
    <2> DEFINE p == 16
               q == 1
               u == 17
    <2>2. Text(c11, p)
      BY Zenon, <1>24 DEF p
    <2>3. Text(e12, q) /\ p + q = u
      BY <1>13
    <2> HIDE DEF p, q, u
    <2>4. Joined(c12, c11, e12, p, u)
      BY Zenon, <2>1, <2>2, <2>3, JoinedIs
    <2> QED
      BY <2>4 DEF Joined, p, u
  <1>26. /\ Text(c13, 18) /\ \A j \in 1 .. 17 : c13[j] = c12[j]
        /\ c13[18] = e13[1]
    <2>1. c13 = c12 \o e13
      BY Zenon DEF c13
    <2> HIDE DEF c1
    <2> DEFINE p == 17
               q == 1
               u == 18
    <2>2. Text(c12, p)
      BY Zenon, <1>25 DEF p
    <2>3. Text(e13, q) /\ p + q = u
      BY <1>14
    <2> HIDE DEF p, q, u
    <2>4. Joined(c13, c12, e13, p, u)
      BY Zenon, <2>1, <2>2, <2>3, JoinedIs
    <2> QED
      BY <2>4 DEF Joined, p, u
  <1>27. c13[1] = Instr("MFC0", "zero", "k0", "zero", "Cause")
    BY <1>2, <1>15, <1>16, <1>17, <1>18, <1>19, <1>20, <1>21, <1>22, <1>23, <1>24, <1>25, <1>26
  <1>28. c13[2] = Instr("SRL", "zero", "k0", "a0", 2)
    BY <1>3, <1>15, <1>16, <1>17, <1>18, <1>19, <1>20, <1>21, <1>22, <1>23, <1>24, <1>25, <1>26
  <1>29. c13[3] = Instr("ANDI", "a0", "a0", "zero", 31)
    BY <1>3, <1>15, <1>16, <1>17, <1>18, <1>19, <1>20, <1>21, <1>22, <1>23, <1>24, <1>25, <1>26
  <1>30. c13[4] = Instr("ORI", "zero", "v0", "zero", 4)
    BY <1>4, <1>16, <1>17, <1>18, <1>19, <1>20, <1>21, <1>22, <1>23, <1>24, <1>25, <1>26
  <1>31. c13[5] = Instr("LUI", "zero", "at", "zero", High(Messages))
    BY <1>5, <1>17, <1>18, <1>19, <1>20, <1>21, <1>22, <1>23, <1>24, <1>25, <1>26
  <1>32. c13[6] = Instr("ORI", "at", "a0", "zero", Low(Messages))
    BY <1>5, <1>17, <1>18, <1>19, <1>20, <1>21, <1>22, <1>23, <1>24, <1>25, <1>26
  <1>33. c13[7] = Instr("SYSCALL", "zero", "zero", "zero", 0)
    BY <1>6, <1>18, <1>19, <1>20, <1>21, <1>22, <1>23, <1>24, <1>25, <1>26
  <1>34. c13[8] = Instr("ORI", "zero", "v0", "zero", 1)
    BY <1>7, <1>19, <1>20, <1>21, <1>22, <1>23, <1>24, <1>25, <1>26
  <1>35. c13[9] = Instr("SRL", "zero", "k0", "a0", 2)
    BY <1>8, <1>20, <1>21, <1>22, <1>23, <1>24, <1>25, <1>26
  <1>36. c13[10] = Instr("ANDI", "a0", "a0", "zero", 31)
    BY <1>8, <1>20, <1>21, <1>22, <1>23, <1>24, <1>25, <1>26
  <1>37. c13[11] = Instr("SYSCALL", "zero", "zero", "zero", 0)
    BY <1>9, <1>21, <1>22, <1>23, <1>24, <1>25, <1>26
  <1>38. c13[12] = Instr("ORI", "zero", "v0", "zero", 4)
    BY <1>10, <1>22, <1>23, <1>24, <1>25, <1>26
  <1>39. c13[13] = Instr("ANDI", "k0", "a0", "zero", 60)
    BY <1>11, <1>23, <1>24, <1>25, <1>26
  <1>40. c13[14] = Instr("LUI", "zero", "at", "zero", High(Messages - ShortValue(Messages)))
    BY <1>12, <1>24, <1>25, <1>26
  <1>41. c13[15] = Instr("ADDU", "at", "a0", "at", 0)
    BY <1>12, <1>24, <1>25, <1>26
  <1>42. c13[16] = Instr("LW", "at", "a0", "zero", Low(Messages))
    BY <1>12, <1>24, <1>25, <1>26
  <1>43. c13[17] = Instr("SLL", "zero", "zero", "zero", 0)
    BY <1>13, <1>25, <1>26
  <1>44. c13[18] = Instr("SYSCALL", "zero", "zero", "zero", 0)
    BY <1>14, <1>26
  <1> QED
    BY Zenon, <1>1, <1>26, <1>27, <1>28, <1>29, <1>30, <1>31, <1>32, <1>33, <1>34, <1>35, <1>36,
       <1>37, <1>38, <1>39, <1>40, <1>41, <1>42, <1>43, <1>44

LEMMA CheckPcIs ==
  /\ Text(CheckPc, 9)
  /\ CheckPc[1] = Instr("ORI", "zero", "at", "zero", 4 * ExcCode.IBE)
  /\ CheckPc[2] = Instr("BNE", "k0", "at", "zero", 7 + 1)
  /\ CheckPc[3] = Instr("SLL", "zero", "zero", "zero", 0)
  /\ CheckPc[4] = Instr("MFC0", "zero", "a0", "zero", "EPC")
  /\ CheckPc[5] = Instr("ANDI", "a0", "a0", "zero", 3)
  /\ CheckPc[6] = Instr("BEQ", "a0", "zero", "zero", 3 + 1)
  /\ CheckPc[7] = Instr("SLL", "zero", "zero", "zero", 0)
  /\ CheckPc[8] = Instr("ORI", "zero", "v0", "zero", 10)
  /\ CheckPc[9] = Instr("SYSCALL", "zero", "zero", "zero", 0)
  <1> DEFINE e1 == Li("at", 4 * ExcCode.IBE)
             e2 == Over("BNE", "k0", "at", 7)
             e3 == Nop
             e4 == Mfc0("a0", "EPC")
             e5 == Im("ANDI", "a0", "a0", 3)
             e6 == Over("BEQ", "a0", "zero", 3)
             e7 == Nop
             e8 == Li("v0", 10)
             e9 == Sys
             c1 == e1
             c2 == c1 \o e2
             c3 == c2 \o e3
             c4 == c3 \o e4
             c5 == c4 \o e5
             c6 == c5 \o e6
             c7 == c6 \o e7
             c8 == c7 \o e8
             c9 == c8 \o e9
  <1>1. CheckPc = c9
    BY Zenon DEF CheckPc
  <1>2. Text(e1, 1) /\ e1[1] = Instr("ORI", "zero", "at", "zero", 4 * ExcCode.IBE)
    BY OneIs DEF Li, R3, Im, Sys, Nop
  <1>3. Text(e2, 1) /\ e2[1] = Instr("BNE", "k0", "at", "zero", 7 + 1)
    BY OneIs DEF Over, R3, Im, Sys, Nop
  <1>4. Text(e3, 1) /\ e3[1] = Instr("SLL", "zero", "zero", "zero", 0)
    BY OneIs DEF R3, Im, Sys, Nop
  <1>5. Text(e4, 1) /\ e4[1] = Instr("MFC0", "zero", "a0", "zero", "EPC")
    BY OneIs DEF Mfc0, R3, Im, Sys, Nop
  <1>6. Text(e5, 1) /\ e5[1] = Instr("ANDI", "a0", "a0", "zero", 3)
    BY OneIs DEF R3, Im, Sys, Nop
  <1>7. Text(e6, 1) /\ e6[1] = Instr("BEQ", "a0", "zero", "zero", 3 + 1)
    BY OneIs DEF Over, R3, Im, Sys, Nop
  <1>8. Text(e7, 1) /\ e7[1] = Instr("SLL", "zero", "zero", "zero", 0)
    BY OneIs DEF R3, Im, Sys, Nop
  <1>9. Text(e8, 1) /\ e8[1] = Instr("ORI", "zero", "v0", "zero", 10)
    BY OneIs DEF Li, R3, Im, Sys, Nop
  <1>10. Text(e9, 1) /\ e9[1] = Instr("SYSCALL", "zero", "zero", "zero", 0)
    BY OneIs DEF R3, Im, Sys, Nop
  <1> HIDE DEF e1, e2, e3, e4, e5, e6, e7, e8, e9
  <1> HIDE DEF c2, c3, c4, c5, c6, c7, c8, c9
  <1>11. /\ Text(c2, 2) /\ \A j \in 1 .. 1 : c2[j] = c1[j]
        /\ c2[2] = e2[1]
    <2>1. c2 = c1 \o e2
      BY Zenon DEF c2
    <2> HIDE DEF c1
    <2> DEFINE p == 1
               q == 1
               u == 2
    <2>2. Text(c1, p)
      BY Zenon, <1>2 DEF c1, p
    <2>3. Text(e2, q) /\ p + q = u
      BY <1>3
    <2> HIDE DEF p, q, u
    <2>4. Joined(c2, c1, e2, p, u)
      BY Zenon, <2>1, <2>2, <2>3, JoinedIs
    <2> QED
      BY <2>4 DEF Joined, p, u
  <1>12. /\ Text(c3, 3) /\ \A j \in 1 .. 2 : c3[j] = c2[j]
        /\ c3[3] = e3[1]
    <2>1. c3 = c2 \o e3
      BY Zenon DEF c3
    <2> HIDE DEF c1
    <2> DEFINE p == 2
               q == 1
               u == 3
    <2>2. Text(c2, p)
      BY Zenon, <1>11 DEF p
    <2>3. Text(e3, q) /\ p + q = u
      BY <1>4
    <2> HIDE DEF p, q, u
    <2>4. Joined(c3, c2, e3, p, u)
      BY Zenon, <2>1, <2>2, <2>3, JoinedIs
    <2> QED
      BY <2>4 DEF Joined, p, u
  <1>13. /\ Text(c4, 4) /\ \A j \in 1 .. 3 : c4[j] = c3[j]
        /\ c4[4] = e4[1]
    <2>1. c4 = c3 \o e4
      BY Zenon DEF c4
    <2> HIDE DEF c1
    <2> DEFINE p == 3
               q == 1
               u == 4
    <2>2. Text(c3, p)
      BY Zenon, <1>12 DEF p
    <2>3. Text(e4, q) /\ p + q = u
      BY <1>5
    <2> HIDE DEF p, q, u
    <2>4. Joined(c4, c3, e4, p, u)
      BY Zenon, <2>1, <2>2, <2>3, JoinedIs
    <2> QED
      BY <2>4 DEF Joined, p, u
  <1>14. /\ Text(c5, 5) /\ \A j \in 1 .. 4 : c5[j] = c4[j]
        /\ c5[5] = e5[1]
    <2>1. c5 = c4 \o e5
      BY Zenon DEF c5
    <2> HIDE DEF c1
    <2> DEFINE p == 4
               q == 1
               u == 5
    <2>2. Text(c4, p)
      BY Zenon, <1>13 DEF p
    <2>3. Text(e5, q) /\ p + q = u
      BY <1>6
    <2> HIDE DEF p, q, u
    <2>4. Joined(c5, c4, e5, p, u)
      BY Zenon, <2>1, <2>2, <2>3, JoinedIs
    <2> QED
      BY <2>4 DEF Joined, p, u
  <1>15. /\ Text(c6, 6) /\ \A j \in 1 .. 5 : c6[j] = c5[j]
        /\ c6[6] = e6[1]
    <2>1. c6 = c5 \o e6
      BY Zenon DEF c6
    <2> HIDE DEF c1
    <2> DEFINE p == 5
               q == 1
               u == 6
    <2>2. Text(c5, p)
      BY Zenon, <1>14 DEF p
    <2>3. Text(e6, q) /\ p + q = u
      BY <1>7
    <2> HIDE DEF p, q, u
    <2>4. Joined(c6, c5, e6, p, u)
      BY Zenon, <2>1, <2>2, <2>3, JoinedIs
    <2> QED
      BY <2>4 DEF Joined, p, u
  <1>16. /\ Text(c7, 7) /\ \A j \in 1 .. 6 : c7[j] = c6[j]
        /\ c7[7] = e7[1]
    <2>1. c7 = c6 \o e7
      BY Zenon DEF c7
    <2> HIDE DEF c1
    <2> DEFINE p == 6
               q == 1
               u == 7
    <2>2. Text(c6, p)
      BY Zenon, <1>15 DEF p
    <2>3. Text(e7, q) /\ p + q = u
      BY <1>8
    <2> HIDE DEF p, q, u
    <2>4. Joined(c7, c6, e7, p, u)
      BY Zenon, <2>1, <2>2, <2>3, JoinedIs
    <2> QED
      BY <2>4 DEF Joined, p, u
  <1>17. /\ Text(c8, 8) /\ \A j \in 1 .. 7 : c8[j] = c7[j]
        /\ c8[8] = e8[1]
    <2>1. c8 = c7 \o e8
      BY Zenon DEF c8
    <2> HIDE DEF c1
    <2> DEFINE p == 7
               q == 1
               u == 8
    <2>2. Text(c7, p)
      BY Zenon, <1>16 DEF p
    <2>3. Text(e8, q) /\ p + q = u
      BY <1>9
    <2> HIDE DEF p, q, u
    <2>4. Joined(c8, c7, e8, p, u)
      BY Zenon, <2>1, <2>2, <2>3, JoinedIs
    <2> QED
      BY <2>4 DEF Joined, p, u
  <1>18. /\ Text(c9, 9) /\ \A j \in 1 .. 8 : c9[j] = c8[j]
        /\ c9[9] = e9[1]
    <2>1. c9 = c8 \o e9
      BY Zenon DEF c9
    <2> HIDE DEF c1
    <2> DEFINE p == 8
               q == 1
               u == 9
    <2>2. Text(c8, p)
      BY Zenon, <1>17 DEF p
    <2>3. Text(e9, q) /\ p + q = u
      BY <1>10
    <2> HIDE DEF p, q, u
    <2>4. Joined(c9, c8, e9, p, u)
      BY Zenon, <2>1, <2>2, <2>3, JoinedIs
    <2> QED
      BY <2>4 DEF Joined, p, u
  <1>19. c9[1] = Instr("ORI", "zero", "at", "zero", 4 * ExcCode.IBE)
    BY <1>2, <1>11, <1>12, <1>13, <1>14, <1>15, <1>16, <1>17, <1>18
  <1>20. c9[2] = Instr("BNE", "k0", "at", "zero", 7 + 1)
    BY <1>3, <1>11, <1>12, <1>13, <1>14, <1>15, <1>16, <1>17, <1>18
  <1>21. c9[3] = Instr("SLL", "zero", "zero", "zero", 0)
    BY <1>4, <1>12, <1>13, <1>14, <1>15, <1>16, <1>17, <1>18
  <1>22. c9[4] = Instr("MFC0", "zero", "a0", "zero", "EPC")
    BY <1>5, <1>13, <1>14, <1>15, <1>16, <1>17, <1>18
  <1>23. c9[5] = Instr("ANDI", "a0", "a0", "zero", 3)
    BY <1>6, <1>14, <1>15, <1>16, <1>17, <1>18
  <1>24. c9[6] = Instr("BEQ", "a0", "zero", "zero", 3 + 1)
    BY <1>7, <1>15, <1>16, <1>17, <1>18
  <1>25. c9[7] = Instr("SLL", "zero", "zero", "zero", 0)
    BY <1>8, <1>16, <1>17, <1>18
  <1>26. c9[8] = Instr("ORI", "zero", "v0", "zero", 10)
    BY <1>9, <1>17, <1>18
  <1>27. c9[9] = Instr("SYSCALL", "zero", "zero", "zero", 0)
    BY <1>10, <1>18
  <1> QED
    BY Zenon, <1>1, <1>18, <1>19, <1>20, <1>21, <1>22, <1>23, <1>24, <1>25, <1>26, <1>27

LEMMA OkPcIs ==
  /\ Text(OkPc, 8)
  /\ OkPc[1] = Instr("ORI", "zero", "v0", "zero", 4)
  /\ OkPc[2] = Instr("LUI", "zero", "at", "zero", High(Messages))
  /\ OkPc[3] = Instr("ORI", "at", "a0", "zero", Low(Messages))
  /\ OkPc[4] = Instr("SYSCALL", "zero", "zero", "zero", 0)
  /\ OkPc[5] = Instr("SRL", "zero", "k0", "a0", 2)
  /\ OkPc[6] = Instr("ANDI", "a0", "a0", "zero", 31)
  /\ OkPc[7] = Instr("BNE", "a0", "zero", "zero", 1 + 1)
  /\ OkPc[8] = Instr("SLL", "zero", "zero", "zero", 0)
  <1> DEFINE e1 == Li("v0", 4)
             e2 == La("a0", Messages)
             e3 == Sys
             e4 == ExcField
             e5 == Over("BNE", "a0", "zero", 1)
             e6 == Nop
             c1 == e1
             c2 == c1 \o e2
             c3 == c2 \o e3
             c4 == c3 \o e4
             c5 == c4 \o e5
             c6 == c5 \o e6
  <1>1. OkPc = c6
    BY Zenon DEF OkPc
  <1>2. Text(e1, 1) /\ e1[1] = Instr("ORI", "zero", "v0", "zero", 4)
    BY OneIs DEF Li, R3, Im, Sys, Nop
  <1>3. /\ Text(e2, 2) /\ e2[1] = Instr("LUI", "zero", "at", "zero", High(Messages))
        /\ e2[2] = Instr("ORI", "at", "a0", "zero", Low(Messages))
    BY LaIs
  <1>4. Text(e3, 1) /\ e3[1] = Instr("SYSCALL", "zero", "zero", "zero", 0)
    BY OneIs DEF R3, Im, Sys, Nop
  <1>5. /\ Text(e4, 2) /\ e4[1] = Instr("SRL", "zero", "k0", "a0", 2)
        /\ e4[2] = Instr("ANDI", "a0", "a0", "zero", 31)
    BY ExcFieldIs
  <1>6. Text(e5, 1) /\ e5[1] = Instr("BNE", "a0", "zero", "zero", 1 + 1)
    BY OneIs DEF Over, R3, Im, Sys, Nop
  <1>7. Text(e6, 1) /\ e6[1] = Instr("SLL", "zero", "zero", "zero", 0)
    BY OneIs DEF R3, Im, Sys, Nop
  <1> HIDE DEF e1, e2, e3, e4, e5, e6
  <1> HIDE DEF c2, c3, c4, c5, c6
  <1>8. /\ Text(c2, 3) /\ \A j \in 1 .. 1 : c2[j] = c1[j]
        /\ c2[2] = e2[1]
        /\ c2[3] = e2[2]
    <2>1. c2 = c1 \o e2
      BY Zenon DEF c2
    <2> HIDE DEF c1
    <2> DEFINE p == 1
               q == 2
               u == 3
    <2>2. Text(c1, p)
      BY Zenon, <1>2 DEF c1, p
    <2>3. Text(e2, q) /\ p + q = u
      BY <1>3
    <2> HIDE DEF p, q, u
    <2>4. Joined(c2, c1, e2, p, u)
      BY Zenon, <2>1, <2>2, <2>3, JoinedIs
    <2> QED
      BY <2>4 DEF Joined, p, u
  <1>9. /\ Text(c3, 4) /\ \A j \in 1 .. 3 : c3[j] = c2[j]
        /\ c3[4] = e3[1]
    <2>1. c3 = c2 \o e3
      BY Zenon DEF c3
    <2> HIDE DEF c1
    <2> DEFINE p == 3
               q == 1
               u == 4
    <2>2. Text(c2, p)
      BY Zenon, <1>8 DEF p
    <2>3. Text(e3, q) /\ p + q = u
      BY <1>4
    <2> HIDE DEF p, q, u
    <2>4. Joined(c3, c2, e3, p, u)
      BY Zenon, <2>1, <2>2, <2>3, JoinedIs
    <2> QED
      BY <2>4 DEF Joined, p, u
  <1>10. /\ Text(c4, 6) /\ \A j \in 1 .. 4 : c4[j] = c3[j]
        /\ c4[5] = e4[1]
        /\ c4[6] = e4[2]
    <2>1. c4 = c3 \o e4
      BY Zenon DEF c4
    <2> HIDE DEF c1
    <2> DEFINE p == 4
               q == 2
               u == 6
    <2>2. Text(c3, p)
      BY Zenon, <1>9 DEF p
    <2>3. Text(e4, q) /\ p + q = u
      BY <1>5
    <2> HIDE DEF p, q, u
    <2>4. Joined(c4, c3, e4, p, u)
      BY Zenon, <2>1, <2>2, <2>3, JoinedIs
    <2> QED
      BY <2>4 DEF Joined, p, u
  <1>11. /\ Text(c5, 7) /\ \A j \in 1 .. 6 : c5[j] = c4[j]
        /\ c5[7] = e5[1]
    <2>1. c5 = c4 \o e5
      BY Zenon DEF c5
    <2> HIDE DEF c1
    <2> DEFINE p == 6
               q == 1
               u == 7
    <2>2. Text(c4, p)
      BY Zenon, <1>10 DEF p
    <2>3. Text(e5, q) /\ p + q = u
      BY <1>6
    <2> HIDE DEF p, q, u
    <2>4. Joined(c5, c4, e5, p, u)
      BY Zenon, <2>1, <2>2, <2>3, JoinedIs
    <2> QED
      BY <2>4 DEF Joined, p, u
  <1>12. /\ Text(c6, 8) /\ \A j \in 1 .. 7 : c6[j] = c5[j]
        /\ c6[8] = e6[1]
    <2>1. c6 = c5 \o e6
      BY Zenon DEF c6
    <2> HIDE DEF c1
    <2> DEFINE p == 7
               q == 1
               u == 8
    <2>2. Text(c5, p)
      BY Zenon, <1>11 DEF p
    <2>3. Text(e6, q) /\ p + q = u
      BY <1>7
    <2> HIDE DEF p, q, u
    <2>4. Joined(c6, c5, e6, p, u)
      BY Zenon, <2>1, <2>2, <2>3, JoinedIs
    <2> QED
      BY <2>4 DEF Joined, p, u
  <1>13. c6[1] = Instr("ORI", "zero", "v0", "zero", 4)
    BY <1>2, <1>8, <1>9, <1>10, <1>11, <1>12
  <1>14. c6[2] = Instr("LUI", "zero", "at", "zero", High(Messages))
    BY <1>3, <1>8, <1>9, <1>10, <1>11, <1>12
  <1>15. c6[3] = Instr("ORI", "at", "a0", "zero", Low(Messages))
    BY <1>3, <1>8, <1>9, <1>10, <1>11, <1>12
  <1>16. c6[4] = Instr("SYSCALL", "zero", "zero", "zero", 0)
    BY <1>4, <1>9, <1>10, <1>11, <1>12
  <1>17. c6[5] = Instr("SRL", "zero", "k0", "a0", 2)
    BY <1>5, <1>10, <1>11, <1>12
  <1>18. c6[6] = Instr("ANDI", "a0", "a0", "zero", 31)
    BY <1>5, <1>10, <1>11, <1>12
  <1>19. c6[7] = Instr("BNE", "a0", "zero", "zero", 1 + 1)
    BY <1>6, <1>11, <1>12
  <1>20. c6[8] = Instr("SLL", "zero", "zero", "zero", 0)
    BY <1>7, <1>12
  <1> QED
    BY Zenon, <1>1, <1>12, <1>13, <1>14, <1>15, <1>16, <1>17, <1>18, <1>19, <1>20

LEMMA SkipFaultingIs ==
  /\ Text(SkipFaulting, 3)
  /\ SkipFaulting[1] = Instr("MFC0", "zero", "k0", "zero", "EPC")
  /\ SkipFaulting[2] = Instr("ADDIU", "k0", "k0", "zero", 4)
  /\ SkipFaulting[3] = Instr("MTC0", "zero", "k0", "zero", "EPC")
  <1> DEFINE e1 == Mfc0("k0", "EPC")
             e2 == Im("ADDIU", "k0", "k0", 4)
             e3 == Mtc0("k0", "EPC")
             c1 == e1
             c2 == c1 \o e2
             c3 == c2 \o e3
  <1>1. SkipFaulting = c3
    BY Zenon DEF SkipFaulting
  <1>2. Text(e1, 1) /\ e1[1] = Instr("MFC0", "zero", "k0", "zero", "EPC")
    BY OneIs DEF Mfc0, R3, Im, Sys, Nop
  <1>3. Text(e2, 1) /\ e2[1] = Instr("ADDIU", "k0", "k0", "zero", 4)
    BY OneIs DEF R3, Im, Sys, Nop
  <1>4. Text(e3, 1) /\ e3[1] = Instr("MTC0", "zero", "k0", "zero", "EPC")
    BY OneIs DEF Mtc0, R3, Im, Sys, Nop
  <1> HIDE DEF e1, e2, e3
  <1> HIDE DEF c2, c3
  <1>5. /\ Text(c2, 2) /\ \A j \in 1 .. 1 : c2[j] = c1[j]
        /\ c2[2] = e2[1]
    <2>1. c2 = c1 \o e2
      BY Zenon DEF c2
    <2> HIDE DEF c1
    <2> DEFINE p == 1
               q == 1
               u == 2
    <2>2. Text(c1, p)
      BY Zenon, <1>2 DEF c1, p
    <2>3. Text(e2, q) /\ p + q = u
      BY <1>3
    <2> HIDE DEF p, q, u
    <2>4. Joined(c2, c1, e2, p, u)
      BY Zenon, <2>1, <2>2, <2>3, JoinedIs
    <2> QED
      BY <2>4 DEF Joined, p, u
  <1>6. /\ Text(c3, 3) /\ \A j \in 1 .. 2 : c3[j] = c2[j]
        /\ c3[3] = e3[1]
    <2>1. c3 = c2 \o e3
      BY Zenon DEF c3
    <2> HIDE DEF c1
    <2> DEFINE p == 2
               q == 1
               u == 3
    <2>2. Text(c2, p)
      BY Zenon, <1>5 DEF p
    <2>3. Text(e3, q) /\ p + q = u
      BY <1>4
    <2> HIDE DEF p, q, u
    <2>4. Joined(c3, c2, e3, p, u)
      BY Zenon, <2>1, <2>2, <2>3, JoinedIs
    <2> QED
      BY <2>4 DEF Joined, p, u
  <1>7. c3[1] = Instr("MFC0", "zero", "k0", "zero", "EPC")
    BY <1>2, <1>5, <1>6
  <1>8. c3[2] = Instr("ADDIU", "k0", "k0", "zero", 4)
    BY <1>3, <1>5, <1>6
  <1>9. c3[3] = Instr("MTC0", "zero", "k0", "zero", "EPC")
    BY <1>4, <1>6
  <1> QED
    BY Zenon, <1>1, <1>6, <1>7, <1>8, <1>9

LEMMA RestoreIs ==
  /\ Text(Restore, 10)
  /\ Restore[1] = Instr("LUI", "zero", "at", "zero", High(S1 - ShortValue(S1)))
  /\ Restore[2] = Instr("LW", "at", "v0", "zero", Low(S1))
  /\ Restore[3] = Instr("LUI", "zero", "at", "zero", High(S2 - ShortValue(S2)))
  /\ Restore[4] = Instr("LW", "at", "a0", "zero", Low(S2))
  /\ Restore[5] = Instr("ADDU", "zero", "k1", "at", 0)
  /\ Restore[6] = Instr("MTC0", "zero", "zero", "zero", "Cause")
  /\ Restore[7] = Instr("MFC0", "zero", "k0", "zero", "Status")
  /\ Restore[8] = Instr("ORI", "k0", "k0", "zero", 1)
  /\ Restore[9] = Instr("MTC0", "zero", "k0", "zero", "Status")
  /\ Restore[10] = Instr("ERET", "zero", "zero", "zero", 0)
  <1> DEFINE e1 == Mem("LW", "v0", S1)
             e2 == Mem("LW", "a0", S2)
             e3 == R3("ADDU", "at", "zero", "k1")
             e4 == Mtc0("zero", "Cause")
             e5 == Mfc0("k0", "Status")
             e6 == Im("ORI", "k0", "k0", 1)
             e7 == Mtc0("k0", "Status")
             e8 == <<Instr("ERET", "zero", "zero", "zero", 0)>>
             c1 == e1
             c2 == c1 \o e2
             c3 == c2 \o e3
             c4 == c3 \o e4
             c5 == c4 \o e5
             c6 == c5 \o e6
             c7 == c6 \o e7
             c8 == c7 \o e8
  <1>1. Restore = c8
    BY Zenon DEF Restore
  <1>2. /\ Text(e1, 2) /\ e1[1] = Instr("LUI", "zero", "at", "zero", High(S1 - ShortValue(S1)))
        /\ e1[2] = Instr("LW", "at", "v0", "zero", Low(S1))
    BY MemIs
  <1>3. /\ Text(e2, 2) /\ e2[1] = Instr("LUI", "zero", "at", "zero", High(S2 - ShortValue(S2)))
        /\ e2[2] = Instr("LW", "at", "a0", "zero", Low(S2))
    BY MemIs
  <1>4. Text(e3, 1) /\ e3[1] = Instr("ADDU", "zero", "k1", "at", 0)
    BY OneIs DEF R3, Im, Sys, Nop
  <1>5. Text(e4, 1) /\ e4[1] = Instr("MTC0", "zero", "zero", "zero", "Cause")
    BY OneIs DEF Mtc0, R3, Im, Sys, Nop
  <1>6. Text(e5, 1) /\ e5[1] = Instr("MFC0", "zero", "k0", "zero", "Status")
    BY OneIs DEF Mfc0, R3, Im, Sys, Nop
  <1>7. Text(e6, 1) /\ e6[1] = Instr("ORI", "k0", "k0", "zero", 1)
    BY OneIs DEF R3, Im, Sys, Nop
  <1>8. Text(e7, 1) /\ e7[1] = Instr("MTC0", "zero", "k0", "zero", "Status")
    BY OneIs DEF Mtc0, R3, Im, Sys, Nop
  <1>9. Text(e8, 1) /\ e8[1] = Instr("ERET", "zero", "zero", "zero", 0)
    BY OneIs DEF R3, Im, Sys, Nop
  <1> HIDE DEF e1, e2, e3, e4, e5, e6, e7, e8
  <1> HIDE DEF c2, c3, c4, c5, c6, c7, c8
  <1>10. /\ Text(c2, 4) /\ \A j \in 1 .. 2 : c2[j] = c1[j]
        /\ c2[3] = e2[1]
        /\ c2[4] = e2[2]
    <2>1. c2 = c1 \o e2
      BY Zenon DEF c2
    <2> HIDE DEF c1
    <2> DEFINE p == 2
               q == 2
               u == 4
    <2>2. Text(c1, p)
      BY Zenon, <1>2 DEF c1, p
    <2>3. Text(e2, q) /\ p + q = u
      BY <1>3
    <2> HIDE DEF p, q, u
    <2>4. Joined(c2, c1, e2, p, u)
      BY Zenon, <2>1, <2>2, <2>3, JoinedIs
    <2> QED
      BY <2>4 DEF Joined, p, u
  <1>11. /\ Text(c3, 5) /\ \A j \in 1 .. 4 : c3[j] = c2[j]
        /\ c3[5] = e3[1]
    <2>1. c3 = c2 \o e3
      BY Zenon DEF c3
    <2> HIDE DEF c1
    <2> DEFINE p == 4
               q == 1
               u == 5
    <2>2. Text(c2, p)
      BY Zenon, <1>10 DEF p
    <2>3. Text(e3, q) /\ p + q = u
      BY <1>4
    <2> HIDE DEF p, q, u
    <2>4. Joined(c3, c2, e3, p, u)
      BY Zenon, <2>1, <2>2, <2>3, JoinedIs
    <2> QED
      BY <2>4 DEF Joined, p, u
  <1>12. /\ Text(c4, 6) /\ \A j \in 1 .. 5 : c4[j] = c3[j]
        /\ c4[6] = e4[1]
    <2>1. c4 = c3 \o e4
      BY Zenon DEF c4
    <2> HIDE DEF c1
    <2> DEFINE p == 5
               q == 1
               u == 6
    <2>2. Text(c3, p)
      BY Zenon, <1>11 DEF p
    <2>3. Text(e4, q) /\ p + q = u
      BY <1>5
    <2> HIDE DEF p, q, u
    <2>4. Joined(c4, c3, e4, p, u)
      BY Zenon, <2>1, <2>2, <2>3, JoinedIs
    <2> QED
      BY <2>4 DEF Joined, p, u
  <1>13. /\ Text(c5, 7) /\ \A j \in 1 .. 6 : c5[j] = c4[j]
        /\ c5[7] = e5[1]
    <2>1. c5 = c4 \o e5
      BY Zenon DEF c5
    <2> HIDE DEF c1
    <2> DEFINE p == 6
               q == 1
               u == 7
    <2>2. Text(c4, p)
      BY Zenon, <1>12 DEF p
    <2>3. Text(e5, q) /\ p + q = u
      BY <1>6
    <2> HIDE DEF p, q, u
    <2>4. Joined(c5, c4, e5, p, u)
      BY Zenon, <2>1, <2>2, <2>3, JoinedIs
    <2> QED
      BY <2>4 DEF Joined, p, u
  <1>14. /\ Text(c6, 8) /\ \A j \in 1 .. 7 : c6[j] = c5[j]
        /\ c6[8] = e6[1]
    <2>1. c6 = c5 \o e6
      BY Zenon DEF c6
    <2> HIDE DEF c1
    <2> DEFINE p == 7
               q == 1
               u == 8
    <2>2. Text(c5, p)
      BY Zenon, <1>13 DEF p
    <2>3. Text(e6, q) /\ p + q = u
      BY <1>7
    <2> HIDE DEF p, q, u
    <2>4. Joined(c6, c5, e6, p, u)
      BY Zenon, <2>1, <2>2, <2>3, JoinedIs
    <2> QED
      BY <2>4 DEF Joined, p, u
  <1>15. /\ Text(c7, 9) /\ \A j \in 1 .. 8 : c7[j] = c6[j]
        /\ c7[9] = e7[1]
    <2>1. c7 = c6 \o e7
      BY Zenon DEF c7
    <2> HIDE DEF c1
    <2> DEFINE p == 8
               q == 1
               u == 9
    <2>2. Text(c6, p)
      BY Zenon, <1>14 DEF p
    <2>3. Text(e7, q) /\ p + q = u
      BY <1>8
    <2> HIDE DEF p, q, u
    <2>4. Joined(c7, c6, e7, p, u)
      BY Zenon, <2>1, <2>2, <2>3, JoinedIs
    <2> QED
      BY <2>4 DEF Joined, p, u
  <1>16. /\ Text(c8, 10) /\ \A j \in 1 .. 9 : c8[j] = c7[j]
        /\ c8[10] = e8[1]
    <2>1. c8 = c7 \o e8
      BY Zenon DEF c8
    <2> HIDE DEF c1
    <2> DEFINE p == 9
               q == 1
               u == 10
    <2>2. Text(c7, p)
      BY Zenon, <1>15 DEF p
    <2>3. Text(e8, q) /\ p + q = u
      BY <1>9
    <2> HIDE DEF p, q, u
    <2>4. Joined(c8, c7, e8, p, u)
      BY Zenon, <2>1, <2>2, <2>3, JoinedIs
    <2> QED
      BY <2>4 DEF Joined, p, u
  <1>17. c8[1] = Instr("LUI", "zero", "at", "zero", High(S1 - ShortValue(S1)))
    BY <1>2, <1>10, <1>11, <1>12, <1>13, <1>14, <1>15, <1>16
  <1>18. c8[2] = Instr("LW", "at", "v0", "zero", Low(S1))
    BY <1>2, <1>10, <1>11, <1>12, <1>13, <1>14, <1>15, <1>16
  <1>19. c8[3] = Instr("LUI", "zero", "at", "zero", High(S2 - ShortValue(S2)))
    BY <1>3, <1>10, <1>11, <1>12, <1>13, <1>14, <1>15, <1>16
  <1>20. c8[4] = Instr("LW", "at", "a0", "zero", Low(S2))
    BY <1>3, <1>10, <1>11, <1>12, <1>13, <1>14, <1>15, <1>16
  <1>21. c8[5] = Instr("ADDU", "zero", "k1", "at", 0)
    BY <1>4, <1>11, <1>12, <1>13, <1>14, <1>15, <1>16
  <1>22. c8[6] = Instr("MTC0", "zero", "zero", "zero", "Cause")
    BY <1>5, <1>12, <1>13, <1>14, <1>15, <1>16
  <1>23. c8[7] = Instr("MFC0", "zero", "k0", "zero", "Status")
    BY <1>6, <1>13, <1>14, <1>15, <1>16
  <1>24. c8[8] = Instr("ORI", "k0", "k0", "zero", 1)
    BY <1>7, <1>14, <1>15, <1>16
  <1>25. c8[9] = Instr("MTC0", "zero", "k0", "zero", "Status")
    BY <1>8, <1>15, <1>16
  <1>26. c8[10] = Instr("ERET", "zero", "zero", "zero", 0)
    BY <1>9, <1>16
  <1> QED
    BY Zenon, <1>1, <1>16, <1>17, <1>18, <1>19, <1>20, <1>21, <1>22, <1>23, <1>24, <1>25, <1>26

\* The 53 instructions of the handler.
LEMMA HandlerIs ==
  /\ Text(Handler, 53)
  /\ Handler[1] = Instr("ADDU", "zero", "at", "k1", 0)
  /\ Handler[2] = Instr("LUI", "zero", "at", "zero", High(S1 - ShortValue(S1)))
  /\ Handler[3] = Instr("SW", "at", "v0", "zero", Low(S1))
  /\ Handler[4] = Instr("LUI", "zero", "at", "zero", High(S2 - ShortValue(S2)))
  /\ Handler[5] = Instr("SW", "at", "a0", "zero", Low(S2))
  /\ Handler[6] = Instr("MFC0", "zero", "k0", "zero", "Cause")
  /\ Handler[7] = Instr("SRL", "zero", "k0", "a0", 2)
  /\ Handler[8] = Instr("ANDI", "a0", "a0", "zero", 31)
  /\ Handler[9] = Instr("ORI", "zero", "v0", "zero", 4)
  /\ Handler[10] = Instr("LUI", "zero", "at", "zero", High(Messages))
  /\ Handler[11] = Instr("ORI", "at", "a0", "zero", Low(Messages))
  /\ Handler[12] = Instr("SYSCALL", "zero", "zero", "zero", 0)
  /\ Handler[13] = Instr("ORI", "zero", "v0", "zero", 1)
  /\ Handler[14] = Instr("SRL", "zero", "k0", "a0", 2)
  /\ Handler[15] = Instr("ANDI", "a0", "a0", "zero", 31)
  /\ Handler[16] = Instr("SYSCALL", "zero", "zero", "zero", 0)
  /\ Handler[17] = Instr("ORI", "zero", "v0", "zero", 4)
  /\ Handler[18] = Instr("ANDI", "k0", "a0", "zero", 60)
  /\ Handler[19] = Instr("LUI", "zero", "at", "zero", High(Messages - ShortValue(Messages)))
  /\ Handler[20] = Instr("ADDU", "at", "a0", "at", 0)
  /\ Handler[21] = Instr("LW", "at", "a0", "zero", Low(Messages))
  /\ Handler[22] = Instr("SLL", "zero", "zero", "zero", 0)
  /\ Handler[23] = Instr("SYSCALL", "zero", "zero", "zero", 0)
  /\ Handler[24] = Instr("ORI", "zero", "at", "zero", 4 * ExcCode.IBE)
  /\ Handler[25] = Instr("BNE", "k0", "at", "zero", 7 + 1)
  /\ Handler[26] = Instr("SLL", "zero", "zero", "zero", 0)
  /\ Handler[27] = Instr("MFC0", "zero", "a0", "zero", "EPC")
  /\ Handler[28] = Instr("ANDI", "a0", "a0", "zero", 3)
  /\ Handler[29] = Instr("BEQ", "a0", "zero", "zero", 3 + 1)
  /\ Handler[30] = Instr("SLL", "zero", "zero", "zero", 0)
  /\ Handler[31] = Instr("ORI", "zero", "v0", "zero", 10)
  /\ Handler[32] = Instr("SYSCALL", "zero", "zero", "zero", 0)
  /\ Handler[33] = Instr("ORI", "zero", "v0", "zero", 4)
  /\ Handler[34] = Instr("LUI", "zero", "at", "zero", High(Messages))
  /\ Handler[35] = Instr("ORI", "at", "a0", "zero", Low(Messages))
  /\ Handler[36] = Instr("SYSCALL", "zero", "zero", "zero", 0)
  /\ Handler[37] = Instr("SRL", "zero", "k0", "a0", 2)
  /\ Handler[38] = Instr("ANDI", "a0", "a0", "zero", 31)
  /\ Handler[39] = Instr("BNE", "a0", "zero", "zero", 1 + 1)
  /\ Handler[40] = Instr("SLL", "zero", "zero", "zero", 0)
  /\ Handler[41] = Instr("MFC0", "zero", "k0", "zero", "EPC")
  /\ Handler[42] = Instr("ADDIU", "k0", "k0", "zero", 4)
  /\ Handler[43] = Instr("MTC0", "zero", "k0", "zero", "EPC")
  /\ Handler[44] = Instr("LUI", "zero", "at", "zero", High(S1 - ShortValue(S1)))
  /\ Handler[45] = Instr("LW", "at", "v0", "zero", Low(S1))
  /\ Handler[46] = Instr("LUI", "zero", "at", "zero", High(S2 - ShortValue(S2)))
  /\ Handler[47] = Instr("LW", "at", "a0", "zero", Low(S2))
  /\ Handler[48] = Instr("ADDU", "zero", "k1", "at", 0)
  /\ Handler[49] = Instr("MTC0", "zero", "zero", "zero", "Cause")
  /\ Handler[50] = Instr("MFC0", "zero", "k0", "zero", "Status")
  /\ Handler[51] = Instr("ORI", "k0", "k0", "zero", 1)
  /\ Handler[52] = Instr("MTC0", "zero", "k0", "zero", "Status")
  /\ Handler[53] = Instr("ERET", "zero", "zero", "zero", 0)
  <1> DEFINE e1 == Save
             e2 == Report
             e3 == CheckPc
             e4 == OkPc
             e5 == SkipFaulting
             e6 == Restore
             c1 == e1
             c2 == c1 \o e2
             c3 == c2 \o e3
             c4 == c3 \o e4
             c5 == c4 \o e5
             c6 == c5 \o e6
  <1>1. Handler = c6
    BY Zenon DEF Handler
  <1>2. /\ Text(e1, 5) /\ e1[1] = Instr("ADDU", "zero", "at", "k1", 0)
        /\ e1[2] = Instr("LUI", "zero", "at", "zero", High(S1 - ShortValue(S1)))
        /\ e1[3] = Instr("SW", "at", "v0", "zero", Low(S1))
        /\ e1[4] = Instr("LUI", "zero", "at", "zero", High(S2 - ShortValue(S2)))
        /\ e1[5] = Instr("SW", "at", "a0", "zero", Low(S2))
    BY SaveIs
  <1>3. /\ Text(e2, 18) /\ e2[1] = Instr("MFC0", "zero", "k0", "zero", "Cause")
        /\ e2[2] = Instr("SRL", "zero", "k0", "a0", 2)
        /\ e2[3] = Instr("ANDI", "a0", "a0", "zero", 31)
        /\ e2[4] = Instr("ORI", "zero", "v0", "zero", 4)
        /\ e2[5] = Instr("LUI", "zero", "at", "zero", High(Messages))
        /\ e2[6] = Instr("ORI", "at", "a0", "zero", Low(Messages))
        /\ e2[7] = Instr("SYSCALL", "zero", "zero", "zero", 0)
        /\ e2[8] = Instr("ORI", "zero", "v0", "zero", 1)
        /\ e2[9] = Instr("SRL", "zero", "k0", "a0", 2)
        /\ e2[10] = Instr("ANDI", "a0", "a0", "zero", 31)
        /\ e2[11] = Instr("SYSCALL", "zero", "zero", "zero", 0)
        /\ e2[12] = Instr("ORI", "zero", "v0", "zero", 4)
        /\ e2[13] = Instr("ANDI", "k0", "a0", "zero", 60)
        /\ e2[14] = Instr("LUI", "zero", "at", "zero", High(Messages - ShortValue(Messages)))
        /\ e2[15] = Instr("ADDU", "at", "a0", "at", 0)
        /\ e2[16] = Instr("LW", "at", "a0", "zero", Low(Messages))
        /\ e2[17] = Instr("SLL", "zero", "zero", "zero", 0)
        /\ e2[18] = Instr("SYSCALL", "zero", "zero", "zero", 0)
    BY ReportIs
  <1>4. /\ Text(e3, 9) /\ e3[1] = Instr("ORI", "zero", "at", "zero", 4 * ExcCode.IBE)
        /\ e3[2] = Instr("BNE", "k0", "at", "zero", 7 + 1)
        /\ e3[3] = Instr("SLL", "zero", "zero", "zero", 0)
        /\ e3[4] = Instr("MFC0", "zero", "a0", "zero", "EPC")
        /\ e3[5] = Instr("ANDI", "a0", "a0", "zero", 3)
        /\ e3[6] = Instr("BEQ", "a0", "zero", "zero", 3 + 1)
        /\ e3[7] = Instr("SLL", "zero", "zero", "zero", 0)
        /\ e3[8] = Instr("ORI", "zero", "v0", "zero", 10)
        /\ e3[9] = Instr("SYSCALL", "zero", "zero", "zero", 0)
    BY CheckPcIs
  <1>5. /\ Text(e4, 8) /\ e4[1] = Instr("ORI", "zero", "v0", "zero", 4)
        /\ e4[2] = Instr("LUI", "zero", "at", "zero", High(Messages))
        /\ e4[3] = Instr("ORI", "at", "a0", "zero", Low(Messages))
        /\ e4[4] = Instr("SYSCALL", "zero", "zero", "zero", 0)
        /\ e4[5] = Instr("SRL", "zero", "k0", "a0", 2)
        /\ e4[6] = Instr("ANDI", "a0", "a0", "zero", 31)
        /\ e4[7] = Instr("BNE", "a0", "zero", "zero", 1 + 1)
        /\ e4[8] = Instr("SLL", "zero", "zero", "zero", 0)
    BY OkPcIs
  <1>6. /\ Text(e5, 3) /\ e5[1] = Instr("MFC0", "zero", "k0", "zero", "EPC")
        /\ e5[2] = Instr("ADDIU", "k0", "k0", "zero", 4)
        /\ e5[3] = Instr("MTC0", "zero", "k0", "zero", "EPC")
    BY SkipFaultingIs
  <1>7. /\ Text(e6, 10) /\ e6[1] = Instr("LUI", "zero", "at", "zero", High(S1 - ShortValue(S1)))
        /\ e6[2] = Instr("LW", "at", "v0", "zero", Low(S1))
        /\ e6[3] = Instr("LUI", "zero", "at", "zero", High(S2 - ShortValue(S2)))
        /\ e6[4] = Instr("LW", "at", "a0", "zero", Low(S2))
        /\ e6[5] = Instr("ADDU", "zero", "k1", "at", 0)
        /\ e6[6] = Instr("MTC0", "zero", "zero", "zero", "Cause")
        /\ e6[7] = Instr("MFC0", "zero", "k0", "zero", "Status")
        /\ e6[8] = Instr("ORI", "k0", "k0", "zero", 1)
        /\ e6[9] = Instr("MTC0", "zero", "k0", "zero", "Status")
        /\ e6[10] = Instr("ERET", "zero", "zero", "zero", 0)
    BY RestoreIs
  <1> HIDE DEF e1, e2, e3, e4, e5, e6
  <1> HIDE DEF c2, c3, c4, c5, c6
  <1>8. /\ Text(c2, 23) /\ \A j \in 1 .. 5 : c2[j] = c1[j]
        /\ c2[6] = e2[1]
        /\ c2[7] = e2[2]
        /\ c2[8] = e2[3]
        /\ c2[9] = e2[4]
        /\ c2[10] = e2[5]
        /\ c2[11] = e2[6]
        /\ c2[12] = e2[7]
        /\ c2[13] = e2[8]
        /\ c2[14] = e2[9]
        /\ c2[15] = e2[10]
        /\ c2[16] = e2[11]
        /\ c2[17] = e2[12]
        /\ c2[18] = e2[13]
        /\ c2[19] = e2[14]
        /\ c2[20] = e2[15]
        /\ c2[21] = e2[16]
        /\ c2[22] = e2[17]
        /\ c2[23] = e2[18]
    <2>1. c2 = c1 \o e2
      BY Zenon DEF c2
    <2> HIDE DEF c1
    <2> DEFINE p == 5
               q == 18
               u == 23
    <2>2. Text(c1, p)
      BY Zenon, <1>2 DEF c1, p
    <2>3. Text(e2, q) /\ p + q = u
      BY <1>3
    <2> HIDE DEF p, q, u
    <2>4. Joined(c2, c1, e2, p, u)
      BY Zenon, <2>1, <2>2, <2>3, JoinedIs
    <2> QED
      BY <2>4 DEF Joined, p, u
  <1>9. /\ Text(c3, 32) /\ \A j \in 1 .. 23 : c3[j] = c2[j]
        /\ c3[24] = e3[1]
        /\ c3[25] = e3[2]
        /\ c3[26] = e3[3]
        /\ c3[27] = e3[4]
        /\ c3[28] = e3[5]
        /\ c3[29] = e3[6]
        /\ c3[30] = e3[7]
        /\ c3[31] = e3[8]
        /\ c3[32] = e3[9]
    <2>1. c3 = c2 \o e3
      BY Zenon DEF c3
    <2> HIDE DEF c1
    <2> DEFINE p == 23
               q == 9
               u == 32
    <2>2. Text(c2, p)
      BY Zenon, <1>8 DEF p
    <2>3. Text(e3, q) /\ p + q = u
      BY <1>4
    <2> HIDE DEF p, q, u
    <2>4. Joined(c3, c2, e3, p, u)
      BY Zenon, <2>1, <2>2, <2>3, JoinedIs
    <2> QED
      BY <2>4 DEF Joined, p, u
  <1>10. /\ Text(c4, 40) /\ \A j \in 1 .. 32 : c4[j] = c3[j]
        /\ c4[33] = e4[1]
        /\ c4[34] = e4[2]
        /\ c4[35] = e4[3]
        /\ c4[36] = e4[4]
        /\ c4[37] = e4[5]
        /\ c4[38] = e4[6]
        /\ c4[39] = e4[7]
        /\ c4[40] = e4[8]
    <2>1. c4 = c3 \o e4
      BY Zenon DEF c4
    <2> HIDE DEF c1
    <2> DEFINE p == 32
               q == 8
               u == 40
    <2>2. Text(c3, p)
      BY Zenon, <1>9 DEF p
    <2>3. Text(e4, q) /\ p + q = u
      BY <1>5
    <2> HIDE DEF p, q, u
    <2>4. Joined(c4, c3, e4, p, u)
      BY Zenon, <2>1, <2>2, <2>3, JoinedIs
    <2> QED
      BY <2>4 DEF Joined, p, u
  <1>11. /\ Text(c5, 43) /\ \A j \in 1 .. 40 : c5[j] = c4[j]
        /\ c5[41] = e5[1]
        /\ c5[42] = e5[2]
        /\ c5[43] = e5[3]
    <2>1. c5 = c4 \o e5
      BY Zenon DEF c5
    <2> HIDE DEF c1
    <2> DEFINE p == 40
               q == 3
               u == 43
    <2>2. Text(c4, p)
      BY Zenon, <1>10 DEF p
    <2>3. Text(e5, q) /\ p + q = u
      BY <1>6
    <2> HIDE DEF p, q, u
    <2>4. Joined(c5, c4, e5, p, u)
      BY Zenon, <2>1, <2>2, <2>3, JoinedIs
    <2> QED
      BY <2>4 DEF Joined, p, u
  <1>12. /\ Text(c6, 53) /\ \A j \in 1 .. 43 : c6[j] = c5[j]
        /\ c6[44] = e6[1]
        /\ c6[45] = e6[2]
        /\ c6[46] = e6[3]
        /\ c6[47] = e6[4]
        /\ c6[48] = e6[5]
        /\ c6[49] = e6[6]
        /\ c6[50] = e6[7]
        /\ c6[51] = e6[8]
        /\ c6[52] = e6[9]
        /\ c6[53] = e6[10]
    <2>1. c6 = c5 \o e6
      BY Zenon DEF c6
    <2> HIDE DEF c1
    <2> DEFINE p == 43
               q == 10
               u == 53
    <2>2. Text(c5, p)
      BY Zenon, <1>11 DEF p
    <2>3. Text(e6, q) /\ p + q = u
      BY <1>7
    <2> HIDE DEF p, q, u
    <2>4. Joined(c6, c5, e6, p, u)
      BY Zenon, <2>1, <2>2, <2>3, JoinedIs
    <2> QED
      BY <2>4 DEF Joined, p, u
  <1>13. c6[1] = Instr("ADDU", "zero", "at", "k1", 0)
    BY <1>2, <1>8, <1>9, <1>10, <1>11, <1>12
  <1>14. c6[2] = Instr("LUI", "zero", "at", "zero", High(S1 - ShortValue(S1)))
    BY <1>2, <1>8, <1>9, <1>10, <1>11, <1>12
  <1>15. c6[3] = Instr("SW", "at", "v0", "zero", Low(S1))
    BY <1>2, <1>8, <1>9, <1>10, <1>11, <1>12
  <1>16. c6[4] = Instr("LUI", "zero", "at", "zero", High(S2 - ShortValue(S2)))
    BY <1>2, <1>8, <1>9, <1>10, <1>11, <1>12
  <1>17. c6[5] = Instr("SW", "at", "a0", "zero", Low(S2))
    BY <1>2, <1>8, <1>9, <1>10, <1>11, <1>12
  <1>18. c6[6] = Instr("MFC0", "zero", "k0", "zero", "Cause")
    BY <1>3, <1>8, <1>9, <1>10, <1>11, <1>12
  <1>19. c6[7] = Instr("SRL", "zero", "k0", "a0", 2)
    BY <1>3, <1>8, <1>9, <1>10, <1>11, <1>12
  <1>20. c6[8] = Instr("ANDI", "a0", "a0", "zero", 31)
    BY <1>3, <1>8, <1>9, <1>10, <1>11, <1>12
  <1>21. c6[9] = Instr("ORI", "zero", "v0", "zero", 4)
    BY <1>3, <1>8, <1>9, <1>10, <1>11, <1>12
  <1>22. c6[10] = Instr("LUI", "zero", "at", "zero", High(Messages))
    BY <1>3, <1>8, <1>9, <1>10, <1>11, <1>12
  <1>23. c6[11] = Instr("ORI", "at", "a0", "zero", Low(Messages))
    BY <1>3, <1>8, <1>9, <1>10, <1>11, <1>12
  <1>24. c6[12] = Instr("SYSCALL", "zero", "zero", "zero", 0)
    BY <1>3, <1>8, <1>9, <1>10, <1>11, <1>12
  <1>25. c6[13] = Instr("ORI", "zero", "v0", "zero", 1)
    BY <1>3, <1>8, <1>9, <1>10, <1>11, <1>12
  <1>26. c6[14] = Instr("SRL", "zero", "k0", "a0", 2)
    BY <1>3, <1>8, <1>9, <1>10, <1>11, <1>12
  <1>27. c6[15] = Instr("ANDI", "a0", "a0", "zero", 31)
    BY <1>3, <1>8, <1>9, <1>10, <1>11, <1>12
  <1>28. c6[16] = Instr("SYSCALL", "zero", "zero", "zero", 0)
    BY <1>3, <1>8, <1>9, <1>10, <1>11, <1>12
  <1>29. c6[17] = Instr("ORI", "zero", "v0", "zero", 4)
    BY <1>3, <1>8, <1>9, <1>10, <1>11, <1>12
  <1>30. c6[18] = Instr("ANDI", "k0", "a0", "zero", 60)
    BY <1>3, <1>8, <1>9, <1>10, <1>11, <1>12
  <1>31. c6[19] = Instr("LUI", "zero", "at", "zero", High(Messages - ShortValue(Messages)))
    BY <1>3, <1>8, <1>9, <1>10, <1>11, <1>12
  <1>32. c6[20] = Instr("ADDU", "at", "a0", "at", 0)
    BY <1>3, <1>8, <1>9, <1>10, <1>11, <1>12
  <1>33. c6[21] = Instr("LW", "at", "a0", "zero", Low(Messages))
    BY <1>3, <1>8, <1>9, <1>10, <1>11, <1>12
  <1>34. c6[22] = Instr("SLL", "zero", "zero", "zero", 0)
    BY <1>3, <1>8, <1>9, <1>10, <1>11, <1>12
  <1>35. c6[23] = Instr("SYSCALL", "zero", "zero", "zero", 0)
    BY <1>3, <1>8, <1>9, <1>10, <1>11, <1>12
  <1>36. c6[24] = Instr("ORI", "zero", "at", "zero", 4 * ExcCode.IBE)
    BY <1>4, <1>9, <1>10, <1>11, <1>12
  <1>37. c6[25] = Instr("BNE", "k0", "at", "zero", 7 + 1)
    BY <1>4, <1>9, <1>10, <1>11, <1>12
  <1>38. c6[26] = Instr("SLL", "zero", "zero", "zero", 0)
    BY <1>4, <1>9, <1>10, <1>11, <1>12
  <1>39. c6[27] = Instr("MFC0", "zero", "a0", "zero", "EPC")
    BY <1>4, <1>9, <1>10, <1>11, <1>12
  <1>40. c6[28] = Instr("ANDI", "a0", "a0", "zero", 3)
    BY <1>4, <1>9, <1>10, <1>11, <1>12
  <1>41. c6[29] = Instr("BEQ", "a0", "zero", "zero", 3 + 1)
    BY <1>4, <1>9, <1>10, <1>11, <1>12
  <1>42. c6[30] = Instr("SLL", "zero", "zero", "zero", 0)
    BY <1>4, <1>9, <1>10, <1>11, <1>12
  <1>43. c6[31] = Instr("ORI", "zero", "v0", "zero", 10)
    BY <1>4, <1>9, <1>10, <1>11, <1>12
  <1>44. c6[32] = Instr("SYSCALL", "zero", "zero", "zero", 0)
    BY <1>4, <1>9, <1>10, <1>11, <1>12
  <1>45. c6[33] = Instr("ORI", "zero", "v0", "zero", 4)
    BY <1>5, <1>10, <1>11, <1>12
  <1>46. c6[34] = Instr("LUI", "zero", "at", "zero", High(Messages))
    BY <1>5, <1>10, <1>11, <1>12
  <1>47. c6[35] = Instr("ORI", "at", "a0", "zero", Low(Messages))
    BY <1>5, <1>10, <1>11, <1>12
  <1>48. c6[36] = Instr("SYSCALL", "zero", "zero", "zero", 0)
    BY <1>5, <1>10, <1>11, <1>12
  <1>49. c6[37] = Instr("SRL", "zero", "k0", "a0", 2)
    BY <1>5, <1>10, <1>11, <1>12
  <1>50. c6[38] = Instr("ANDI", "a0", "a0", "zero", 31)
    BY <1>5, <1>10, <1>11, <1>12
  <1>51. c6[39] = Instr("BNE", "a0", "zero", "zero", 1 + 1)
    BY <1>5, <1>10, <1>11, <1>12
  <1>52. c6[40] = Instr("SLL", "zero", "zero", "zero", 0)
    BY <1>5, <1>10, <1>11, <1>12
  <1>53. c6[41] = Instr("MFC0", "zero", "k0", "zero", "EPC")
    BY <1>6, <1>11, <1>12
  <1>54. c6[42] = Instr("ADDIU", "k0", "k0", "zero", 4)
    BY <1>6, <1>11, <1>12
  <1>55. c6[43] = Instr("MTC0", "zero", "k0", "zero", "EPC")
    BY <1>6, <1>11, <1>12
  <1>56. c6[44] = Instr("LUI", "zero", "at", "zero", High(S1 - ShortValue(S1)))
    BY <1>7, <1>12
  <1>57. c6[45] = Instr("LW", "at", "v0", "zero", Low(S1))
    BY <1>7, <1>12
  <1>58. c6[46] = Instr("LUI", "zero", "at", "zero", High(S2 - ShortValue(S2)))
    BY <1>7, <1>12
  <1>59. c6[47] = Instr("LW", "at", "a0", "zero", Low(S2))
    BY <1>7, <1>12
  <1>60. c6[48] = Instr("ADDU", "zero", "k1", "at", 0)
    BY <1>7, <1>12
  <1>61. c6[49] = Instr("MTC0", "zero", "zero", "zero", "Cause")
    BY <1>7, <1>12
  <1>62. c6[50] = Instr("MFC0", "zero", "k0", "zero", "Status")
    BY <1>7, <1>12
  <1>63. c6[51] = Instr("ORI", "k0", "k0", "zero", 1)
    BY <1>7, <1>12
  <1>64. c6[52] = Instr("MTC0", "zero", "k0", "zero", "Status")
    BY <1>7, <1>12
  <1>65. c6[53] = Instr("ERET", "zero", "zero", "zero", 0)
    BY <1>7, <1>12
  <1> QED
    BY Zenon, <1>1, <1>12, <1>13, <1>14, <1>15, <1>16, <1>17, <1>18, <1>19, <1>20, <1>21, <1>22,
       <1>23, <1>24, <1>25, <1>26, <1>27, <1>28, <1>29, <1>30, <1>31, <1>32, <1>33, <1>34, <1>35,
       <1>36, <1>37, <1>38, <1>39, <1>40, <1>41, <1>42, <1>43, <1>44, <1>45, <1>46, <1>47, <1>48,
       <1>49, <1>50, <1>51, <1>52, <1>53, <1>54, <1>55, <1>56, <1>57, <1>58, <1>59, <1>60, <1>61,
       <1>62, <1>63, <1>64, <1>65

-----------------------------------------------------------------------------
(* Into the handler *)

\* The handler's length, and where it begins to restore.
LEMMA HandlerLength ==
  /\ Len(Handler) = 53 /\ AtRestore = EXCEPTION_ADDR + 172
  <1>1. Len(Handler) = 53
    BY HandlerIs DEF Text
  <1> DEFINE b == Save \o Report
             c == b \o CheckPc
             d == c \o OkPc
             e == d \o SkipFaulting
  <1>2. /\ Text(Save, 5) /\ Text(Report, 18) /\ Text(CheckPc, 9) /\ Text(OkPc, 8)
        /\ Text(SkipFaulting, 3)
    BY SaveIs, ReportIs, CheckPcIs, OkPcIs, SkipFaultingIs
  <1> DEFINE n1 == 5
             n2 == 18
             n3 == 23
             n4 == 9
             n5 == 32
             n6 == 8
             n7 == 40
             n8 == 3
             n9 == 43
  <1>3. /\ Text(Save, n1) /\ Text(Report, n2) /\ Text(CheckPc, n4) /\ Text(OkPc, n6)
        /\ Text(SkipFaulting, n8)
    BY <1>2
  <1>4. n1 + n2 = n3 /\ n3 + n4 = n5 /\ n5 + n6 = n7 /\ n7 + n8 = n9
    OBVIOUS
  <1> HIDE DEF n1, n2, n3, n4, n5, n6, n7, n8, n9
  <1>5. Text(b, n3)
    BY Zenon, <1>3, <1>4, JoinedIs DEF Joined
  <1> HIDE DEF b
  <1>6. Text(c, n5)
    BY Zenon, <1>3, <1>4, <1>5, JoinedIs DEF Joined
  <1> HIDE DEF c
  <1>7. Text(d, n7)
    BY Zenon, <1>3, <1>4, <1>6, JoinedIs DEF Joined
  <1> HIDE DEF d
  <1>8. Text(e, n9)
    BY Zenon, <1>3, <1>4, <1>7, JoinedIs DEF Joined
  <1>9. AtRestore = EXCEPTION_ADDR + 4 * Len(e)
    BY Zenon DEF AtRestore, e, d, c, b
  <1> HIDE DEF e
  <1>10. Len(e) = 43
    BY <1>8 DEF Text, n9
  <1> QED
    BY <1>1, <1>9, <1>10, Layout

\* raise_exception, once or twice: only cp0 changes, the machine is in the handler, and EPC is
\* that of the first exception.
Raised(a, r) ==
  /\ MachFields(r) /\ r.R = a.R /\ r.hilo = a.hilo /\ r.PC = a.PC /\ r.mem = a.mem
  /\ r.cp0 \in Cp0s
  /\ r.cp0.EPC = (IF InHandler(a.cp0) THEN a.cp0.EPC ELSE RoundDown(a.PC))
  /\ InHandler(r.cp0)

LEMMA RaiseRaised ==
  ASSUME NEW a, MachOk(a), NEW f \in Fault
  PROVE  Raised(a, Raise(a, f))
  BY RaiseParts DEF Raised

LEMMA RaisedTwice ==
  ASSUME NEW a, NEW b, NEW c, Raised(a, b), Raised(b, c)
  PROVE  Raised(a, c)
  BY DEF Raised

LEMMA RaisedFits ==
  ASSUME NEW a, MachOk(a), NEW b, Raised(a, b)
  PROVE  MachOk(b)
  BY DEF Raised, MachOk

LEMMA RaiseAllRaised ==
  ASSUME NEW a, MachOk(a), NEW q \in FaultLists, q # <<>>
  PROVE  Raised(a, RaiseAll(a, q))
  <1>1. (\E f \in Fault : q = <<f>>) \/ (\E f, g \in Fault : q = <<f, g>>)
    BY DEF FaultLists
  <1>2. ASSUME NEW f \in Fault, q = <<f>> PROVE Raised(a, RaiseAll(a, q))
    BY <1>2, RaiseOnce, RaiseRaised
  <1>3. ASSUME NEW f \in Fault, NEW g \in Fault, q = <<f, g>> PROVE Raised(a, RaiseAll(a, q))
    <2> DEFINE b == Raise(a, f)
               c == Raise(b, g)
    <2>1. Raised(a, b)
      BY RaiseRaised
    <2>2. MachOk(b)
      BY RaiseFits
    <2>3. RaiseAll(a, q) = c
      BY <1>3, RaiseTwice
    <2> HIDE DEF b
    <2>4. Raised(b, c)
      BY <2>2, RaiseRaised
    <2> QED
      BY Zenon, <2>1, <2>3, <2>4, RaisedTwice
  <1> QED
    BY <1>1, <1>2, <1>3

-----------------------------------------------------------------------------
(* The instructions that the handler uses *)

LEMMA InstrIs ==
  ASSUME NEW op, NEW rs, NEW rt, NEW rd, NEW x
  PROVE  LET i == Instr(op, rs, rt, rd, x)
         IN  i.op = op /\ i.rs = rs /\ i.rt = rt /\ i.rd = rd /\ i.x = x
  BY DEF Instr

LEMMA ValueSet ==
  ASSUME NEW a, NEW i, NEW input, i.op \in ValueOps, i.op \notin {"ADD", "ADDI", "SUB"}
  PROVE  Execute(a, i, input) =
           Set(a, IF i.op \in ImmediateOps THEN i.rt ELSE i.rd,
               Value(i.op, a.R[i.rs], a.R[i.rt], i.x))
  <1>1. Execute(a, i, input) = Calculate(a, i)
    BY ExecuteIs
  <1>2. i.op \in ImmediateOps \cup {"ADDI"} <=> i.op \in ImmediateOps
    OBVIOUS
  <1>3. \A s, t, x : ~Overflows(i.op, s, t, x)
    BY DEF Overflows
  <1> QED
    BY <1>1, <1>2, <1>3 DEF Calculate

\* What the handler's instructions on registers do.
LEMMA ValueAre ==
  ASSUME NEW a, NEW i, NEW input
  PROVE  /\ i.op = "ADDU" => Execute(a, i, input) = Set(a, i.rd, Word(a.R[i.rs] + a.R[i.rt]))
         /\ i.op = "ADDIU" => Execute(a, i, input) = Set(a, i.rt, Word(a.R[i.rs] + Imm(i.x)))
         /\ i.op = "ANDI" => Execute(a, i, input) = Set(a, i.rt, BitAnd(a.R[i.rs], i.x))
         /\ i.op = "ORI" => Execute(a, i, input) = Set(a, i.rt, BitOr(a.R[i.rs], i.x))
         /\ i.op = "LUI" => Execute(a, i, input) = Set(a, i.rt, i.x * H)
         /\ i.op = "SLL" => Execute(a, i, input) = Set(a, i.rd, ShiftLeft(a.R[i.rt], i.x))
         /\ i.op = "SRL" => Execute(a, i, input) = Set(a, i.rd, ShiftRight(a.R[i.rt], i.x))
  <1>1. ASSUME i.op = "ADDU" PROVE Execute(a, i, input) = Set(a, i.rd, Word(a.R[i.rs] + a.R[i.rt]))
    <2>1. i.op \in ValueOps /\ i.op \notin {"ADD", "ADDI", "SUB"}
      BY <1>1 DEF ValueOps, RegisterOps, ShiftOps, ImmediateOps, TrappingOps
    <2>2. (IF i.op \in ImmediateOps THEN i.rt ELSE i.rd) = i.rd
      BY <1>1 DEF ImmediateOps
    <2>3. \A s, t, x : Value(i.op, s, t, x) = Value("ADDU", s, t, x)
      BY <1>1
    <2>4. \A s, t, x : Value("ADDU", s, t, x) = Word(s + t)
      BY DEF Value, H
    <2> QED
      BY <2>1, <2>2, <2>3, <2>4, ValueSet
  <1>2. ASSUME i.op = "ADDIU" PROVE Execute(a, i, input) = Set(a, i.rt, Word(a.R[i.rs] + Imm(i.x)))
    <2>1. i.op \in ValueOps /\ i.op \notin {"ADD", "ADDI", "SUB"}
      BY <1>2 DEF ValueOps, RegisterOps, ShiftOps, ImmediateOps, TrappingOps
    <2>2. (IF i.op \in ImmediateOps THEN i.rt ELSE i.rd) = i.rt
      BY <1>2 DEF ImmediateOps
    <2>3. \A s, t, x : Value(i.op, s, t, x) = Value("ADDIU", s, t, x)
      BY <1>2
    <2>4. \A s, t, x : Value("ADDIU", s, t, x) = Word(s + Imm(x))
      BY DEF Value, H
    <2> QED
      BY <2>1, <2>2, <2>3, <2>4, ValueSet
  <1>3. ASSUME i.op = "ANDI" PROVE Execute(a, i, input) = Set(a, i.rt, BitAnd(a.R[i.rs], i.x))
    <2>1. i.op \in ValueOps /\ i.op \notin {"ADD", "ADDI", "SUB"}
      BY <1>3 DEF ValueOps, RegisterOps, ShiftOps, ImmediateOps, TrappingOps
    <2>2. (IF i.op \in ImmediateOps THEN i.rt ELSE i.rd) = i.rt
      BY <1>3 DEF ImmediateOps
    <2>3. \A s, t, x : Value(i.op, s, t, x) = Value("ANDI", s, t, x)
      BY <1>3
    <2>4. \A s, t, x : Value("ANDI", s, t, x) = BitAnd(s, x)
      BY DEF Value, H
    <2> QED
      BY <2>1, <2>2, <2>3, <2>4, ValueSet
  <1>4. ASSUME i.op = "ORI" PROVE Execute(a, i, input) = Set(a, i.rt, BitOr(a.R[i.rs], i.x))
    <2>1. i.op \in ValueOps /\ i.op \notin {"ADD", "ADDI", "SUB"}
      BY <1>4 DEF ValueOps, RegisterOps, ShiftOps, ImmediateOps, TrappingOps
    <2>2. (IF i.op \in ImmediateOps THEN i.rt ELSE i.rd) = i.rt
      BY <1>4 DEF ImmediateOps
    <2>3. \A s, t, x : Value(i.op, s, t, x) = Value("ORI", s, t, x)
      BY <1>4
    <2>4. \A s, t, x : Value("ORI", s, t, x) = BitOr(s, x)
      BY DEF Value, H
    <2> QED
      BY <2>1, <2>2, <2>3, <2>4, ValueSet
  <1>5. ASSUME i.op = "LUI" PROVE Execute(a, i, input) = Set(a, i.rt, i.x * H)
    <2>1. i.op \in ValueOps /\ i.op \notin {"ADD", "ADDI", "SUB"}
      BY <1>5 DEF ValueOps, RegisterOps, ShiftOps, ImmediateOps, TrappingOps
    <2>2. (IF i.op \in ImmediateOps THEN i.rt ELSE i.rd) = i.rt
      BY <1>5 DEF ImmediateOps
    <2>3. \A s, t, x : Value(i.op, s, t, x) = Value("LUI", s, t, x)
      BY <1>5
    <2>4. \A s, t, x : Value("LUI", s, t, x) = x * H
      BY DEF Value, H
    <2> QED
      BY <2>1, <2>2, <2>3, <2>4, ValueSet
  <1>6. ASSUME i.op = "SLL" PROVE Execute(a, i, input) = Set(a, i.rd, ShiftLeft(a.R[i.rt], i.x))
    <2>1. i.op \in ValueOps /\ i.op \notin {"ADD", "ADDI", "SUB"}
      BY <1>6 DEF ValueOps, RegisterOps, ShiftOps, ImmediateOps, TrappingOps
    <2>2. (IF i.op \in ImmediateOps THEN i.rt ELSE i.rd) = i.rd
      BY <1>6 DEF ImmediateOps
    <2>3. \A s, t, x : Value(i.op, s, t, x) = Value("SLL", s, t, x)
      BY <1>6
    <2>4. \A s, t, x : Value("SLL", s, t, x) = ShiftLeft(t, x)
      BY DEF Value, H
    <2> QED
      BY <2>1, <2>2, <2>3, <2>4, ValueSet
  <1>7. ASSUME i.op = "SRL" PROVE Execute(a, i, input) = Set(a, i.rd, ShiftRight(a.R[i.rt], i.x))
    <2>1. i.op \in ValueOps /\ i.op \notin {"ADD", "ADDI", "SUB"}
      BY <1>7 DEF ValueOps, RegisterOps, ShiftOps, ImmediateOps, TrappingOps
    <2>2. (IF i.op \in ImmediateOps THEN i.rt ELSE i.rd) = i.rd
      BY <1>7 DEF ImmediateOps
    <2>3. \A s, t, x : Value(i.op, s, t, x) = Value("SRL", s, t, x)
      BY <1>7
    <2>4. \A s, t, x : Value("SRL", s, t, x) = ShiftRight(t, x)
      BY DEF Value, H
    <2> QED
      BY <2>1, <2>2, <2>3, <2>4, ValueSet
  <1> QED
    BY <1>1, <1>2, <1>3, <1>4, <1>5, <1>6, <1>7

LEMMA ReadCp0Is ==
  ASSUME NEW a, NEW i, NEW input, i.op = "MFC0"
  PROVE  Execute(a, i, input) = Set(a, i.rt, a.cp0[i.x])
  BY ExecuteIs DEF ReadCp0

-----------------------------------------------------------------------------
(* The program's view *)

\* The program's view of a machine: what UserPC and UserRegister are of m.
KeptIn(a, x) == Word(Fetch(a.mem.k_data, x - K_DATA_BOT, BYTES_PER_WORD))
ViewPC(a) ==
  IF ~InHandler(a.cp0) THEN a.PC
  ELSE IF a.PC >= AtRestore THEN a.cp0.EPC ELSE Word(a.cp0.EPC + BYTES_PER_WORD)
PlaceOf(a) == (a.PC - EXCEPTION_ADDR) \div BYTES_PER_WORD
ViewReg(a, r) ==
  IF ~InHandler(a.cp0) THEN a.R[r]
  ELSE CASE r = "at" /\ PlaceOf(a) >= 1 /\ a.PC < AtRestore + 20 -> a.R.k1
         [] r = "v0" /\ PlaceOf(a) >= 3 /\ a.PC < AtRestore + 8 -> KeptIn(a, S1)
         [] r = "a0" /\ PlaceOf(a) >= 5 /\ a.PC < AtRestore + 16 -> KeptIn(a, S2)
         [] OTHER -> a.R[r]
\* The program sees the same of a and of b.
Seen(a, b) ==
  /\ ViewPC(a) = ViewPC(b) /\ a.hilo = b.hilo /\ MemLike(a.mem, b.mem)
  /\ \A r \in UserRegs : ViewReg(a, r) = ViewReg(b, r)

LEMMA ViewsAre ==
  /\ UserPC = ViewPC(m)
  /\ \A r : UserRegister(r) = ViewReg(m, r)
  BY DEF UserPC, ViewPC, UserRegister, ViewReg, Place, PlaceOf, Kept, KeptIn

\* The machine a is at the p-th instruction of the handler, from 0.
At(a, p) == p \in 0 .. 52 /\ a.PC = EXCEPTION_ADDR + 4 * p

LEMMA Places ==
  ASSUME NEW a, NEW p, At(a, p)
  PROVE  /\ PlaceOf(a) = p /\ p \in Nat /\ a.PC \in Nat
         /\ a.PC >= AtRestore <=> p >= 43
         /\ a.PC < AtRestore + 20 <=> p <= 47
         /\ a.PC < AtRestore + 8 <=> p <= 44
         /\ a.PC < AtRestore + 16 <=> p <= 46
  <1>1. EXCEPTION_ADDR \in Nat /\ AtRestore = EXCEPTION_ADDR + 172
    BY Layout, HandlerLength
  <1>2. p \in 0 .. 52 /\ a.PC = EXCEPTION_ADDR + 4 * p
    BY DEF At
  <1>3. a.PC - EXCEPTION_ADDR = 4 * p
    BY <1>1, <1>2
  <1>4. (4 * p) \div 4 = p
    BY <1>2
  <1> QED
    BY <1>1, <1>2, <1>3, <1>4 DEF PlaceOf, BYTES_PER_WORD

LEMMA RegistersAre ==
  /\ {"at", "v0", "a0"} \subseteq UserRegs /\ UserRegs \subseteq AllRegs
  /\ {"k0", "k1", "zero"} \subseteq AllRegs
  /\ \A r \in UserRegs : r \notin {"k0", "k1", "zero"}
  BY ProgramsAssumption DEF AllRegs

\* Where the handler keeps what.
LEMMA ViewAt ==
  ASSUME NEW a, InHandler(a.cp0), NEW p, At(a, p)
  PROVE  /\ ViewPC(a) = IF p >= 43 THEN a.cp0.EPC ELSE Word(a.cp0.EPC + 4)
         /\ ViewReg(a, "at") = IF p \in 1 .. 47 THEN a.R.k1 ELSE a.R.at
         /\ ViewReg(a, "v0") = IF p \in 3 .. 44 THEN KeptIn(a, S1) ELSE a.R.v0
         /\ ViewReg(a, "a0") = IF p \in 5 .. 46 THEN KeptIn(a, S2) ELSE a.R.a0
         /\ \A r : r \notin {"at", "v0", "a0"} => ViewReg(a, r) = a.R[r]
  BY Places DEF ViewPC, ViewReg, BYTES_PER_WORD

\* A machine on its way through the handler that looks the same to the program.
LEMMA SeenAt ==
  ASSUME NEW a, NEW b, NEW p, NEW q, InHandler(a.cp0), InHandler(b.cp0), At(a, p), At(b, q),
         a.hilo = b.hilo, MemLike(a.mem, b.mem),
         (IF p >= 43 THEN a.cp0.EPC ELSE Word(a.cp0.EPC + 4))
           = (IF q >= 43 THEN b.cp0.EPC ELSE Word(b.cp0.EPC + 4)),
         (IF p \in 1 .. 47 THEN a.R.k1 ELSE a.R.at) = (IF q \in 1 .. 47 THEN b.R.k1 ELSE b.R.at),
         (IF p \in 3 .. 44 THEN KeptIn(a, S1) ELSE a.R.v0)
           = (IF q \in 3 .. 44 THEN KeptIn(b, S1) ELSE b.R.v0),
         (IF p \in 5 .. 46 THEN KeptIn(a, S2) ELSE a.R.a0)
           = (IF q \in 5 .. 46 THEN KeptIn(b, S2) ELSE b.R.a0),
         \A r \in UserRegs \ {"at", "v0", "a0"} : a.R[r] = b.R[r]
  PROVE  Seen(a, b)
  <1>1. ViewPC(a) = ViewPC(b)
    BY ViewAt
  <1>2. ViewReg(a, "at") = ViewReg(b, "at") /\ ViewReg(a, "v0") = ViewReg(b, "v0")
        /\ ViewReg(a, "a0") = ViewReg(b, "a0")
    BY ViewAt
  <1>3. ASSUME NEW r \in UserRegs, r \notin {"at", "v0", "a0"} PROVE ViewReg(a, r) = ViewReg(b, r)
    BY <1>3, ViewAt
  <1> QED
    BY <1>1, <1>2, <1>3 DEF Seen

\* The end of a step without exceptions.
Onward(e) == [e.m EXCEPT !.PC = e.next]

LEMMA OnwardIs ==
  ASSUME NEW a, NEW e, Good(a, e)
  PROVE  LET b == Onward(e)
         IN  /\ MachFields(b) /\ b.R = e.m.R /\ b.hilo = e.m.hilo /\ b.cp0 = e.m.cp0 /\ b.mem = e.m.mem
             /\ b.PC = e.next
  BY DEF Good, MachOk, MachFields, Onward

LEMMA OnwardFits ==
  ASSUME NEW a, NEW e, Good(a, e)
  PROVE  MachOk(Onward(e))
  <1> DEFINE b == Onward(e)
  <1>1. /\ MachFields(b) /\ b.R = e.m.R /\ b.hilo = e.m.hilo /\ b.cp0 = e.m.cp0 /\ b.mem = e.m.mem
        /\ b.PC = e.next
    BY OnwardIs
  <1> HIDE DEF b
  <1>2. MachOk(e.m) /\ e.next \in Words
    BY DEF Good
  <1>3. MachOk(b)
    BY <1>1, <1>2 DEF MachOk
  <1> QED
    BY <1>3 DEF b

LEMMA NextPlace ==
  ASSUME NEW a, NEW p, At(a, p)
  PROVE  Word(a.PC + 4) = EXCEPTION_ADDR + 4 * (p + 1)
  <1>1. EXCEPTION_ADDR \in Nat /\ EXCEPTION_ADDR + 4 * 53 <= K_DATA_BOT /\ K_DATA_BOT \in Nat
        /\ K_DATA_BOT < W /\ W \in Nat
    <2>1. EXCEPTION_ADDR + 4 * Len(Handler) <= K_DATA_BOT /\ Len(Handler) = 53
      BY CpuAssumption, HandlerLength
    <2>2. W \in Nat /\ H \in Nat /\ H >= 128
      BY Tops
    <2> QED
      BY <2>1, <2>2, Layout
  <1>2. p \in 0 .. 52 /\ a.PC = EXCEPTION_ADDR + 4 * p
    BY DEF At
  <1>3. a.PC + 4 \in 0 .. W - 1 /\ a.PC + 4 = EXCEPTION_ADDR + 4 * (p + 1)
    BY <1>1, <1>2
  <1> QED
    BY <1>3, WordSame, WordsAre

-----------------------------------------------------------------------------
(* The handler's registers *)

\* An instruction of the handler that sets a register of the kernel's, or one whose value is
\* kept, does not show.

\* What the handler may write where.
MayWrite(p, r) ==
  \/ r \in {"k0", "zero"}
  \/ r = "at" /\ p \in 1 .. 46
  \/ r = "v0" /\ p \in 3 .. 43
  \/ r = "a0" /\ p \in 5 .. 45

LEMMA SetOnward ==
  ASSUME NEW a, MachOk(a), NEW p, At(a, p), NEW r \in AllRegs, NEW v \in Words,
         NEW e, e = Set(a, r, v), NEW b, b = Onward(e)
  PROVE  /\ e.faults = <<>> /\ ~e.leave
         /\ b.PC = EXCEPTION_ADDR + 4 * (p + 1)
         /\ b.cp0 = a.cp0 /\ b.hilo = a.hilo /\ b.mem = a.mem
         /\ b.R[r] = v /\ \A x \in AllRegs : x # r => b.R[x] = a.R[x]
  <1> DEFINE d == [a EXCEPT !.R[r] = v]
             n == Word(a.PC + BYTES_PER_WORD)
  <1>1. e = Quiet(d, n)
    BY SetIs
  <1>2. /\ d.hilo = a.hilo /\ d.cp0 = a.cp0 /\ d.mem = a.mem
        /\ d.R[r] = v /\ \A x \in AllRegs : x # r => d.R[x] = a.R[x]
    <2>1. d.hilo = a.hilo
      BY WithReg
    <2>2. d.cp0 = a.cp0
      BY WithReg
    <2>3. d.mem = a.mem
      BY WithReg
    <2>4. d.R[r] = v
      <3>1. d.R = [a.R EXCEPT ![r] = v] /\ a.R \in [AllRegs -> Words]
        BY WithReg, MachParts
      <3> HIDE DEF d
      <3> QED
        BY <3>1
    <2>5. \A x \in AllRegs : x # r => d.R[x] = a.R[x]
      BY WithReg
    <2> QED
      BY <2>1, <2>2, <2>3, <2>4, <2>5
  <1>3. n = EXCEPTION_ADDR + 4 * (p + 1)
    BY NextPlace DEF BYTES_PER_WORD
  <1> HIDE DEF d, n
  <1>4. e.m = d /\ e.next = n /\ e.faults = <<>> /\ ~e.leave
    BY <1>1, QuietIs
  <1>5. Good(a, e)
    BY SetGood
  <1>6. b.R = d.R /\ b.hilo = d.hilo /\ b.cp0 = d.cp0 /\ b.mem = d.mem /\ b.PC = n
    BY <1>4, <1>5, OnwardIs
  <1> QED
    BY <1>2, <1>3, <1>4, <1>6

LEMMA SetOnwardFits ==
  ASSUME NEW a, MachOk(a), NEW r \in AllRegs, NEW v \in Words,
         NEW e, e = Set(a, r, v), NEW b, b = Onward(e)
  PROVE  MachOk(b)
  BY SetGood, OnwardFits

\* Only r has changed.
Elsewhere(a, b, r) == \A x \in AllRegs : x # r => b.R[x] = a.R[x]

\* Places where the view of the program is not moved to or from its registers.
Ordinary == 0 .. 51 \ {0, 2, 4, 42, 44, 46, 47}

\* Setting a register that the handler may write there is not seen.
LEMMA SetSeen ==
  ASSUME NEW a, MachOk(a), InHandler(a.cp0), NEW p \in Ordinary, At(a, p), NEW r \in AllRegs, MayWrite(p, r),
         NEW b, b.PC = EXCEPTION_ADDR + 4 * (p + 1),
         b.cp0 = a.cp0, b.hilo = a.hilo, b.mem = a.mem,
         Elsewhere(a, b, r)
  PROVE  Seen(a, b)
  <1>0. \A x \in AllRegs : x # r => b.R[x] = a.R[x]
    BY DEF Elsewhere
  <1>a. p \in 0 .. 51 /\ p # 0 /\ p # 2 /\ p # 4 /\ p # 42 /\ p \notin {44, 46, 47}
    BY DEF Ordinary
  <1> DEFINE q == p + 1
  <1>1. At(b, q) /\ InHandler(b.cp0)
    BY <1>a DEF At
  <1>2. MemLike(a.mem, b.mem) /\ KeptIn(a, S1) = KeptIn(b, S1) /\ KeptIn(a, S2) = KeptIn(b, S2)
    BY DEF MemLike, KeptIn
  <1>4. (p >= 43 <=> q >= 43) /\ (p \in 1 .. 47 <=> q \in 1 .. 47)
        /\ (p \in 3 .. 44 <=> q \in 3 .. 44) /\ (p \in 5 .. 46 <=> q \in 5 .. 46)
    BY <1>a
  <1> HIDE DEF q
  <1>5. "k1" \in AllRegs /\ {"at", "v0", "a0"} \subseteq AllRegs /\ UserRegs \subseteq AllRegs
        /\ \A x \in UserRegs : x \notin {"k0", "k1", "zero"}
    BY RegistersAre
  <1>6. b.R.k1 = a.R.k1
    BY <1>0, <1>a, <1>5 DEF MayWrite
  <1>7. p \notin 1 .. 47 => b.R.at = a.R.at
    BY <1>0, <1>a, <1>5 DEF MayWrite
  <1>8. p \notin 3 .. 44 => b.R.v0 = a.R.v0
    BY <1>0, <1>a, <1>5 DEF MayWrite
  <1>9. p \notin 5 .. 46 => b.R.a0 = a.R.a0
    BY <1>0, <1>a, <1>5 DEF MayWrite
  <1>10. \A x \in UserRegs \ {"at", "v0", "a0"} : a.R[x] = b.R[x]
    BY <1>0, <1>a, <1>5 DEF MayWrite
  <1>11. (IF p >= 43 THEN a.cp0.EPC ELSE Word(a.cp0.EPC + 4))
           = (IF q >= 43 THEN b.cp0.EPC ELSE Word(b.cp0.EPC + 4))
    BY <1>4
  <1>12. (IF p \in 1 .. 47 THEN a.R.k1 ELSE a.R.at) = (IF q \in 1 .. 47 THEN b.R.k1 ELSE b.R.at)
    BY <1>4, <1>6, <1>7
  <1>13. (IF p \in 3 .. 44 THEN KeptIn(a, S1) ELSE a.R.v0)
           = (IF q \in 3 .. 44 THEN KeptIn(b, S1) ELSE b.R.v0)
    BY <1>2, <1>4, <1>8
  <1>14. (IF p \in 5 .. 46 THEN KeptIn(a, S2) ELSE a.R.a0)
           = (IF q \in 5 .. 46 THEN KeptIn(b, S2) ELSE b.R.a0)
    BY <1>2, <1>4, <1>9
  <1> QED
    BY <1>1, <1>2, <1>10, <1>11, <1>12, <1>13, <1>14, SeenAt

-----------------------------------------------------------------------------
(* Addresses in two halves *)

\* lui with the upper half and an access with the lower one, which is sign-extended, reach the
\* address that they were made of.

\* The upper half of an address as lui gives it, one more when the lower half is negative.
Upper(x) == High(x - ShortValue(x)) * H

LEMMA Digit ==
  ASSUME NEW d \in Nat \ {0}, NEW q \in Int, NEW r \in 0 .. d - 1
  PROVE  (d * q + r) % d = r /\ (d * q + r) \div d = q
  <1>1. 0 <= r /\ r < d /\ d * q + r \in Int
    OBVIOUS
  <1> QED
    BY <1>1

LEMMA ModSelf ==
  ASSUME NEW d \in Nat \ {0}, NEW r \in 0 .. d - 1
  PROVE  r % d = r
  OBVIOUS

LEMMA Remains ==
  ASSUME NEW d \in Nat \ {0}, NEW u \in Int
  PROVE  \E q \in Int : u % d = u - d * q
  <1>1. u \div d \in Int /\ u = d * (u \div d) + (u % d) /\ u % d \in Int
    OBVIOUS
  <1>2. d * (u \div d) \in Int
    BY <1>1
  <1> QED
    BY <1>1, <1>2

LEMMA ModSum ==
  ASSUME NEW d \in Nat \ {0}, NEW u \in Int, NEW v \in Int, u + v \in 0 .. d - 1
  PROVE  ((u % d) + (v % d)) % d = u + v /\ (u + (v % d)) % d = u + v
  <1>1. PICK p \in Int : u % d = u - d * p
    BY Remains
  <1>2. PICK q \in Int : v % d = v - d * q
    BY Remains
  <1> DEFINE n == -(p + q)
             k == -q
             r == u + v
  <1>3. n \in Int /\ k \in Int /\ r \in 0 .. d - 1
    OBVIOUS
  <1>4. d * p \in Int /\ d * q \in Int /\ d * n = -(d * p) - (d * q) /\ d * k = -(d * q)
    OBVIOUS
  <1>5. (u % d) + (v % d) = d * n + r /\ u + (v % d) = d * k + r
    <2> DEFINE x == d * p
               y == d * q
               x1 == d * n
               y1 == d * k
    <2>1. u % d = u - x /\ v % d = v - y /\ x \in Int /\ y \in Int /\ x1 = -x - y /\ y1 = -y
      BY <1>1, <1>2, <1>4
    <2> HIDE DEF x, y, x1, y1
    <2>2. (u - x) + (v - y) = x1 + r /\ u + (v - y) = y1 + r
      BY <2>1
    <2> QED
      BY Zenon, <2>1, <2>2 DEF x1, y1
  <1> HIDE DEF n, k, r
  <1>6. (d * n + r) % d = r /\ (d * k + r) % d = r
    BY <1>3, Digit
  <1> QED
    BY <1>5, <1>6 DEF r

\* An address built from its two halves, the lower one sign-extended.
LEMMA UpperIs ==
  ASSUME NEW x \in Nat, x + H <= W
  PROVE  /\ High(x - ShortValue(x)) \in 0 .. H - 1 /\ Low(x) \in 0 .. H - 1 /\ x \in Words
         /\ Upper(x) \in Words
         /\ Word(Upper(x) + Imm(Low(x))) = x
         /\ \A c \in Nat : x + c < W => Word(Word(Upper(x) + c) + Imm(Low(x))) = x + c
  <1> DEFINE l == Low(x)
             h == High(x)
  <1>1. l \in 0 .. H - 1 /\ h \in Nat /\ x = h * H + l
    BY Halved
  <1>2. H \in Nat /\ H >= 128 /\ W \in Nat /\ W = H * H /\ H = 2 * 2^(HalfBits - 1)
        /\ 2^(HalfBits - 1) \in Nat
    BY Tops
  <1> DEFINE t == 2^(HalfBits - 1)
             s == IF l >= t THEN l - H ELSE l
             k == IF l >= t THEN h + 1 ELSE h
  <1>3. ShortValue(x) = s
    BY DEF ShortValue, SignedOf, Low, H
  <1>4. Imm(l) = s % W
    <2> HIDE DEF l, s, t
    <2>1. l % H = l
      BY <1>1, <1>2, ModSelf
    <2>2. ShortValue(l) = IF l >= t THEN l - H ELSE l
      BY <2>1 DEF ShortValue, SignedOf, H, t
    <2> QED
      BY <2>2 DEF Imm, Word, W, s
  <1>5. s \in Int /\ k \in Nat /\ t \in Nat
    BY <1>1, <1>2
  <1> HIDE DEF t, l, h
  <1>6. x - s = k * H
    <2>1. CASE l >= t
      <3>1. (h + 1) * H = h * H + H
        BY <1>1, <1>2
      <3> QED
        BY <1>1, <1>2, <2>1, <3>1
    <2>2. CASE ~(l >= t)
      BY <1>1, <1>2, <2>2
    <2> QED
      BY <2>1, <2>2
  <1> HIDE DEF s, k
  <1>7. High(x - s) = k
    <2>1. (k * H) \div H = k
      BY <1>2, <1>5
    <2> QED
      BY <1>6, <2>1 DEF High, H
  <1>8. k <= H - 1
    <2>1. CASE l >= t
      <3>1. t >= 1
        BY <1>2, <1>5 DEF t
      <3>2. k * H < W
        <4>1. k * H = h * H + H
          BY <1>1, <1>2, <2>1 DEF k
        <4> QED
          BY <1>1, <1>2, <1>5, <2>1, <3>1, <4>1
      <3>3. ASSUME k >= H PROVE FALSE
        <4>1. k * H >= H * H
          BY <1>2, <1>5, <3>3
        <4> QED
          BY <1>2, <1>5, <3>2, <4>1
      <3> QED
        BY <1>2, <1>5, <3>3
    <2>2. CASE ~(l >= t)
      <3>1. k = h /\ k * H <= x /\ x < W
        BY <1>1, <1>2, <2>2 DEF k
      <3>2. ASSUME k >= H PROVE FALSE
        <4>1. k * H >= H * H
          BY <1>2, <1>5, <3>2
        <4>2. k * H \in Int
          BY <1>2, <1>5
        <4> QED
          BY <1>2, <3>1, <4>1, <4>2
      <3> QED
        BY <1>2, <1>5, <3>2
    <2> QED
      BY <2>1, <2>2
  <1>9. Upper(x) = k * H /\ k * H \in Nat
    BY <1>2, <1>3, <1>5, <1>7 DEF Upper
  <1>10. k * H \in 0 .. W - 1
    <2>1. k \in 0 .. H - 1 /\ 0 \in 0 .. H - 1 /\ k * H + 0 = k * H
      BY <1>2, <1>5, <1>8
    <2> QED
      BY <2>1, OfHalves, WordsAre
  <1> DEFINE u == k * H
  <1>11. u \in Int /\ u + s = x /\ W \in Nat \ {0} /\ Upper(x) = u
    BY <1>2, <1>5, <1>6, <1>9
  <1> HIDE DEF u
  <1>12. Word(u + Imm(l)) = x
    <2>1. u + s \in 0 .. W - 1
      BY <1>2, <1>11
    <2>2. (u + (s % W)) % W = u + s
      BY <1>5, <1>11, <2>1, ModSum
    <2> QED
      <3>1. Word(u + Imm(l)) = (u + Imm(l)) % W
        BY DEF Word, W
      <3> QED
        BY Zenon, <1>4, <1>11, <2>2, <3>1
  <1>13. ASSUME NEW c \in Nat, x + c < W PROVE Word(Word(u + c) + Imm(l)) = x + c
    <2> DEFINE y == u + c
    <2>1. y \in Int /\ y + s \in 0 .. W - 1 /\ y + s = x + c
      BY <1>5, <1>11, <1>13
    <2> HIDE DEF y
    <2>2. ((y % W) + (s % W)) % W = y + s
      BY <1>5, <1>11, <2>1, ModSum
    <2> QED
      <3>1. Word(Word(y) + Imm(l)) = (Word(y) + Imm(l)) % W /\ Word(y) = y % W
        BY DEF Word, W
      <3> QED
        BY Zenon, <1>4, <2>1, <2>2, <3>1 DEF y
  <1>14. x \in 0 .. W - 1
    BY <1>2
  <1> QED
    BY <1>1, <1>3, <1>5, <1>7, <1>8, <1>9, <1>10, <1>11, <1>12, <1>13, <1>14, WordsAre DEF l

-----------------------------------------------------------------------------
(* The kernel's data *)

\* Neither the data nor the stack grow into it.

LEMMA KernelLayout ==
  /\ STACK_TOP <= K_DATA_BOT /\ K_DATA_BOT \in Nat /\ K_DATA_SIZE \in Nat /\ 72 <= K_DATA_SIZE
  /\ K_DATA_BOT + K_DATA_SIZE <= SPECIAL_BOT /\ STACK_TOP \in Nat /\ SPECIAL_BOT \in Nat
  /\ K_DATA_BOT % 4 = 0 /\ K_DATA_BOT + K_DATA_SIZE + H <= W /\ W \in Nat /\ H \in Nat /\ H >= 128
  <1>1. EXCEPTION_ADDR + 4 * Len(Handler) <= K_DATA_BOT /\ Len(Handler) = 53
    BY CpuAssumption, HandlerLength
  <1>2. EXCEPTION_ADDR <= K_DATA_BOT
    BY <1>1, Layout
  <1>3. STACK_TOP <= K_DATA_BOT
    BY <1>2, Layout
  <1> QED
    BY <1>3, Layout, Tops

\* An address of the kernel's data is in no other segment.
LEMMA KernelSegment ==
  ASSUME NEW o, MemOk(o), Apart(o), NEW x \in Int, InKernelData(x)
  PROVE  SegmentsAt(o, x) = {"k_data"} /\ Bottom(o)["k_data"] = K_DATA_BOT
  <1>1. /\ o.data_top \in Int /\ o.stack_bot \in Int /\ o.data_top <= o.stack_bot
        /\ o.stack_bot <= STACK_TOP /\ o.k_data_top = K_DATA_BOT + K_DATA_SIZE
    BY DEF MemOk, MemBounds, Apart
  <1>2. K_DATA_BOT <= x /\ x < K_DATA_BOT + K_DATA_SIZE
    BY KernelLayout DEF InKernelData
  <1>3. o.data_top <= x /\ STACK_TOP <= x /\ x < SPECIAL_BOT
    BY <1>1, <1>2, KernelLayout
  <1> DEFINE b == Bottom(o)
             t == Top(o)
  <1>4. /\ DOMAIN b = {"data", "stack", "k_data", "special"}
        /\ t["data"] = o.data_top /\ t["stack"] = STACK_TOP /\ t["k_data"] = o.k_data_top
        /\ b["k_data"] = K_DATA_BOT /\ b["special"] = SPECIAL_BOT
    BY DEF Bottom, Top
  <1>5. SegmentsAt(o, x) = {s \in DOMAIN b : b[s] <= x /\ x < t[s]}
    BY Zenon DEF SegmentsAt
  <1> HIDE DEF b, t
  <1>6. ~(x < o.data_top) /\ ~(x < STACK_TOP) /\ ~(SPECIAL_BOT <= x) /\ x < o.k_data_top
    BY <1>1, <1>2, <1>3, KernelLayout
  <1>7. SegmentsAt(o, x) = {"k_data"}
    BY <1>2, <1>4, <1>5, <1>6
  <1> QED
    BY <1>4, <1>7 DEF b

\* An aligned load from the kernel's data finds the bytes there and does not fault.
LEMMA ReadKernel ==
  ASSUME NEW o, MemOk(o), Apart(o), NEW x \in Int, InKernelData(x), x % 4 = 0
  PROVE  /\ ReadMem(o, x, 4).mem = o /\ ReadMem(o, x, 4).fault = NoFault
         /\ ReadMem(o, x, 4).value = Word(Fetch(o.k_data, x - K_DATA_BOT, 4))
  <1>1. SegmentsAt(o, x) = {"k_data"} /\ Bottom(o)["k_data"] = K_DATA_BOT
    BY KernelSegment
  <1> DEFINE s == CHOOSE y \in SegmentsAt(o, x) : TRUE
             f == Fetch(o.k_data, x - K_DATA_BOT, 4)
  <1>2. s = "k_data"
    BY <1>1
  <1>3. ReadMem(o, x, 4) = Done(o, SignExtend(Fetch(o[s], x - Bottom(o)[s], 4), 4 * ByteBits))
    BY <1>1 DEF ReadMem
  <1> HIDE DEF s
  <1>4. ReadMem(o, x, 4) = Done(o, SignExtend(f, 4 * ByteBits))
    BY Zenon, <1>1, <1>2, <1>3
  <1>5. f \in Words
    <2>1. x - K_DATA_BOT \in Int
      BY KernelLayout
    <2>2. o.k_data \in ArrayOf(K_DATA_SIZE)
      BY DEF MemOk, MemContents
    <2>3. \A j \in x - K_DATA_BOT .. x - K_DATA_BOT + 4 - 1 : o.k_data[j] \in Byte
      <3>1. x + 4 <= K_DATA_BOT + K_DATA_SIZE
        <4> DEFINE top == K_DATA_BOT + K_DATA_SIZE
        <4>1. top \in Int /\ top % 4 = 0
          BY Layout
        <4>2. x < top
          BY KernelLayout DEF InKernelData
        <4> HIDE DEF top
        <4>3. 4 \in Sizes
          BY DEF Sizes
        <4> DEFINE n == 4
        <4>4. n \in Sizes /\ x % n = 0
          BY <4>3
        <4> HIDE DEF n
        <4>5. x + n <= top
          BY <4>1, <4>2, <4>4, SpanInside
        <4> QED
          BY <4>5 DEF n, top
      <3>2. ASSUME NEW j \in x - K_DATA_BOT .. x - K_DATA_BOT + 4 - 1 PROVE j \in 0 .. K_DATA_SIZE - 1
        BY <3>1, KernelLayout DEF InKernelData
      <3> QED
        BY <2>2, <3>2 DEF ArrayOf
    <2> QED
      BY <2>1, <2>3, FetchFits
  <1> HIDE DEF f
  <1>6. SignExtend(f, 4 * ByteBits) = Word(f)
    <2>1. 4 * ByteBits = WordBits
      BY DEF WordBits
    <2>2. SignExtend(f, WordBits) = Word(IF f >= 2^(WordBits - 1) THEN f - W ELSE f)
      BY DEF SignExtend, SignedOf, W
    <2>3. f \in 0 .. W - 1 /\ W \in Nat \ {0} /\ 2^(WordBits - 1) \in Nat
      BY <1>5, WordsAre, Tops
    <2>4. (f - W) % W = f
      <3>1. f - W = W * (-1) + f
        BY <2>3
      <3> QED
        BY <2>3, <3>1, Digit
    <2>5. f % W = f
      BY <2>3, ModSelf
    <2> QED
      BY <2>1, <2>2, <2>4, <2>5 DEF Word, W
  <1> QED
    BY <1>4, <1>6 DEF Done, f

\* An aligned store there changes these bytes alone.
LEMMA WriteKernel ==
  ASSUME NEW o, MemOk(o), Apart(o), NEW x \in Int, InKernelData(x), x % 4 = 0, NEW v
  PROVE  /\ SetMem(o, x, v, 4).fault = NoFault
         /\ SetMem(o, x, v, 4).mem = PutAt(o, "k_data", x - K_DATA_BOT, 4, v)
  <1>1. SegmentsAt(o, x) = {"k_data"} /\ Bottom(o)["k_data"] = K_DATA_BOT
    BY KernelSegment
  <1> DEFINE s == CHOOSE y \in SegmentsAt(o, x) : TRUE
             i == x - Bottom(o)[s]
  <1>2. s = "k_data"
    BY <1>1
  <1>3. SetMem(o, x, v, 4) = Done(PutAt(o, s, i, 4, v), 0)
    <2>1. SetMem(o, x, v, 4) =
            Done(IF 4 = 1 /\ s = "special" THEN SpecialByte(o, i, v) ELSE PutAt(o, s, i, 4, v), 0)
      BY <1>1 DEF SetMem
    <2>2. ~(4 = 1)
      OBVIOUS
    <2> QED
      BY Zenon, <2>1, <2>2
  <1>4. i = x - K_DATA_BOT
    BY <1>1, <1>2
  <1> HIDE DEF s, i
  <1>5. SetMem(o, x, v, 4) = Done(PutAt(o, "k_data", x - K_DATA_BOT, 4, v), 0)
    BY Zenon, <1>2, <1>3, <1>4
  <1> QED
    BY <1>5 DEF Done

\* The four bytes of a word are the word.
LEMMA FourBytes ==
  ASSUME NEW v \in Words
  PROVE  v = (v % Power(1)) + ((v \div Power(1)) % Power(1)) * Power(1)
               + ((v \div Power(2)) % Power(1)) * Power(2) + ((v \div Power(3)) % Power(1)) * Power(3)
  <1> DEFINE b == Power(1)
             v1 == v \div b
             v2 == v1 \div b
             v3 == v2 \div b
  <1>1. b \in Nat \ {0} /\ Power(2) = b * b /\ Power(3) = b * (b * b) /\ W = b * (b * (b * b))
    <2>1. b \in Nat \ {0}
      BY NextPower
    <2>2. Power(2) = b * b
      <3>1. 1 \in 0 .. 3 /\ 1 + 1 = 2
        OBVIOUS
      <3> QED
        BY <3>1, NextPower
    <2>3. Power(3) = b * Power(2)
      <3>1. 2 \in 0 .. 3 /\ 2 + 1 = 3
        OBVIOUS
      <3> QED
        BY <3>1, NextPower
    <2>4. Power(4) = b * Power(3)
      <3>1. 3 \in 0 .. 3 /\ 3 + 1 = 4
        OBVIOUS
      <3> QED
        BY <3>1, NextPower
    <2>5. W = Power(4)
      BY DEF W, Power, WordBits
    <2> QED
      BY <2>1, <2>2, <2>3, <2>4, <2>5
  <1>2. v \in Nat /\ v < W
    BY WordsAre, Tops
  <1> HIDE DEF b
  <1>3. v1 \in Nat /\ v = b * v1 + (v % b) /\ v % b \in 0 .. b - 1
    BY <1>1, <1>2, Euclid
  <1>4. v2 \in Nat /\ v1 = b * v2 + (v1 % b) /\ v1 % b \in 0 .. b - 1
    <2> HIDE DEF v1
    <2> QED
      BY <1>1, <1>3, Euclid
  <1>5. v3 \in Nat /\ v2 = b * v3 + (v2 % b) /\ v2 % b \in 0 .. b - 1
    <2> HIDE DEF v1, v2
    <2> QED
      BY <1>1, <1>4, Euclid
  <1> DEFINE r0 == v % b
             r1 == v1 % b
             r2 == v2 % b
  <1> HIDE DEF v1, v2, v3, r0, r1, r2
  <1>6. /\ v1 \in Nat /\ v2 \in Nat /\ v3 \in Nat /\ r0 \in 0 .. b - 1 /\ r1 \in 0 .. b - 1
        /\ r2 \in 0 .. b - 1
        /\ v = b * v1 + r0 /\ v1 = b * v2 + r1 /\ v2 = b * v3 + r2
    BY <1>3, <1>4, <1>5 DEF r0, r1, r2
  <1>7. v = (b * b) * v2 + (b * r1 + r0)
    <2>1. b * v1 = b * (b * v2) + b * r1
      BY <1>1, <1>6
    <2>2. b * (b * v2) = (b * b) * v2
      BY <1>1, <1>6
    <2> QED
      BY <1>1, <1>6, <2>1, <2>2
  <1>8. v = (b * (b * b)) * v3 + ((b * b) * r2 + (b * r1 + r0))
    <2>1. (b * b) * v2 = (b * b) * (b * v3) + (b * b) * r2
      BY <1>1, <1>6
    <2>2. (b * b) * (b * v3) = (b * (b * b)) * v3
      BY <1>1, <1>6
    <2> QED
      BY <1>1, <1>6, <1>7, <2>1, <2>2
  <1>9. b * r1 + r0 \in 0 .. b * b - 1
    <2>1. r1 <= b - 1 /\ r0 <= b - 1 /\ 0 <= r0 /\ 0 <= r1 /\ b \in Nat /\ r0 \in Nat /\ r1 \in Nat
      BY <1>1, <1>6
    <2>2. b * r1 <= b * (b - 1) /\ b * (b - 1) = b * b - b /\ 0 <= b * r1
      BY <2>1
    <2> QED
      BY <2>1, <2>2
  <1>10. (b * b) * r2 + (b * r1 + r0) \in 0 .. b * (b * b) - 1
    <2> DEFINE c == b * b
               z == b * r1 + r0
    <2>1. c \in Nat /\ z \in 0 .. c - 1 /\ r2 \in Nat /\ r2 <= b - 1 /\ b \in Nat
      BY <1>1, <1>6, <1>9
    <2> HIDE DEF c, z
    <2>2. c * r2 <= c * (b - 1) /\ c * (b - 1) = b * c - c /\ 0 <= c * r2
      BY <2>1
    <2>3. c * r2 + z \in 0 .. b * c - 1
      BY <2>1, <2>2
    <2> QED
      BY <2>3 DEF c, z
  <1>11. v \div Power(2) = v2
    <2> DEFINE c == b * b
               z == b * r1 + r0
    <2>1. c \in Nat \ {0} /\ z \in 0 .. c - 1 /\ v = c * v2 + z /\ Power(2) = c /\ v2 \in Int
      BY <1>1, <1>6, <1>7, <1>9
    <2> HIDE DEF c, z
    <2> QED
      BY <2>1, Digit
  <1>12. v \div Power(3) = v3
    <2> DEFINE c == b * (b * b)
               z == (b * b) * r2 + (b * r1 + r0)
    <2>1. c \in Nat \ {0} /\ z \in 0 .. c - 1 /\ v = c * v3 + z /\ Power(3) = c /\ v3 \in Int
      BY <1>1, <1>6, <1>8, <1>10
    <2> HIDE DEF c, z
    <2> QED
      BY <2>1, Digit
  <1>13. v3 < b
    <2> DEFINE c == b * (b * b)
               z == (b * b) * r2 + (b * r1 + r0)
    <2>1. c \in Nat \ {0} /\ z \in Nat /\ v = c * v3 + z /\ v < b * c /\ v3 \in Nat /\ b \in Nat
      BY <1>1, <1>2, <1>6, <1>8, <1>10
    <2> HIDE DEF c, z
    <2>2. ASSUME v3 >= b PROVE FALSE
      <3>1. c * v3 >= c * b /\ c * b = b * c /\ c * v3 \in Int /\ c * b \in Int
        BY <2>1, <2>2
      <3> QED
        BY <2>1, <3>1
    <2> QED
      BY <2>1, <2>2
  <1>14. v3 % b = v3
    <2>1. v3 \in 0 .. b - 1
      BY <1>1, <1>6, <1>13
    <2> QED
      BY <1>1, <2>1, ModSelf
  <1>15. v = r0 + r1 * Power(1) + r2 * Power(2) + v3 * Power(3)
    <2>1. r1 * b = b * r1 /\ r2 * (b * b) = (b * b) * r2 /\ v3 * (b * (b * b)) = (b * (b * b)) * v3
      BY <1>1, <1>6
    <2>2. Power(1) = b
      BY DEF b
    <2> DEFINE x1 == b * r1
               x2 == (b * b) * r2
               x3 == (b * (b * b)) * v3
    <2>3. x1 \in Int /\ x2 \in Int /\ x3 \in Int /\ r0 \in Int /\ v = x3 + (x2 + (x1 + r0))
      BY <1>1, <1>6, <1>8
    <2>4. r1 * Power(1) = x1 /\ r2 * Power(2) = x2 /\ v3 * Power(3) = x3
      BY <1>1, <2>1, <2>2
    <2> HIDE DEF x1, x2, x3
    <2> QED
      BY <2>3, <2>4
  <1> QED
    BY Zenon, <1>11, <1>12, <1>14, <1>15 DEF r0, r1, r2, b, v1

-----------------------------------------------------------------------------
(* Words in a segment *)

LEMMA FourRead ==
  ASSUME NEW f, NEW i
  PROVE  Fetch(f, i, 4) = f[i + 0] * Power(0) + f[i + 1] * Power(1) + f[i + 2] * Power(2) + f[i + 3] * Power(3)
  <1> DEFINE byte(k) == IF k < 4 THEN f[i + k] * 2^(k * ByteBits) ELSE 0
  <1>1. Fetch(f, i, 4) = byte(0) + byte(1) + byte(2) + byte(3)
    BY DEF Fetch
  <1>2. 0 < 4 /\ 1 < 4 /\ 2 < 4 /\ 3 < 4
    OBVIOUS
  <1>3. /\ byte(0) = f[i + 0] * 2^(0 * ByteBits) /\ byte(1) = f[i + 1] * 2^(1 * ByteBits)
        /\ byte(2) = f[i + 2] * 2^(2 * ByteBits) /\ byte(3) = f[i + 3] * 2^(3 * ByteBits)
    BY Zenon, <1>2
  <1> HIDE DEF byte
  <1> QED
    BY Zenon, <1>1, <1>3 DEF Power

\* A word that is stored is found again.
LEMMA FetchOwn ==
  ASSUME NEW f, NEW i \in Int, \A j \in i .. i + 3 : j \in DOMAIN f, NEW v \in Words
  PROVE  Fetch(Put(f, i, 4, v), i, 4) = v
  <1> DEFINE g == Put(f, i, 4, v)
             byte(k) == (v \div Power(k)) % Power(1)
  <1>1. ASSUME NEW k \in 0 .. 3 PROVE g[i + k] = byte(k)
    <2>1. i + k \in i .. i + 3 /\ i + k \in i .. i + 4 - 1 /\ i + k - i = k
      OBVIOUS
    <2>2. g[i + k] = (v \div 2^((i + k - i) * ByteBits)) % 2^ByteBits
      BY <2>1 DEF Put
    <2>3. 2^ByteBits = Power(1)
      <3>1. 1 * ByteBits = ByteBits
        BY Widths
      <3> QED
        BY <3>1 DEF Power
    <2> QED
      BY Zenon, <2>1, <2>2, <2>3 DEF Power
  <1>2. /\ g[i + 0] = byte(0) /\ g[i + 1] = byte(1) /\ g[i + 2] = byte(2) /\ g[i + 3] = byte(3)
    <2>1. 0 \in 0 .. 3 /\ 1 \in 0 .. 3 /\ 2 \in 0 .. 3 /\ 3 \in 0 .. 3
      OBVIOUS
    <2> HIDE DEF g, byte
    <2> QED
      BY Zenon, <1>1, <2>1
  <1>3. Power(0) = 1 /\ Power(1) \in Nat \ {0}
    BY NextPower
  <1>4. byte(0) * Power(0) = v % Power(1)
    <2>1. v \in Nat /\ v \div 1 = v
      BY WordsAre
    <2>2. v % Power(1) \in Int
      <3> DEFINE d == Power(1)
      <3>1. d \in Nat \ {0}
        BY <1>3
      <3> HIDE DEF d
      <3>2. v % d \in Int
        BY <2>1, <3>1
      <3> QED
        BY <3>2 DEF d
    <2>3. byte(0) = v % Power(1)
      BY Zenon, <1>3, <2>1
    <2> HIDE DEF byte
    <2> QED
      BY <1>3, <2>2, <2>3
  <1>5. Fetch(g, i, 4) = g[i + 0] * Power(0) + g[i + 1] * Power(1) + g[i + 2] * Power(2) + g[i + 3] * Power(3)
    BY Zenon, FourRead
  <1> HIDE DEF g, byte
  <1>7. v = (v % Power(1)) + byte(1) * Power(1) + byte(2) * Power(2) + byte(3) * Power(3)
    BY FourBytes DEF byte
  <1> QED
    BY Zenon, <1>2, <1>4, <1>5, <1>7 DEF g

\* And no other word has changed.
LEMMA FetchOther ==
  ASSUME NEW f, NEW i \in Int, NEW j \in Int, i + 4 <= j \/ j + 4 <= i,
         \A k \in j .. j + 3 : k \in DOMAIN f, NEW v
  PROVE  Fetch(Put(f, i, 4, v), j, 4) = Fetch(f, j, 4)
  <1> DEFINE g == Put(f, i, 4, v)
  <1>1. ASSUME NEW k \in 0 .. 3 PROVE g[j + k] = f[j + k]
    <2>1. j + k \in j .. j + 3 /\ j + k \notin i .. i + 4 - 1
      OBVIOUS
    <2> QED
      BY <2>1 DEF Put
  <1>2. /\ g[j + 0] = f[j + 0] /\ g[j + 1] = f[j + 1] /\ g[j + 2] = f[j + 2] /\ g[j + 3] = f[j + 3]
    <2>1. 0 \in 0 .. 3 /\ 1 \in 0 .. 3 /\ 2 \in 0 .. 3 /\ 3 \in 0 .. 3
      OBVIOUS
    <2> HIDE DEF g
    <2> QED
      BY Zenon, <1>1, <2>1
  <1> HIDE DEF g
  <1>3. Fetch(g, j, 4) = Fetch(f, j, 4)
    BY Zenon, <1>2, FourRead
  <1> QED
    BY <1>3 DEF g

-----------------------------------------------------------------------------
(* Where the handler keeps $v0 and $a0 *)

\* s1 and s2 lie in the kernel's data.
LEMMA Slots ==
  ASSUME NEW x \in {S1, S2}
  PROVE  /\ x \in Nat /\ x + H <= W /\ x \in Words /\ InKernelData(x) /\ x % 4 = 0
         /\ x - K_DATA_BOT \in {64, 68}
  <1>1. /\ K_DATA_BOT \in Nat /\ K_DATA_SIZE \in Nat /\ 72 <= K_DATA_SIZE /\ K_DATA_BOT % 4 = 0
        /\ K_DATA_BOT + K_DATA_SIZE + H <= W /\ W \in Nat /\ H \in Nat
    BY KernelLayout
  <1>2. x = K_DATA_BOT + 64 \/ x = K_DATA_BOT + 68
    BY DEF S1, S2
  <1>3. x \in Nat /\ x % 4 = 0 /\ x - K_DATA_BOT \in {64, 68}
    BY <1>1, <1>2
  <1>4. x + H <= W /\ x < W
    BY <1>1, <1>2
  <1>5. InKernelData(x)
    BY <1>1, <1>2 DEF InKernelData
  <1>6. x \in 0 .. W - 1
    BY <1>1, <1>3, <1>4
  <1>7. x \in Words
    BY Zenon, <1>6, WordsAre
  <1> QED
    BY Zenon, <1>3, <1>4, <1>5, <1>7

LEMMA SlotIndex ==
  ASSUME NEW o, MemOk(o), NEW x \in {S1, S2}
  PROVE  \A j \in x - K_DATA_BOT .. x - K_DATA_BOT + 3 : j \in DOMAIN o.k_data
  <1>1. DOMAIN o.k_data = 0 .. K_DATA_SIZE - 1
    BY DEF MemOk, MemContents, ArrayOf
  <1>2. x - K_DATA_BOT \in {64, 68}
    BY Slots
  <1> QED
    BY <1>1, <1>2, KernelLayout

\* A store to one of them is found there, and leaves the other one and the program's memory.
LEMMA StoreSlot ==
  ASSUME NEW o, MemOk(o), Apart(o), NEW x \in {S1, S2}, NEW v \in Words,
         NEW r, r = SetMem(o, x, v, 4)
  PROVE  /\ r.fault = NoFault /\ MemLike(o, r.mem)
         /\ Fetch(r.mem.k_data, x - K_DATA_BOT, 4) = v
         /\ \A y \in {S1, S2} : y # x =>
              Fetch(r.mem.k_data, y - K_DATA_BOT, 4) = Fetch(o.k_data, y - K_DATA_BOT, 4)
  <1> DEFINE i == x - K_DATA_BOT
             p == PutAt(o, "k_data", i, 4, v)
  <1>1. r.fault = NoFault /\ r.mem = p
    BY Slots, WriteKernel
  <1>2. i \in Int /\ v \in Nat
    BY Slots, WordsAre
  <1>3. p.k_data = Put(o.k_data, i, 4, v) /\ \A t \in MemParts : t # "k_data" => p[t] = o[t]
    <2>1. 4 \in Sizes
      BY DEF Sizes
    <2> DEFINE n == 4
    <2>2. n \in Sizes
      BY <2>1
    <2> HIDE DEF n, i
    <2>3. LET u == PutAt(o, "k_data", i, n, v)
          IN  u["k_data"] = Put(o["k_data"], i, n, v) /\ \A t \in MemParts : t # "k_data" => u[t] = o[t]
      BY <1>2, <2>2, PutParts
    <2> QED
      BY <2>3 DEF n
  <1> HIDE DEF i, p
  <1>4. MemLike(o, p)
    BY <1>3 DEF MemLike, Shared, MemParts
  <1>5. \A j \in i .. i + 3 : j \in DOMAIN o.k_data
    BY SlotIndex DEF i
  <1>6. Fetch(p.k_data, i, 4) = v
    BY <1>2, <1>3, <1>5, FetchOwn
  <1>7. ASSUME NEW y \in {S1, S2}, y # x
        PROVE  Fetch(p.k_data, y - K_DATA_BOT, 4) = Fetch(o.k_data, y - K_DATA_BOT, 4)
    <2> DEFINE j == y - K_DATA_BOT
    <2>1. j \in {64, 68} /\ i \in {64, 68} /\ j # i
      BY <1>7, Slots, KernelLayout DEF i
    <2>2. \A k \in j .. j + 3 : k \in DOMAIN o.k_data
      BY SlotIndex
    <2> HIDE DEF j
    <2>3. j \in Int /\ (i + 4 <= j \/ j + 4 <= i)
      BY <2>1
    <2>4. Fetch(p.k_data, j, 4) = Fetch(o.k_data, j, 4)
      BY <1>2, <1>3, <2>2, <2>3, FetchOther
    <2> QED
      BY <2>4 DEF j
  <1> QED
    BY <1>1, <1>4, <1>6, <1>7 DEF i

\* A store of the handler's into its data, and a load from there.
LEMMA StoreIs ==
  ASSUME NEW a, MachOk(a), Apart(a.mem), NEW i, NEW input, i.op = "SW", i.rt \in AllRegs,
         NEW x \in {S1, S2}, EffectiveAddress(a, i) = x
  PROVE  LET r == SetMem(a.mem, x, a.R[i.rt], 4)
         IN  Execute(a, i, input) = Quiet([a EXCEPT !.mem = r.mem], Word(a.PC + BYTES_PER_WORD))
  <1> DEFINE r == SetMem(a.mem, x, a.R[i.rt], 4)
             d == [a EXCEPT !.mem = r.mem]
  <1>1. Execute(a, i, input) = Store(a, i)
    <2>1. i.op \in StoreOps
      BY DEF StoreOps
    <2> QED
      BY <2>1, ExecuteIs
  <1>2. Size[i.op] = 4
    BY DEF Size
  <1>3. Store(a, i) = [Plain(d) EXCEPT !.faults = Faults(r)]
    BY Zenon, <1>2 DEF Store
  <1>4. r.fault = NoFault
    <2>1. a.R[i.rt] \in Words /\ MemOk(a.mem)
      BY MachParts
    <2> QED
      BY <2>1, StoreSlot
  <1>5. Faults(r) = <<>>
    BY <1>4 DEF Faults
  <1>6. d.PC = a.PC
    BY WithMem
  <1> HIDE DEF r, d
  <1>7. Plain(d) = Quiet(d, Word(d.PC + BYTES_PER_WORD))
    BY PlainIs
  <1>8. [Plain(d) EXCEPT !.faults = Faults(r)] = Eff(d, Word(d.PC + BYTES_PER_WORD), Faults(r), FALSE)
    BY <1>7, QuietFaults
  <1> QED
    BY Zenon, <1>1, <1>3, <1>5, <1>6, <1>8 DEF Quiet, d, r

LEMMA LoadIs ==
  ASSUME NEW a, MachOk(a), Apart(a.mem), NEW i, NEW input, i.op = "LW", i.rt \in AllRegs,
         NEW x, x \in Int, InKernelData(x), x % 4 = 0, EffectiveAddress(a, i) = x
  PROVE  Execute(a, i, input) = Set(a, i.rt, Word(Fetch(a.mem.k_data, x - K_DATA_BOT, 4)))
  <1> DEFINE r == ReadMem(a.mem, x, 4)
             d == [a EXCEPT !.mem = r.mem]
             v == Word(Fetch(a.mem.k_data, x - K_DATA_BOT, 4))
  <1>1. Execute(a, i, input) = Load(a, i)
    <2>1. i.op \in LoadOps
      BY DEF LoadOps
    <2> QED
      BY <2>1, ExecuteIs
  <1>2. Size[i.op] = 4 /\ i.op \notin {"LBU", "LHU"}
    BY DEF Size
  <1>3. Load(a, i) = [Set(d, i.rt, r.value) EXCEPT !.faults = Faults(r)]
    BY Zenon, <1>2 DEF Load
  <1>4. r.mem = a.mem /\ r.fault = NoFault /\ r.value = v
    <2>1. MemOk(a.mem)
      BY MachParts
    <2> QED
      BY <2>1, ReadKernel
  <1>5. Faults(r) = <<>>
    BY <1>4 DEF Faults
  <1>6. d = a
    <2>1. MachFields(a) /\ r.mem = a.mem
      BY <1>4, MachParts
    <2> HIDE DEF r
    <2> QED
      BY <2>1 DEF MachFields
  <1> HIDE DEF r, d, v
  <1>7. Set(a, i.rt, v) = Quiet([a EXCEPT !.R[i.rt] = v], Word(a.PC + BYTES_PER_WORD))
    BY SetIs
  <1>8. [Set(a, i.rt, v) EXCEPT !.faults = Faults(r)] = Eff([a EXCEPT !.R[i.rt] = v], Word(a.PC + BYTES_PER_WORD), Faults(r), FALSE)
    BY <1>7, QuietFaults
  <1>9. Execute(a, i, input) = Set(a, i.rt, v)
    BY Zenon, <1>1, <1>3, <1>4, <1>5, <1>6, <1>7, <1>8 DEF Quiet
  <1> QED
    BY <1>9 DEF v

-----------------------------------------------------------------------------
(* Bits of Cause, EPC and Status *)

\* What `andi $a0 $k0 60` leaves: an index into the table of messages.
Codes == {4 * k : k \in 0 .. 15}

LEMMA SmallWords ==
  /\ \A n \in 0 .. 127 : n \in Words /\ n \in Nat
  /\ 1 \in Words /\ 3 \in Words /\ 4 \in Words /\ 24 \in Words /\ 31 \in Words /\ 60 \in Words
  <1>1. W \in Nat /\ W >= 128
    BY Tops
  <1>2. \A n \in 0 .. 127 : n \in 0 .. W - 1
    BY <1>1
  <1>3. \A n \in 0 .. 127 : n \in Words
    BY Zenon, <1>2, WordsAre
  <1>4. /\ 1 \in 0 .. 127 /\ 3 \in 0 .. 127 /\ 4 \in 0 .. 127 /\ 24 \in 0 .. 127
        /\ 31 \in 0 .. 127 /\ 60 \in 0 .. 127
    OBVIOUS
  <1>5. \A n \in 0 .. 127 : n \in Nat
    OBVIOUS
  <1> QED
    BY Zenon, <1>3, <1>4, <1>5

LEMMA OrZero ==
  ASSUME NEW n \in Nat
  PROVE  BitOr(0, n) = n
  <1>1. And[0][n] = 0
    BY AndStep
  <1> QED
    BY <1>1 DEF BitOr

LEMMA QuarterOf ==
  ASSUME NEW v \in Nat, v % 2 = 0, Second(v) = 0
  PROVE  v = 4 * ((v \div 2) \div 2)  /\ (v \div 2) \div 2 \in Nat
  BY DEF Second

LEMMA CodesAre ==
  ASSUME NEW x \in Words
  PROVE  BitAnd(x, 60) \in Codes /\ BitAnd(x, 60) \in Words
  <1> DEFINE n == 60
             v == And[x][n]
  <1>1. n \in Nat /\ x \in Nat /\ n % 2 = 0 /\ Second(n) = 0 /\ n = 60
    BY WordsAre DEF Second
  <1> HIDE DEF n
  <1>2. v \in Nat /\ v <= n
    BY <1>1, AndStep, AndBelow
  <1>3. v % 2 = (x % 2) * (n % 2) /\ Second(v) = Second(x) * Second(n) /\ Second(x) \in 0 .. 1
    BY <1>1, AndBits
  <1> HIDE DEF v
  <1>4. v % 2 = 0 /\ Second(v) = 0
    BY <1>1, <1>3
  <1> DEFINE k == (v \div 2) \div 2
  <1>5. v = 4 * k /\ k \in Nat
    BY <1>2, <1>4, QuarterOf
  <1> HIDE DEF k
  <1>6. k \in 0 .. 15
    BY <1>1, <1>2, <1>5
  <1>7. v \in Codes
    BY <1>5, <1>6 DEF Codes
  <1>8. v \in 0 .. 127
    BY <1>1, <1>2
  <1> QED
    BY <1>1, <1>7, <1>8, SmallWords DEF v, BitAnd

\* The handler's test of EPC's two lowest bits does not fail on the address of a word.
LEMMA AlignedAnd ==
  ASSUME NEW x \in Words, x % 4 = 0
  PROVE  BitAnd(x, 3) = 0
  <1> DEFINE n == 3
             v == And[x][n]
  <1>1. n \in Nat /\ x \in Nat /\ n % 2 = 1 /\ Second(n) = 1 /\ n = 3
    BY WordsAre DEF Second
  <1> HIDE DEF n
  <1>2. v \in Nat /\ v <= n
    BY <1>1, AndStep, AndBelow
  <1>3. v % 2 = (x % 2) * (n % 2) /\ Second(v) = Second(x) * Second(n)
    BY <1>1, AndBits
  <1>4. x % 2 = 0 /\ Second(x) = 0
    BY <1>1 DEF Second
  <1> HIDE DEF v
  <1>5. v % 2 = 0 /\ Second(v) = 0
    BY <1>1, <1>3, <1>4
  <1> DEFINE k == (v \div 2) \div 2
  <1>6. v = 4 * k /\ k \in Nat
    BY <1>2, <1>5, QuarterOf
  <1> HIDE DEF k
  <1>7. v = 0
    BY <1>1, <1>2, <1>6
  <1> QED
    BY <1>1, <1>7 DEF v, BitAnd

\* Setting IE does not touch EXL.
LEMMA OrOne ==
  ASSUME NEW x \in Words
  PROVE  BitOr(x, 1) \in Words /\ Second(BitOr(x, 1)) = Second(x)
  <1> DEFINE n == 1
             b == (x % 2) + (n % 2) - (x % 2) * (n % 2)
             y == x \div 2
  <1>1. n \in Nat /\ x \in Nat /\ n = 1 /\ n \in Words /\ n \div 2 = 0 /\ y \in Nat
    BY WordsAre
  <1> HIDE DEF n
  <1>2. BitOr(x, n) = 2 * BitOr(y, n \div 2) + b /\ b \in 0 .. 1
    BY <1>1, OrStep
  <1>3. BitOr(y, 0) = y
    <2>1. And[y][0] = 0
      BY <1>1, AndStep
    <2> QED
      BY <1>1, <2>1 DEF BitOr
  <1> HIDE DEF b, y
  <1>4. BitOr(x, n) = 2 * y + b
    BY <1>1, <1>2, <1>3
  <1>5. BitOr(x, n) \div 2 = y
    BY <1>1, <1>2, <1>4
  <1>6. Second(BitOr(x, n)) = Second(x)
    BY <1>5 DEF Second, y
  <1>7. BitOr(x, n) \in Words
    BY <1>1, BitWords
  <1> QED
    BY <1>6, <1>7 DEF n

-----------------------------------------------------------------------------
(* Places in the handler *)

\* What the handler relies on at its p-th instruction.
AtPlace(a, p) ==
  /\ At(a, p) /\ p \notin 29 .. 31
  /\ p <= 42 => a.cp0.EPC % 4 = 0
  /\ p \in {2, 44} => a.R.at = Upper(S1)
  /\ p \in {4, 46} => a.R.at = Upper(S2)
  /\ p \in {18, 19} => a.R.a0 \in Codes
  /\ p = 19 => a.R.at = Upper(Messages)
  /\ p = 20 => \E c \in Codes : a.R.at = Word(Upper(Messages) + c)
  /\ p \in 9 .. 11 \cup 17 .. 22 \cup 33 .. 35 => a.R.v0 = 4
  /\ p \in 13 .. 15 => a.R.v0 = 1
  /\ p = 27 => a.R.a0 = a.cp0.EPC
  /\ p = 28 => a.R.a0 = 0
  /\ p = 41 => a.R.k0 = a.cp0.EPC
  /\ p = 42 => a.R.k0 = Word(a.cp0.EPC + 4)
  /\ p \in {50, 51} => Second(a.R.k0) = 1

\* A machine in the handler, at the beginning of a step.
Ready(a) == MachOk(a) /\ InHandler(a.cp0) /\ a.R.zero = 0 /\ Apart(a.mem)

\* What a step of the handler may do: it raises nothing, is not seen, and is in the handler
\* again at some place, or out of it.
Handled(a, e) ==
  /\ e.faults = <<>> /\ ~e.leave
  /\ MachOk(Onward(e)) /\ Seen(a, Onward(e))
  /\ InHandler(Onward(e).cp0) => \E q : AtPlace(Onward(e), q)

\* b is a, but for r, at the place after p.
Follows(a, p, b, r, v) ==
  /\ At(b, p + 1) /\ b.cp0 = a.cp0 /\ b.R[r] = v
  /\ \A x \in AllRegs : x # r => b.R[x] = a.R[x]

\* Setting r to v leads from place p to the next one.
Leads(a, p, r, v) == \A b : Follows(a, p, b, r, v) => AtPlace(b, p + 1)

\* An instruction that sets a register is a step of the handler when it leads to the next place.
LEMMA SetStep ==
  ASSUME NEW a, Ready(a), NEW p, AtPlace(a, p), NEW r \in AllRegs, NEW v \in Words,
         MayWrite(p, r), p \in Ordinary, NEW e, e = Set(a, r, v), Leads(a, p, r, v)
  PROVE  Handled(a, e)
  <1> DEFINE b == Onward(e)
  <1>1. MachOk(a) /\ InHandler(a.cp0) /\ At(a, p)
    BY DEF Ready, AtPlace
  <1>2. /\ e.faults = <<>> /\ ~e.leave
        /\ b.PC = EXCEPTION_ADDR + 4 * (p + 1)
        /\ b.cp0 = a.cp0 /\ b.hilo = a.hilo /\ b.mem = a.mem
        /\ b.R[r] = v /\ \A x \in AllRegs : x # r => b.R[x] = a.R[x]
    BY <1>1, SetOnward
  <1>3. MachOk(b)
    BY <1>1, SetOnwardFits
  <1> HIDE DEF b
  <1>4. Seen(a, b)
    <2>1. Elsewhere(a, b, r)
      BY Zenon, <1>2 DEF Elsewhere
    <2> QED
      BY <1>1, <1>2, <2>1, SetSeen
  <1>5. Follows(a, p, b, r, v)
    <2>1. p + 1 \in 0 .. 52
      BY DEF Ordinary
    <2>2. At(b, p + 1)
      BY <1>2, <2>1 DEF At
    <2> QED
      BY <1>2, <2>2 DEF Follows
  <1>6. \E q : AtPlace(b, q)
    BY <1>5 DEF Leads
  <1> QED
    BY <1>2, <1>3, <1>4, <1>6 DEF Handled, b

LEMMA Values ==
  ASSUME NEW a, NEW input, NEW rs, NEW rt, NEW rd, NEW x, NEW i
  PROVE  /\ i = Instr("ADDU", rs, rt, rd, x) => Execute(a, i, input) = Set(a, rd, Word(a.R[rs] + a.R[rt]))
         /\ i = Instr("ADDIU", rs, rt, rd, x) => Execute(a, i, input) = Set(a, rt, Word(a.R[rs] + Imm(x)))
         /\ i = Instr("ANDI", rs, rt, rd, x) => Execute(a, i, input) = Set(a, rt, BitAnd(a.R[rs], x))
         /\ i = Instr("ORI", rs, rt, rd, x) => Execute(a, i, input) = Set(a, rt, BitOr(a.R[rs], x))
         /\ i = Instr("LUI", rs, rt, rd, x) => Execute(a, i, input) = Set(a, rt, x * H)
         /\ i = Instr("SLL", rs, rt, rd, x) => Execute(a, i, input) = Set(a, rd, ShiftLeft(a.R[rt], x))
         /\ i = Instr("SRL", rs, rt, rd, x) => Execute(a, i, input) = Set(a, rd, ShiftRight(a.R[rt], x))
         /\ i = Instr("MFC0", rs, rt, rd, x) => Execute(a, i, input) = Set(a, rt, a.cp0[x])
  <1>1. /\ i.op = "ADDU" => Execute(a, i, input) = Set(a, i.rd, Word(a.R[i.rs] + a.R[i.rt]))
        /\ i.op = "ADDIU" => Execute(a, i, input) = Set(a, i.rt, Word(a.R[i.rs] + Imm(i.x)))
        /\ i.op = "ANDI" => Execute(a, i, input) = Set(a, i.rt, BitAnd(a.R[i.rs], i.x))
        /\ i.op = "ORI" => Execute(a, i, input) = Set(a, i.rt, BitOr(a.R[i.rs], i.x))
        /\ i.op = "LUI" => Execute(a, i, input) = Set(a, i.rt, i.x * H)
        /\ i.op = "SLL" => Execute(a, i, input) = Set(a, i.rd, ShiftLeft(a.R[i.rt], i.x))
        /\ i.op = "SRL" => Execute(a, i, input) = Set(a, i.rd, ShiftRight(a.R[i.rt], i.x))
    BY ValueAre
  <1>2. i.op = "MFC0" => Execute(a, i, input) = Set(a, i.rt, a.cp0[i.x])
    BY ReadCp0Is
  <1>3. ASSUME NEW op, i = Instr(op, rs, rt, rd, x)
        PROVE  i.op = op /\ i.rs = rs /\ i.rt = rt /\ i.rd = rd /\ i.x = x
    BY <1>3, InstrIs
  <1> QED
    BY Zenon, <1>1, <1>2, <1>3

LEMMA RegWords ==
  ASSUME NEW a, Ready(a)
  PROVE  /\ a.R.zero = 0 /\ a.R.zero \in Words /\ a.R.a0 \in Words /\ a.R.at \in Words /\ a.R.k0 \in Words /\ a.R.v0 \in Words
         /\ a.R.k1 \in Words /\ a.cp0.Status \in Words /\ a.cp0.EPC \in Words /\ a.cp0.Cause \in Words
         /\ \A r \in {"zero", "a0", "at", "k0", "v0", "k1"} : r \in AllRegs
  <1>1. MachOk(a) /\ a.R.zero = 0
    BY DEF Ready
  <1>2. a.R \in [AllRegs -> Words] /\ a.cp0 \in Cp0s
    BY <1>1, MachParts
  <1>3. \A r \in {"zero", "a0", "at", "k0", "v0", "k1"} : r \in AllRegs
    BY RegistersAre
  <1> QED
    BY <1>1, <1>2, <1>3 DEF Cp0s, Cp0Names

LEMMA MessagesAre ==
  /\ Messages \in Nat /\ Messages + H <= W /\ Messages \in Words /\ Messages = K_DATA_BOT
  /\ Low(Messages) \in Words /\ High(Messages) * H \in Words
  <1>1. /\ K_DATA_BOT \in Nat /\ K_DATA_SIZE \in Nat /\ 72 <= K_DATA_SIZE
        /\ K_DATA_BOT + K_DATA_SIZE + H <= W /\ W \in Nat /\ H \in Nat /\ H >= 128
    BY KernelLayout
  <1>2. Messages \in Nat /\ Messages + H <= W /\ Messages = K_DATA_BOT
    BY <1>1 DEF Messages
  <1>3. Messages \in 0 .. W - 1
    BY <1>1, <1>2
  <1>4. Messages \in Words
    BY Zenon, <1>3, WordsAre
  <1>5. Low(Messages) \in 0 .. H - 1 /\ High(Messages) \in 0 .. H - 1
    BY <1>2, <1>4, Halved
  <1>6. 0 \in 0 .. H - 1
    BY <1>1
  <1>7. 0 * H + Low(Messages) \in Words /\ High(Messages) * H + 0 \in Words
    BY <1>5, <1>6, OfHalves
  <1> DEFINE l == Low(Messages)
             h == High(Messages) * H
  <1>8. l \in Int /\ h \in Int /\ 0 * H = 0
    BY <1>1, <1>5
  <1>9. 0 + l \in Words /\ h + 0 \in Words
    BY <1>7, <1>8
  <1> HIDE DEF l, h
  <1>10. l \in Words /\ h \in Words
    BY <1>8, <1>9
  <1> QED
    BY <1>2, <1>4, <1>10 DEF l, h

LEMMA UppersAre ==
  ASSUME NEW x \in {S1, S2, Messages}
  PROVE  Upper(x) \in Words /\ High(x - ShortValue(x)) * H = Upper(x) /\ Word(Upper(x) + Imm(Low(x))) = x
  <1>1. x \in Nat /\ x + H <= W
    BY MessagesAre, Slots
  <1> QED
    BY <1>1, UpperIs DEF Upper

LEMMA ShiftWords ==
  ASSUME NEW v \in Words
  PROVE  ShiftRight(v, 2) \in Words /\ ShiftLeft(v, 0) \in Words
  <1>1. 2 \in 0 .. WordBits - 1 /\ 0 \in 0 .. WordBits - 1
    BY Widths
  <1> QED
    BY <1>1, ShiftsFit

LEMMA ImmFour == Imm(4) = 4
  <1>1. /\ H \in Nat /\ H >= 128 /\ H = 2 * 2^(HalfBits - 1) /\ 2^(HalfBits - 1) \in Nat
        /\ W \in Nat /\ W >= 128
    BY Tops
  <1> DEFINE n == 4
             t == 2^(HalfBits - 1)
  <1>2. ~(n >= t)
    BY <1>1
  <1>3. SignedOf(n, HalfBits) = n
    BY <1>2 DEF SignedOf
  <1>4. n % W = n
    <2>1. n \in 0 .. W - 1 /\ W \in Nat \ {0}
      BY <1>1
    <2> HIDE DEF n
    <2> QED
      BY <2>1, ModSelf
  <1>5. n % H = n
    <2>1. n \in 0 .. H - 1 /\ H \in Nat \ {0}
      BY <1>1
    <2> HIDE DEF n
    <2> QED
      BY <2>1, ModSelf
  <1>6. Imm(n) = n
    <2> HIDE DEF n
    <2>1. ShortValue(n) = n
      BY Zenon, <1>3, <1>5 DEF ShortValue, H
    <2> QED
      BY Zenon, <2>1, <1>4 DEF Imm, Word, W
  <1> QED
    BY <1>6

LEMMA SecondOfStatus ==
  ASSUME NEW a, Ready(a)
  PROVE  Second(a.cp0.Status) = 1
  <1>1. a.cp0 \in Cp0s /\ InHandler(a.cp0)
    BY MachParts DEF Ready
  <1> QED
    BY <1>1, InHandlerIs

-----------------------------------------------------------------------------
(* Instructions that set a register *)

LEMMA Place1 ==
  ASSUME NEW a, Ready(a), AtPlace(a, 1), NEW input, NEW e, e = Execute(a, Handler[2], input)
  PROVE  Handled(a, e)
  <1> DEFINE v == Upper(S1)
  <1>1. High(S1 - ShortValue(S1)) * H = v /\ v \in Words
    BY UppersAre
  <1>2. e = Set(a, "at", v)
    <2>1. Handler[2] = Instr("LUI", "zero", "at", "zero", High(S1 - ShortValue(S1)))
      BY HandlerIs
    <2>2. e = Set(a, "at", High(S1 - ShortValue(S1)) * H)
      BY <2>1, Values
    <2> HIDE DEF v
    <2> QED
      BY Zenon, <1>1, <2>2
  <1>4. Leads(a, 1, "at", v)
    BY RegWords DEF Leads, Follows, AtPlace
  <1>5. MayWrite(1, "at") /\ 1 \in Ordinary /\ "at" \in AllRegs
    BY RegWords DEF MayWrite, Ordinary
  <1> HIDE DEF v
  <1> QED
    BY Zenon, <1>1, <1>2, <1>4, <1>5, SetStep

LEMMA Place3 ==
  ASSUME NEW a, Ready(a), AtPlace(a, 3), NEW input, NEW e, e = Execute(a, Handler[4], input)
  PROVE  Handled(a, e)
  <1> DEFINE v == Upper(S2)
  <1>1. High(S2 - ShortValue(S2)) * H = v /\ v \in Words
    BY UppersAre
  <1>2. e = Set(a, "at", v)
    <2>1. Handler[4] = Instr("LUI", "zero", "at", "zero", High(S2 - ShortValue(S2)))
      BY HandlerIs
    <2>2. e = Set(a, "at", High(S2 - ShortValue(S2)) * H)
      BY <2>1, Values
    <2> HIDE DEF v
    <2> QED
      BY Zenon, <1>1, <2>2
  <1>4. Leads(a, 3, "at", v)
    BY RegWords DEF Leads, Follows, AtPlace
  <1>5. MayWrite(3, "at") /\ 3 \in Ordinary /\ "at" \in AllRegs
    BY RegWords DEF MayWrite, Ordinary
  <1> HIDE DEF v
  <1> QED
    BY Zenon, <1>1, <1>2, <1>4, <1>5, SetStep

LEMMA Place5 ==
  ASSUME NEW a, Ready(a), AtPlace(a, 5), NEW input, NEW e, e = Execute(a, Handler[6], input)
  PROVE  Handled(a, e)
  <1> DEFINE v == a.cp0.Cause
  <1>1. a.cp0["Cause"] = v /\ v \in Words
    BY RegWords
  <1>2. e = Set(a, "k0", v)
    <2>1. Handler[6] = Instr("MFC0", "zero", "k0", "zero", "Cause")
      BY HandlerIs
    <2>2. e = Set(a, "k0", a.cp0["Cause"])
      BY <2>1, Values
    <2> HIDE DEF v
    <2> QED
      BY Zenon, <1>1, <2>2
  <1>4. Leads(a, 5, "k0", v)
    BY RegWords DEF Leads, Follows, AtPlace
  <1>5. MayWrite(5, "k0") /\ 5 \in Ordinary /\ "k0" \in AllRegs
    BY RegWords DEF MayWrite, Ordinary
  <1> HIDE DEF v
  <1> QED
    BY Zenon, <1>1, <1>2, <1>4, <1>5, SetStep

LEMMA Place6 ==
  ASSUME NEW a, Ready(a), AtPlace(a, 6), NEW input, NEW e, e = Execute(a, Handler[7], input)
  PROVE  Handled(a, e)
  <1> DEFINE v == ShiftRight(a.R["k0"], 2)
  <1>1. ShiftRight(a.R["k0"], 2) = v /\ v \in Words
    BY RegWords, ShiftWords
  <1>2. e = Set(a, "a0", v)
    <2>1. Handler[7] = Instr("SRL", "zero", "k0", "a0", 2)
      BY HandlerIs
    <2>2. e = Set(a, "a0", ShiftRight(a.R["k0"], 2))
      BY <2>1, Values
    <2> HIDE DEF v
    <2> QED
      BY Zenon, <1>1, <2>2
  <1>4. Leads(a, 6, "a0", v)
    BY RegWords DEF Leads, Follows, AtPlace
  <1>5. MayWrite(6, "a0") /\ 6 \in Ordinary /\ "a0" \in AllRegs
    BY RegWords DEF MayWrite, Ordinary
  <1> HIDE DEF v
  <1> QED
    BY Zenon, <1>1, <1>2, <1>4, <1>5, SetStep

LEMMA Place7 ==
  ASSUME NEW a, Ready(a), AtPlace(a, 7), NEW input, NEW e, e = Execute(a, Handler[8], input)
  PROVE  Handled(a, e)
  <1> DEFINE v == BitAnd(a.R["a0"], 31)
  <1>1. BitAnd(a.R["a0"], 31) = v /\ v \in Words
    BY RegWords, SmallWords, BitWords
  <1>2. e = Set(a, "a0", v)
    <2>1. Handler[8] = Instr("ANDI", "a0", "a0", "zero", 31)
      BY HandlerIs
    <2>2. e = Set(a, "a0", BitAnd(a.R["a0"], 31))
      BY <2>1, Values
    <2> HIDE DEF v
    <2> QED
      BY Zenon, <1>1, <2>2
  <1>4. Leads(a, 7, "a0", v)
    BY RegWords DEF Leads, Follows, AtPlace
  <1>5. MayWrite(7, "a0") /\ 7 \in Ordinary /\ "a0" \in AllRegs
    BY RegWords DEF MayWrite, Ordinary
  <1> HIDE DEF v
  <1> QED
    BY Zenon, <1>1, <1>2, <1>4, <1>5, SetStep

LEMMA Place8 ==
  ASSUME NEW a, Ready(a), AtPlace(a, 8), NEW input, NEW e, e = Execute(a, Handler[9], input)
  PROVE  Handled(a, e)
  <1> DEFINE v == 4
  <1>1. BitOr(a.R["zero"], 4) = v /\ v \in Words
    BY RegWords, OrZero, SmallWords
  <1>2. e = Set(a, "v0", v)
    <2>1. Handler[9] = Instr("ORI", "zero", "v0", "zero", 4)
      BY HandlerIs
    <2>2. e = Set(a, "v0", BitOr(a.R["zero"], 4))
      BY <2>1, Values
    <2> HIDE DEF v
    <2> QED
      BY Zenon, <1>1, <2>2
  <1>4. Leads(a, 8, "v0", v)
    BY RegWords DEF Leads, Follows, AtPlace
  <1>5. MayWrite(8, "v0") /\ 8 \in Ordinary /\ "v0" \in AllRegs
    BY RegWords DEF MayWrite, Ordinary
  <1> HIDE DEF v
  <1> QED
    BY Zenon, <1>1, <1>2, <1>4, <1>5, SetStep

LEMMA Place9 ==
  ASSUME NEW a, Ready(a), AtPlace(a, 9), NEW input, NEW e, e = Execute(a, Handler[10], input)
  PROVE  Handled(a, e)
  <1> DEFINE v == High(Messages) * H
  <1>1. High(Messages) * H = v /\ v \in Words
    BY MessagesAre
  <1>2. e = Set(a, "at", v)
    <2>1. Handler[10] = Instr("LUI", "zero", "at", "zero", High(Messages))
      BY HandlerIs
    <2>2. e = Set(a, "at", High(Messages) * H)
      BY <2>1, Values
    <2> HIDE DEF v
    <2> QED
      BY Zenon, <1>1, <2>2
  <1>4. Leads(a, 9, "at", v)
    BY RegWords DEF Leads, Follows, AtPlace
  <1>5. MayWrite(9, "at") /\ 9 \in Ordinary /\ "at" \in AllRegs
    BY RegWords DEF MayWrite, Ordinary
  <1> HIDE DEF v
  <1> QED
    BY Zenon, <1>1, <1>2, <1>4, <1>5, SetStep

LEMMA Place10 ==
  ASSUME NEW a, Ready(a), AtPlace(a, 10), NEW input, NEW e, e = Execute(a, Handler[11], input)
  PROVE  Handled(a, e)
  <1> DEFINE v == BitOr(a.R["at"], Low(Messages))
  <1>1. BitOr(a.R["at"], Low(Messages)) = v /\ v \in Words
    BY RegWords, MessagesAre, BitWords
  <1>2. e = Set(a, "a0", v)
    <2>1. Handler[11] = Instr("ORI", "at", "a0", "zero", Low(Messages))
      BY HandlerIs
    <2>2. e = Set(a, "a0", BitOr(a.R["at"], Low(Messages)))
      BY <2>1, Values
    <2> HIDE DEF v
    <2> QED
      BY Zenon, <1>1, <2>2
  <1>4. Leads(a, 10, "a0", v)
    BY RegWords DEF Leads, Follows, AtPlace
  <1>5. MayWrite(10, "a0") /\ 10 \in Ordinary /\ "a0" \in AllRegs
    BY RegWords DEF MayWrite, Ordinary
  <1> HIDE DEF v
  <1> QED
    BY Zenon, <1>1, <1>2, <1>4, <1>5, SetStep

LEMMA Place12 ==
  ASSUME NEW a, Ready(a), AtPlace(a, 12), NEW input, NEW e, e = Execute(a, Handler[13], input)
  PROVE  Handled(a, e)
  <1> DEFINE v == 1
  <1>1. BitOr(a.R["zero"], 1) = v /\ v \in Words
    BY RegWords, OrZero, SmallWords
  <1>2. e = Set(a, "v0", v)
    <2>1. Handler[13] = Instr("ORI", "zero", "v0", "zero", 1)
      BY HandlerIs
    <2>2. e = Set(a, "v0", BitOr(a.R["zero"], 1))
      BY <2>1, Values
    <2> HIDE DEF v
    <2> QED
      BY Zenon, <1>1, <2>2
  <1>4. Leads(a, 12, "v0", v)
    BY RegWords DEF Leads, Follows, AtPlace
  <1>5. MayWrite(12, "v0") /\ 12 \in Ordinary /\ "v0" \in AllRegs
    BY RegWords DEF MayWrite, Ordinary
  <1> HIDE DEF v
  <1> QED
    BY Zenon, <1>1, <1>2, <1>4, <1>5, SetStep

LEMMA Place13 ==
  ASSUME NEW a, Ready(a), AtPlace(a, 13), NEW input, NEW e, e = Execute(a, Handler[14], input)
  PROVE  Handled(a, e)
  <1> DEFINE v == ShiftRight(a.R["k0"], 2)
  <1>1. ShiftRight(a.R["k0"], 2) = v /\ v \in Words
    BY RegWords, ShiftWords
  <1>2. e = Set(a, "a0", v)
    <2>1. Handler[14] = Instr("SRL", "zero", "k0", "a0", 2)
      BY HandlerIs
    <2>2. e = Set(a, "a0", ShiftRight(a.R["k0"], 2))
      BY <2>1, Values
    <2> HIDE DEF v
    <2> QED
      BY Zenon, <1>1, <2>2
  <1>4. Leads(a, 13, "a0", v)
    BY RegWords DEF Leads, Follows, AtPlace
  <1>5. MayWrite(13, "a0") /\ 13 \in Ordinary /\ "a0" \in AllRegs
    BY RegWords DEF MayWrite, Ordinary
  <1> HIDE DEF v
  <1> QED
    BY Zenon, <1>1, <1>2, <1>4, <1>5, SetStep

LEMMA Place14 ==
  ASSUME NEW a, Ready(a), AtPlace(a, 14), NEW input, NEW e, e = Execute(a, Handler[15], input)
  PROVE  Handled(a, e)
  <1> DEFINE v == BitAnd(a.R["a0"], 31)
  <1>1. BitAnd(a.R["a0"], 31) = v /\ v \in Words
    BY RegWords, SmallWords, BitWords
  <1>2. e = Set(a, "a0", v)
    <2>1. Handler[15] = Instr("ANDI", "a0", "a0", "zero", 31)
      BY HandlerIs
    <2>2. e = Set(a, "a0", BitAnd(a.R["a0"], 31))
      BY <2>1, Values
    <2> HIDE DEF v
    <2> QED
      BY Zenon, <1>1, <2>2
  <1>4. Leads(a, 14, "a0", v)
    BY RegWords DEF Leads, Follows, AtPlace
  <1>5. MayWrite(14, "a0") /\ 14 \in Ordinary /\ "a0" \in AllRegs
    BY RegWords DEF MayWrite, Ordinary
  <1> HIDE DEF v
  <1> QED
    BY Zenon, <1>1, <1>2, <1>4, <1>5, SetStep

LEMMA Place16 ==
  ASSUME NEW a, Ready(a), AtPlace(a, 16), NEW input, NEW e, e = Execute(a, Handler[17], input)
  PROVE  Handled(a, e)
  <1> DEFINE v == 4
  <1>1. BitOr(a.R["zero"], 4) = v /\ v \in Words
    BY RegWords, OrZero, SmallWords
  <1>2. e = Set(a, "v0", v)
    <2>1. Handler[17] = Instr("ORI", "zero", "v0", "zero", 4)
      BY HandlerIs
    <2>2. e = Set(a, "v0", BitOr(a.R["zero"], 4))
      BY <2>1, Values
    <2> HIDE DEF v
    <2> QED
      BY Zenon, <1>1, <2>2
  <1>4. Leads(a, 16, "v0", v)
    BY RegWords DEF Leads, Follows, AtPlace
  <1>5. MayWrite(16, "v0") /\ 16 \in Ordinary /\ "v0" \in AllRegs
    BY RegWords DEF MayWrite, Ordinary
  <1> HIDE DEF v
  <1> QED
    BY Zenon, <1>1, <1>2, <1>4, <1>5, SetStep

LEMMA Place17 ==
  ASSUME NEW a, Ready(a), AtPlace(a, 17), NEW input, NEW e, e = Execute(a, Handler[18], input)
  PROVE  Handled(a, e)
  <1> DEFINE v == BitAnd(a.R["k0"], 60)
  <1>1. BitAnd(a.R["k0"], 60) = v /\ v \in Words
    BY RegWords, CodesAre
  <1>2. e = Set(a, "a0", v)
    <2>1. Handler[18] = Instr("ANDI", "k0", "a0", "zero", 60)
      BY HandlerIs
    <2>2. e = Set(a, "a0", BitAnd(a.R["k0"], 60))
      BY <2>1, Values
    <2> HIDE DEF v
    <2> QED
      BY Zenon, <1>1, <2>2
  <1>3. BitAnd(a.R["k0"], 60) \in Codes
    BY RegWords, CodesAre
  <1>4. Leads(a, 17, "a0", v)
    BY RegWords, <1>3 DEF Leads, Follows, AtPlace
  <1>5. MayWrite(17, "a0") /\ 17 \in Ordinary /\ "a0" \in AllRegs
    BY RegWords DEF MayWrite, Ordinary
  <1> HIDE DEF v
  <1> QED
    BY Zenon, <1>1, <1>2, <1>4, <1>5, SetStep

LEMMA Place18 ==
  ASSUME NEW a, Ready(a), AtPlace(a, 18), NEW input, NEW e, e = Execute(a, Handler[19], input)
  PROVE  Handled(a, e)
  <1> DEFINE v == Upper(Messages)
  <1>1. High(Messages - ShortValue(Messages)) * H = v /\ v \in Words
    BY UppersAre
  <1>2. e = Set(a, "at", v)
    <2>1. Handler[19] = Instr("LUI", "zero", "at", "zero", High(Messages - ShortValue(Messages)))
      BY HandlerIs
    <2>2. e = Set(a, "at", High(Messages - ShortValue(Messages)) * H)
      BY <2>1, Values
    <2> HIDE DEF v
    <2> QED
      BY Zenon, <1>1, <2>2
  <1>4. Leads(a, 18, "at", v)
    BY RegWords DEF Leads, Follows, AtPlace
  <1>5. MayWrite(18, "at") /\ 18 \in Ordinary /\ "at" \in AllRegs
    BY RegWords DEF MayWrite, Ordinary
  <1> HIDE DEF v
  <1> QED
    BY Zenon, <1>1, <1>2, <1>4, <1>5, SetStep

LEMMA Place19 ==
  ASSUME NEW a, Ready(a), AtPlace(a, 19), NEW input, NEW e, e = Execute(a, Handler[20], input)
  PROVE  Handled(a, e)
  <1> DEFINE v == Word(a.R["at"] + a.R["a0"])
  <1>1. Word(a.R["at"] + a.R["a0"]) = v /\ v \in Words
    <2>1. a.R["at"] + a.R["a0"] \in Int
      BY RegWords, WordsAre
    <2> QED
      BY <2>1, WordFits
  <1>2. e = Set(a, "at", v)
    <2>1. Handler[20] = Instr("ADDU", "at", "a0", "at", 0)
      BY HandlerIs
    <2>2. e = Set(a, "at", Word(a.R["at"] + a.R["a0"]))
      BY <2>1, Values
    <2> HIDE DEF v
    <2> QED
      BY Zenon, <1>1, <2>2
  <1>4. Leads(a, 19, "at", v)
    BY RegWords DEF Leads, Follows, AtPlace
  <1>5. MayWrite(19, "at") /\ 19 \in Ordinary /\ "at" \in AllRegs
    BY RegWords DEF MayWrite, Ordinary
  <1> HIDE DEF v
  <1> QED
    BY Zenon, <1>1, <1>2, <1>4, <1>5, SetStep

LEMMA Place21 ==
  ASSUME NEW a, Ready(a), AtPlace(a, 21), NEW input, NEW e, e = Execute(a, Handler[22], input)
  PROVE  Handled(a, e)
  <1> DEFINE v == ShiftLeft(a.R["zero"], 0)
  <1>1. ShiftLeft(a.R["zero"], 0) = v /\ v \in Words
    BY RegWords, ShiftWords
  <1>2. e = Set(a, "zero", v)
    <2>1. Handler[22] = Instr("SLL", "zero", "zero", "zero", 0)
      BY HandlerIs
    <2>2. e = Set(a, "zero", ShiftLeft(a.R["zero"], 0))
      BY <2>1, Values
    <2> HIDE DEF v
    <2> QED
      BY Zenon, <1>1, <2>2
  <1>4. Leads(a, 21, "zero", v)
    BY RegWords DEF Leads, Follows, AtPlace
  <1>5. MayWrite(21, "zero") /\ 21 \in Ordinary /\ "zero" \in AllRegs
    BY RegWords DEF MayWrite, Ordinary
  <1> HIDE DEF v
  <1> QED
    BY Zenon, <1>1, <1>2, <1>4, <1>5, SetStep

LEMMA Place23 ==
  ASSUME NEW a, Ready(a), AtPlace(a, 23), NEW input, NEW e, e = Execute(a, Handler[24], input)
  PROVE  Handled(a, e)
  <1> DEFINE v == BitOr(a.R["zero"], 4 * ExcCode.IBE)
  <1>1. BitOr(a.R["zero"], 4 * ExcCode.IBE) = v /\ v \in Words
    <2>1. 4 * ExcCode.IBE = 24
      BY DEF ExcCode
    <2>2. a.R["zero"] \in Words /\ 24 \in Words
      BY RegWords, SmallWords
    <2> QED
      BY <2>1, <2>2, BitWords
  <1>2. e = Set(a, "at", v)
    <2>1. Handler[24] = Instr("ORI", "zero", "at", "zero", 4 * ExcCode.IBE)
      BY HandlerIs
    <2>2. e = Set(a, "at", BitOr(a.R["zero"], 4 * ExcCode.IBE))
      BY <2>1, Values
    <2> HIDE DEF v
    <2> QED
      BY Zenon, <1>1, <2>2
  <1>4. Leads(a, 23, "at", v)
    BY RegWords DEF Leads, Follows, AtPlace
  <1>5. MayWrite(23, "at") /\ 23 \in Ordinary /\ "at" \in AllRegs
    BY RegWords DEF MayWrite, Ordinary
  <1> HIDE DEF v
  <1> QED
    BY Zenon, <1>1, <1>2, <1>4, <1>5, SetStep

LEMMA Place25 ==
  ASSUME NEW a, Ready(a), AtPlace(a, 25), NEW input, NEW e, e = Execute(a, Handler[26], input)
  PROVE  Handled(a, e)
  <1> DEFINE v == ShiftLeft(a.R["zero"], 0)
  <1>1. ShiftLeft(a.R["zero"], 0) = v /\ v \in Words
    BY RegWords, ShiftWords
  <1>2. e = Set(a, "zero", v)
    <2>1. Handler[26] = Instr("SLL", "zero", "zero", "zero", 0)
      BY HandlerIs
    <2>2. e = Set(a, "zero", ShiftLeft(a.R["zero"], 0))
      BY <2>1, Values
    <2> HIDE DEF v
    <2> QED
      BY Zenon, <1>1, <2>2
  <1>4. Leads(a, 25, "zero", v)
    BY RegWords DEF Leads, Follows, AtPlace
  <1>5. MayWrite(25, "zero") /\ 25 \in Ordinary /\ "zero" \in AllRegs
    BY RegWords DEF MayWrite, Ordinary
  <1> HIDE DEF v
  <1> QED
    BY Zenon, <1>1, <1>2, <1>4, <1>5, SetStep

LEMMA Place26 ==
  ASSUME NEW a, Ready(a), AtPlace(a, 26), NEW input, NEW e, e = Execute(a, Handler[27], input)
  PROVE  Handled(a, e)
  <1> DEFINE v == a.cp0.EPC
  <1>1. a.cp0["EPC"] = v /\ v \in Words
    BY RegWords
  <1>2. e = Set(a, "a0", v)
    <2>1. Handler[27] = Instr("MFC0", "zero", "a0", "zero", "EPC")
      BY HandlerIs
    <2>2. e = Set(a, "a0", a.cp0["EPC"])
      BY <2>1, Values
    <2> HIDE DEF v
    <2> QED
      BY Zenon, <1>1, <2>2
  <1>4. Leads(a, 26, "a0", v)
    BY RegWords DEF Leads, Follows, AtPlace
  <1>5. MayWrite(26, "a0") /\ 26 \in Ordinary /\ "a0" \in AllRegs
    BY RegWords DEF MayWrite, Ordinary
  <1> HIDE DEF v
  <1> QED
    BY Zenon, <1>1, <1>2, <1>4, <1>5, SetStep

LEMMA Place27 ==
  ASSUME NEW a, Ready(a), AtPlace(a, 27), NEW input, NEW e, e = Execute(a, Handler[28], input)
  PROVE  Handled(a, e)
  <1> DEFINE v == 0
  <1>1. BitAnd(a.R["a0"], 3) = v /\ v \in Words
    <2>1. a.R["a0"] \in Words /\ a.R["a0"] % 4 = 0
      BY RegWords DEF AtPlace
    <2> QED
      BY <2>1, AlignedAnd, WordsAre
  <1>2. e = Set(a, "a0", v)
    <2>1. Handler[28] = Instr("ANDI", "a0", "a0", "zero", 3)
      BY HandlerIs
    <2>2. e = Set(a, "a0", BitAnd(a.R["a0"], 3))
      BY <2>1, Values
    <2> HIDE DEF v
    <2> QED
      BY Zenon, <1>1, <2>2
  <1>4. Leads(a, 27, "a0", v)
    BY RegWords DEF Leads, Follows, AtPlace
  <1>5. MayWrite(27, "a0") /\ 27 \in Ordinary /\ "a0" \in AllRegs
    BY RegWords DEF MayWrite, Ordinary
  <1> HIDE DEF v
  <1> QED
    BY Zenon, <1>1, <1>2, <1>4, <1>5, SetStep

LEMMA Place32 ==
  ASSUME NEW a, Ready(a), AtPlace(a, 32), NEW input, NEW e, e = Execute(a, Handler[33], input)
  PROVE  Handled(a, e)
  <1> DEFINE v == 4
  <1>1. BitOr(a.R["zero"], 4) = v /\ v \in Words
    BY RegWords, OrZero, SmallWords
  <1>2. e = Set(a, "v0", v)
    <2>1. Handler[33] = Instr("ORI", "zero", "v0", "zero", 4)
      BY HandlerIs
    <2>2. e = Set(a, "v0", BitOr(a.R["zero"], 4))
      BY <2>1, Values
    <2> HIDE DEF v
    <2> QED
      BY Zenon, <1>1, <2>2
  <1>4. Leads(a, 32, "v0", v)
    BY RegWords DEF Leads, Follows, AtPlace
  <1>5. MayWrite(32, "v0") /\ 32 \in Ordinary /\ "v0" \in AllRegs
    BY RegWords DEF MayWrite, Ordinary
  <1> HIDE DEF v
  <1> QED
    BY Zenon, <1>1, <1>2, <1>4, <1>5, SetStep

LEMMA Place33 ==
  ASSUME NEW a, Ready(a), AtPlace(a, 33), NEW input, NEW e, e = Execute(a, Handler[34], input)
  PROVE  Handled(a, e)
  <1> DEFINE v == High(Messages) * H
  <1>1. High(Messages) * H = v /\ v \in Words
    BY MessagesAre
  <1>2. e = Set(a, "at", v)
    <2>1. Handler[34] = Instr("LUI", "zero", "at", "zero", High(Messages))
      BY HandlerIs
    <2>2. e = Set(a, "at", High(Messages) * H)
      BY <2>1, Values
    <2> HIDE DEF v
    <2> QED
      BY Zenon, <1>1, <2>2
  <1>4. Leads(a, 33, "at", v)
    BY RegWords DEF Leads, Follows, AtPlace
  <1>5. MayWrite(33, "at") /\ 33 \in Ordinary /\ "at" \in AllRegs
    BY RegWords DEF MayWrite, Ordinary
  <1> HIDE DEF v
  <1> QED
    BY Zenon, <1>1, <1>2, <1>4, <1>5, SetStep

LEMMA Place34 ==
  ASSUME NEW a, Ready(a), AtPlace(a, 34), NEW input, NEW e, e = Execute(a, Handler[35], input)
  PROVE  Handled(a, e)
  <1> DEFINE v == BitOr(a.R["at"], Low(Messages))
  <1>1. BitOr(a.R["at"], Low(Messages)) = v /\ v \in Words
    BY RegWords, MessagesAre, BitWords
  <1>2. e = Set(a, "a0", v)
    <2>1. Handler[35] = Instr("ORI", "at", "a0", "zero", Low(Messages))
      BY HandlerIs
    <2>2. e = Set(a, "a0", BitOr(a.R["at"], Low(Messages)))
      BY <2>1, Values
    <2> HIDE DEF v
    <2> QED
      BY Zenon, <1>1, <2>2
  <1>4. Leads(a, 34, "a0", v)
    BY RegWords DEF Leads, Follows, AtPlace
  <1>5. MayWrite(34, "a0") /\ 34 \in Ordinary /\ "a0" \in AllRegs
    BY RegWords DEF MayWrite, Ordinary
  <1> HIDE DEF v
  <1> QED
    BY Zenon, <1>1, <1>2, <1>4, <1>5, SetStep

LEMMA Place36 ==
  ASSUME NEW a, Ready(a), AtPlace(a, 36), NEW input, NEW e, e = Execute(a, Handler[37], input)
  PROVE  Handled(a, e)
  <1> DEFINE v == ShiftRight(a.R["k0"], 2)
  <1>1. ShiftRight(a.R["k0"], 2) = v /\ v \in Words
    BY RegWords, ShiftWords
  <1>2. e = Set(a, "a0", v)
    <2>1. Handler[37] = Instr("SRL", "zero", "k0", "a0", 2)
      BY HandlerIs
    <2>2. e = Set(a, "a0", ShiftRight(a.R["k0"], 2))
      BY <2>1, Values
    <2> HIDE DEF v
    <2> QED
      BY Zenon, <1>1, <2>2
  <1>4. Leads(a, 36, "a0", v)
    BY RegWords DEF Leads, Follows, AtPlace
  <1>5. MayWrite(36, "a0") /\ 36 \in Ordinary /\ "a0" \in AllRegs
    BY RegWords DEF MayWrite, Ordinary
  <1> HIDE DEF v
  <1> QED
    BY Zenon, <1>1, <1>2, <1>4, <1>5, SetStep

LEMMA Place37 ==
  ASSUME NEW a, Ready(a), AtPlace(a, 37), NEW input, NEW e, e = Execute(a, Handler[38], input)
  PROVE  Handled(a, e)
  <1> DEFINE v == BitAnd(a.R["a0"], 31)
  <1>1. BitAnd(a.R["a0"], 31) = v /\ v \in Words
    BY RegWords, SmallWords, BitWords
  <1>2. e = Set(a, "a0", v)
    <2>1. Handler[38] = Instr("ANDI", "a0", "a0", "zero", 31)
      BY HandlerIs
    <2>2. e = Set(a, "a0", BitAnd(a.R["a0"], 31))
      BY <2>1, Values
    <2> HIDE DEF v
    <2> QED
      BY Zenon, <1>1, <2>2
  <1>4. Leads(a, 37, "a0", v)
    BY RegWords DEF Leads, Follows, AtPlace
  <1>5. MayWrite(37, "a0") /\ 37 \in Ordinary /\ "a0" \in AllRegs
    BY RegWords DEF MayWrite, Ordinary
  <1> HIDE DEF v
  <1> QED
    BY Zenon, <1>1, <1>2, <1>4, <1>5, SetStep

LEMMA Place39 ==
  ASSUME NEW a, Ready(a), AtPlace(a, 39), NEW input, NEW e, e = Execute(a, Handler[40], input)
  PROVE  Handled(a, e)
  <1> DEFINE v == ShiftLeft(a.R["zero"], 0)
  <1>1. ShiftLeft(a.R["zero"], 0) = v /\ v \in Words
    BY RegWords, ShiftWords
  <1>2. e = Set(a, "zero", v)
    <2>1. Handler[40] = Instr("SLL", "zero", "zero", "zero", 0)
      BY HandlerIs
    <2>2. e = Set(a, "zero", ShiftLeft(a.R["zero"], 0))
      BY <2>1, Values
    <2> HIDE DEF v
    <2> QED
      BY Zenon, <1>1, <2>2
  <1>4. Leads(a, 39, "zero", v)
    BY RegWords DEF Leads, Follows, AtPlace
  <1>5. MayWrite(39, "zero") /\ 39 \in Ordinary /\ "zero" \in AllRegs
    BY RegWords DEF MayWrite, Ordinary
  <1> HIDE DEF v
  <1> QED
    BY Zenon, <1>1, <1>2, <1>4, <1>5, SetStep

LEMMA Place40 ==
  ASSUME NEW a, Ready(a), AtPlace(a, 40), NEW input, NEW e, e = Execute(a, Handler[41], input)
  PROVE  Handled(a, e)
  <1> DEFINE v == a.cp0.EPC
  <1>1. a.cp0["EPC"] = v /\ v \in Words
    BY RegWords
  <1>2. e = Set(a, "k0", v)
    <2>1. Handler[41] = Instr("MFC0", "zero", "k0", "zero", "EPC")
      BY HandlerIs
    <2>2. e = Set(a, "k0", a.cp0["EPC"])
      BY <2>1, Values
    <2> HIDE DEF v
    <2> QED
      BY Zenon, <1>1, <2>2
  <1>4. Leads(a, 40, "k0", v)
    BY RegWords DEF Leads, Follows, AtPlace
  <1>5. MayWrite(40, "k0") /\ 40 \in Ordinary /\ "k0" \in AllRegs
    BY RegWords DEF MayWrite, Ordinary
  <1> HIDE DEF v
  <1> QED
    BY Zenon, <1>1, <1>2, <1>4, <1>5, SetStep

LEMMA Place41 ==
  ASSUME NEW a, Ready(a), AtPlace(a, 41), NEW input, NEW e, e = Execute(a, Handler[42], input)
  PROVE  Handled(a, e)
  <1> DEFINE v == Word(a.cp0.EPC + 4)
  <1>1. Word(a.R["k0"] + Imm(4)) = v /\ v \in Words
    <2>1. a.R["k0"] = a.cp0.EPC /\ a.cp0.EPC + 4 \in Int
      BY RegWords, WordsAre DEF AtPlace
    <2>2. Word(a.cp0.EPC + 4) \in Words
      BY <2>1, WordFits
    <2> QED
      BY <2>1, <2>2, ImmFour
  <1>2. e = Set(a, "k0", v)
    <2>1. Handler[42] = Instr("ADDIU", "k0", "k0", "zero", 4)
      BY HandlerIs
    <2>2. e = Set(a, "k0", Word(a.R["k0"] + Imm(4)))
      BY <2>1, Values
    <2> HIDE DEF v
    <2> QED
      BY Zenon, <1>1, <2>2
  <1>4. Leads(a, 41, "k0", v)
    BY RegWords DEF Leads, Follows, AtPlace
  <1>5. MayWrite(41, "k0") /\ 41 \in Ordinary /\ "k0" \in AllRegs
    BY RegWords DEF MayWrite, Ordinary
  <1> HIDE DEF v
  <1> QED
    BY Zenon, <1>1, <1>2, <1>4, <1>5, SetStep

LEMMA Place43 ==
  ASSUME NEW a, Ready(a), AtPlace(a, 43), NEW input, NEW e, e = Execute(a, Handler[44], input)
  PROVE  Handled(a, e)
  <1> DEFINE v == Upper(S1)
  <1>1. High(S1 - ShortValue(S1)) * H = v /\ v \in Words
    BY UppersAre
  <1>2. e = Set(a, "at", v)
    <2>1. Handler[44] = Instr("LUI", "zero", "at", "zero", High(S1 - ShortValue(S1)))
      BY HandlerIs
    <2>2. e = Set(a, "at", High(S1 - ShortValue(S1)) * H)
      BY <2>1, Values
    <2> HIDE DEF v
    <2> QED
      BY Zenon, <1>1, <2>2
  <1>4. Leads(a, 43, "at", v)
    BY RegWords DEF Leads, Follows, AtPlace
  <1>5. MayWrite(43, "at") /\ 43 \in Ordinary /\ "at" \in AllRegs
    BY RegWords DEF MayWrite, Ordinary
  <1> HIDE DEF v
  <1> QED
    BY Zenon, <1>1, <1>2, <1>4, <1>5, SetStep

LEMMA Place45 ==
  ASSUME NEW a, Ready(a), AtPlace(a, 45), NEW input, NEW e, e = Execute(a, Handler[46], input)
  PROVE  Handled(a, e)
  <1> DEFINE v == Upper(S2)
  <1>1. High(S2 - ShortValue(S2)) * H = v /\ v \in Words
    BY UppersAre
  <1>2. e = Set(a, "at", v)
    <2>1. Handler[46] = Instr("LUI", "zero", "at", "zero", High(S2 - ShortValue(S2)))
      BY HandlerIs
    <2>2. e = Set(a, "at", High(S2 - ShortValue(S2)) * H)
      BY <2>1, Values
    <2> HIDE DEF v
    <2> QED
      BY Zenon, <1>1, <2>2
  <1>4. Leads(a, 45, "at", v)
    BY RegWords DEF Leads, Follows, AtPlace
  <1>5. MayWrite(45, "at") /\ 45 \in Ordinary /\ "at" \in AllRegs
    BY RegWords DEF MayWrite, Ordinary
  <1> HIDE DEF v
  <1> QED
    BY Zenon, <1>1, <1>2, <1>4, <1>5, SetStep

LEMMA Place49 ==
  ASSUME NEW a, Ready(a), AtPlace(a, 49), NEW input, NEW e, e = Execute(a, Handler[50], input)
  PROVE  Handled(a, e)
  <1> DEFINE v == a.cp0.Status
  <1>1. a.cp0["Status"] = v /\ v \in Words
    BY RegWords
  <1>2. e = Set(a, "k0", v)
    <2>1. Handler[50] = Instr("MFC0", "zero", "k0", "zero", "Status")
      BY HandlerIs
    <2>2. e = Set(a, "k0", a.cp0["Status"])
      BY <2>1, Values
    <2> HIDE DEF v
    <2> QED
      BY Zenon, <1>1, <2>2
  <1>3. Second(a.cp0.Status) = 1
    BY SecondOfStatus
  <1>4. Leads(a, 49, "k0", v)
    BY RegWords, <1>3 DEF Leads, Follows, AtPlace
  <1>5. MayWrite(49, "k0") /\ 49 \in Ordinary /\ "k0" \in AllRegs
    BY RegWords DEF MayWrite, Ordinary
  <1> HIDE DEF v
  <1> QED
    BY Zenon, <1>1, <1>2, <1>4, <1>5, SetStep

LEMMA Place50 ==
  ASSUME NEW a, Ready(a), AtPlace(a, 50), NEW input, NEW e, e = Execute(a, Handler[51], input)
  PROVE  Handled(a, e)
  <1> DEFINE v == BitOr(a.R["k0"], 1)
  <1>1. BitOr(a.R["k0"], 1) = v /\ v \in Words
    BY RegWords, OrOne
  <1>2. e = Set(a, "k0", v)
    <2>1. Handler[51] = Instr("ORI", "k0", "k0", "zero", 1)
      BY HandlerIs
    <2>2. e = Set(a, "k0", BitOr(a.R["k0"], 1))
      BY <2>1, Values
    <2> HIDE DEF v
    <2> QED
      BY Zenon, <1>1, <2>2
  <1>3. Second(BitOr(a.R["k0"], 1)) = 1
    <2>1. Second(a.R["k0"]) = 1 /\ a.R["k0"] \in Words
      BY RegWords DEF AtPlace
    <2> QED
      BY <2>1, OrOne
  <1>4. Leads(a, 50, "k0", v)
    BY RegWords, <1>3 DEF Leads, Follows, AtPlace
  <1>5. MayWrite(50, "k0") /\ 50 \in Ordinary /\ "k0" \in AllRegs
    BY RegWords DEF MayWrite, Ordinary
  <1> HIDE DEF v
  <1> QED
    BY Zenon, <1>1, <1>2, <1>4, <1>5, SetStep

-----------------------------------------------------------------------------
(* Branches of the handler *)

\* The effect e goes on with the machine d at n.
Goes(e, d, n) ==
  /\ e.faults = <<>> /\ ~e.leave /\ MachOk(Onward(e))
  /\ Onward(e).R = d.R /\ Onward(e).hilo = d.hilo /\ Onward(e).cp0 = d.cp0 /\ Onward(e).mem = d.mem
  /\ Onward(e).PC = n

LEMMA QuietGoes ==
  ASSUME NEW d, MachOk(d), NEW n \in Words, NEW e, e = Quiet(d, n)
  PROVE  Goes(e, d, n)
  <1>1. Good(d, e)
    BY QuietGood
  <1>2. e.m = d /\ e.next = n /\ e.faults = <<>> /\ ~e.leave
    BY QuietIs
  <1> DEFINE b == Onward(e)
  <1>3. MachOk(b)
    BY <1>1, OnwardFits
  <1>4. b.R = e.m.R /\ b.hilo = e.m.hilo /\ b.cp0 = e.m.cp0 /\ b.mem = e.m.mem /\ b.PC = e.next
    BY <1>1, OnwardIs
  <1> HIDE DEF b
  <1> QED
    BY <1>2, <1>3, <1>4 DEF Goes, b

\* Where a branch over n instructions goes.
LEMMA PlacesOn ==
  ASSUME NEW a, NEW p, At(a, p), NEW k \in Nat, p + k <= 52
  PROVE  Word(a.PC + 4 * k) = EXCEPTION_ADDR + 4 * (p + k)
         /\ EXCEPTION_ADDR + 4 * (p + k) \in Words
  <1>1. EXCEPTION_ADDR + 4 * Len(Handler) <= K_DATA_BOT /\ Len(Handler) = 53
    BY CpuAssumption, HandlerLength
  <1>2. EXCEPTION_ADDR \in Nat /\ K_DATA_BOT \in Nat /\ W \in Nat /\ K_DATA_BOT <= W
    <2>1. EXCEPTION_ADDR \in Nat
      BY Layout
    <2> QED
      BY <2>1, KernelLayout
  <1>3. a.PC = EXCEPTION_ADDR + 4 * p /\ p \in 0 .. 52
    BY DEF At
  <1> DEFINE x == EXCEPTION_ADDR + 4 * (p + k)
  <1>4. a.PC + 4 * k = x /\ x \in 0 .. W - 1
    BY <1>1, <1>2, <1>3
  <1> HIDE DEF x
  <1>5. x \in Words
    BY Zenon, <1>4, WordsAre
  <1>6. Word(x) = x
    BY <1>5, WordSame
  <1> QED
    BY <1>4, <1>5, <1>6 DEF x

LEMMA DispIs ==
  ASSUME NEW n \in 0 .. 15
  PROVE  IDisp(n) = 4 * n
  <1>1. H \in Nat /\ H >= 128 /\ H = 2 * 2^(HalfBits - 1) /\ 2^(HalfBits - 1) \in Nat
    BY Tops
  <1> DEFINE x == 4 * SignedOf(n, HalfBits)
  <1>2. x \in 0 .. 60 /\ x = 4 * n
    <2>1. ~(n >= 2^(HalfBits - 1))
      BY <1>1
    <2> QED
      BY <2>1 DEF SignedOf
  <1> HIDE DEF x
  <1>3. x % H = x
    <2>1. x \in 0 .. H - 1 /\ H \in Nat \ {0}
      BY <1>1, <1>2
    <2> QED
      BY <2>1, ModSelf
  <1>4. Low(x) < 2^(HalfBits - 1)
    <2>1. x < 2^(HalfBits - 1)
      BY <1>1, <1>2
    <2> QED
      BY <1>3, <2>1 DEF Low, H
  <1> QED
    BY Zenon, <1>2, <1>4 DEF IDisp, x

LEMMA BranchesOn ==
  ASSUME NEW a, MachOk(a), NEW input, NEW op \in {"BEQ", "BNE"}, NEW rs, NEW rt, NEW rd, NEW x,
         NEW i, i = Instr(op, rs, rt, rd, x)
  PROVE  Execute(a, i, input) =
           Quiet(a, IF BranchTaken(op, a.R[rs], a.R[rt]) THEN Word(a.PC + IDisp(x))
                    ELSE Word(a.PC + BYTES_PER_WORD))
  <1>1. i.op = op /\ i.rs = rs /\ i.rt = rt /\ i.x = x
    BY InstrIs
  <1>2. Execute(a, i, input) = Branch(a, i)
    <2>1. i.op \in BranchOps
      BY <1>1 DEF BranchOps
    <2> QED
      BY <2>1, ExecuteIs
  <1> DEFINE linking == i.op \in {"BGEZAL", "BGEZALL", "BLTZAL", "BLTZALL"}
             linked == IF linking THEN [a EXCEPT !.R.ra = Word(a.PC + BYTES_PER_WORD)] ELSE a
             likely == i.op \in {"BEQL", "BNEL", "BGEZL", "BGTZL", "BLEZL", "BLTZL", "BGEZALL", "BLTZALL"}
             n(d, q) == IF BranchTaken(i.op, d.R[i.rs], d.R[i.rt]) THEN Word(a.PC + IDisp(i.x))
                        ELSE IF likely THEN Word(a.PC + 2 * BYTES_PER_WORD) ELSE q
  <1>3. ~likely /\ ~linking
    BY <1>1
  <1>4. Branch(a, i) = [Plain(linked) EXCEPT !.next = n(linked, @)]
    BY Zenon DEF Branch
  <1>5. linked = a
    BY Zenon, <1>3
  <1> DEFINE g == Word(a.PC + BYTES_PER_WORD)
             e == Plain(a)
  <1>6. e = Quiet(a, g)
    BY PlainIs
  <1>7. e.next = g
    BY <1>6, QuietIs
  <1>8. Branch(a, i) = [e EXCEPT !.next = n(a, @)]
    BY Zenon, <1>4, <1>5
  <1> HIDE DEF likely, linking, linked, e
  <1>9. Branch(a, i) = [e EXCEPT !.next = n(a, e.next)]
    <2> HIDE DEF n
    <2> QED
      BY <1>8
  <1>10. n(a, e.next) = (IF BranchTaken(op, a.R[rs], a.R[rt]) THEN Word(a.PC + IDisp(x)) ELSE g)
    BY Zenon, <1>1, <1>3, <1>7
  <1> HIDE DEF n, g
  <1>11. Branch(a, i) = Quiet(a, n(a, e.next))
    <2> DEFINE z == n(a, e.next)
    <2>1. Branch(a, i) = [e EXCEPT !.next = z]
      BY Zenon, <1>9
    <2> HIDE DEF z
    <2>2. [e EXCEPT !.next = z] = Quiet(a, z)
      BY <1>6, QuietNext
    <2> QED
      BY <2>1, <2>2 DEF z
  <1> QED
    BY Zenon, <1>2, <1>10, <1>11 DEF g

\* Places at which the program's registers are kept in the same way.
Agree(p, q) ==
  /\ p >= 43 <=> q >= 43
  /\ p \in 1 .. 47 <=> q \in 1 .. 47
  /\ p \in 3 .. 44 <=> q \in 3 .. 44
  /\ p \in 5 .. 46 <=> q \in 5 .. 46

\* A step that changes PC only is not seen between places at which the same is kept.
LEMMA StaySeen ==
  ASSUME NEW a, InHandler(a.cp0), NEW p, At(a, p), NEW b, NEW q, At(b, q), Agree(p, q),
         b.R = a.R, b.hilo = a.hilo, b.cp0.EPC = a.cp0.EPC, InHandler(b.cp0), b.mem = a.mem
  PROVE  Seen(a, b)
  <1>1. MemLike(a.mem, b.mem) /\ KeptIn(a, S1) = KeptIn(b, S1) /\ KeptIn(a, S2) = KeptIn(b, S2)
    BY DEF MemLike, KeptIn
  <1>2. /\ p >= 43 <=> q >= 43
        /\ p \in 1 .. 47 <=> q \in 1 .. 47
        /\ p \in 3 .. 44 <=> q \in 3 .. 44
        /\ p \in 5 .. 46 <=> q \in 5 .. 46
    BY DEF Agree
  <1>3. (IF p >= 43 THEN a.cp0.EPC ELSE Word(a.cp0.EPC + 4))
          = (IF q >= 43 THEN b.cp0.EPC ELSE Word(b.cp0.EPC + 4))
    BY Zenon, <1>2
  <1>4. (IF p \in 1 .. 47 THEN a.R.k1 ELSE a.R.at) = (IF q \in 1 .. 47 THEN b.R.k1 ELSE b.R.at)
    BY Zenon, <1>2
  <1>5. (IF p \in 3 .. 44 THEN KeptIn(a, S1) ELSE a.R.v0)
          = (IF q \in 3 .. 44 THEN KeptIn(b, S1) ELSE b.R.v0)
    BY Zenon, <1>1, <1>2
  <1>6. (IF p \in 5 .. 46 THEN KeptIn(a, S2) ELSE a.R.a0)
          = (IF q \in 5 .. 46 THEN KeptIn(b, S2) ELSE b.R.a0)
    BY Zenon, <1>1, <1>2
  <1>7. a.hilo = b.hilo /\ \A r \in UserRegs \ {"at", "v0", "a0"} : a.R[r] = b.R[r]
    OBVIOUS
  <1> QED
    BY <1>1, <1>3, <1>4, <1>5, <1>6, <1>7, SeenAt

-----------------------------------------------------------------------------
(* Its system calls, branches and delay slots *)

Remaining(a, q) == \A b : At(b, q) /\ b.R = a.R /\ b.cp0 = a.cp0 => AtPlace(b, q)

LEMMA StayStep ==
  ASSUME NEW a, Ready(a), NEW p, AtPlace(a, p), NEW q \in 0 .. 52, Agree(p, q), Remaining(a, q),
         NEW n \in Words, n = EXCEPTION_ADDR + 4 * q, NEW e, e = Quiet(a, n)
  PROVE  Handled(a, e)
  <1> DEFINE b == Onward(e)
  <1>1. MachOk(a) /\ InHandler(a.cp0) /\ At(a, p)
    BY DEF Ready, AtPlace
  <1>2. Goes(e, a, n)
    BY <1>1, QuietGoes
  <1>3. /\ e.faults = <<>> /\ ~e.leave /\ MachOk(b)
        /\ b.R = a.R /\ b.hilo = a.hilo /\ b.cp0 = a.cp0 /\ b.mem = a.mem /\ b.PC = n
    BY <1>2 DEF Goes
  <1> HIDE DEF b
  <1>4. At(b, q)
    BY <1>3 DEF At
  <1>5. Seen(a, b)
    BY <1>1, <1>3, <1>4, StaySeen
  <1>6. AtPlace(b, q)
    BY <1>3, <1>4 DEF Remaining
  <1> QED
    BY <1>3, <1>5, <1>6 DEF Handled, b

LEMMA SystemCallsOn ==
  ASSUME NEW a, NEW input, a.R.v0 \in {1, 4}, NEW i, i = Instr("SYSCALL", "zero", "zero", "zero", 0)
  PROVE  Execute(a, i, input) = Quiet(a, Word(a.PC + BYTES_PER_WORD))
  <1>1. Execute(a, i, input) = SystemCall(a, input)
    <2>1. i.op = "SYSCALL"
      BY InstrIs
    <2> QED
      BY <2>1, ExecuteIs
  <1>2. SystemCall(a, input) = Plain(a)
    BY DEF SystemCall, ExitCalls, ReadNumber, ReadCharacter, SbrkCall
  <1> QED
    BY <1>1, <1>2, PlainIs

LEMMA OnePlace ==
  ASSUME NEW a, NEW p, At(a, p), NEW q, q = p + 1, q <= 52
  PROVE  Word(a.PC + BYTES_PER_WORD) = EXCEPTION_ADDR + 4 * q /\ EXCEPTION_ADDR + 4 * q \in Words
  <1> DEFINE k == 1
  <1>1. k \in Nat /\ p + k = q /\ 4 * k = BYTES_PER_WORD /\ p \in Int
    BY DEF At, BYTES_PER_WORD
  <1> HIDE DEF k
  <1>2. p + k <= 52
    BY <1>1
  <1>3. Word(a.PC + 4 * k) = EXCEPTION_ADDR + 4 * (p + k) /\ EXCEPTION_ADDR + 4 * (p + k) \in Words
    BY <1>1, <1>2, PlacesOn
  <1> QED
    BY Zenon, <1>1, <1>3

LEMMA Place11 ==
  ASSUME NEW a, Ready(a), AtPlace(a, 11), NEW input, NEW e, e = Execute(a, Handler[12], input)
  PROVE  Handled(a, e)
  <1> DEFINE n == EXCEPTION_ADDR + 4 * 12
  <1>1. e = Quiet(a, n) /\ n \in Words
    <2>1. Handler[12] = Instr("SYSCALL", "zero", "zero", "zero", 0)
      BY HandlerIs
    <2>2. a.R.v0 \in {1, 4} /\ At(a, 11)
      BY DEF AtPlace
    <2>3. e = Quiet(a, Word(a.PC + BYTES_PER_WORD))
      BY <2>1, <2>2, SystemCallsOn
    <2>4. 12 = 11 + 1 /\ 12 <= 52
      OBVIOUS
    <2> QED
      BY <2>2, <2>3, <2>4, OnePlace
  <1>2. Remaining(a, 12)
    BY DEF Remaining, AtPlace
  <1>3. Agree(11, 12) /\ 12 \in 0 .. 52
    BY DEF Agree
  <1> HIDE DEF n
  <1>4. n = EXCEPTION_ADDR + 4 * 12
    BY DEF n
  <1> QED
    BY Zenon, <1>1, <1>2, <1>3, <1>4, StayStep

LEMMA Place15 ==
  ASSUME NEW a, Ready(a), AtPlace(a, 15), NEW input, NEW e, e = Execute(a, Handler[16], input)
  PROVE  Handled(a, e)
  <1> DEFINE n == EXCEPTION_ADDR + 4 * 16
  <1>1. e = Quiet(a, n) /\ n \in Words
    <2>1. Handler[16] = Instr("SYSCALL", "zero", "zero", "zero", 0)
      BY HandlerIs
    <2>2. a.R.v0 \in {1, 4} /\ At(a, 15)
      BY DEF AtPlace
    <2>3. e = Quiet(a, Word(a.PC + BYTES_PER_WORD))
      BY <2>1, <2>2, SystemCallsOn
    <2>4. 16 = 15 + 1 /\ 16 <= 52
      OBVIOUS
    <2> QED
      BY <2>2, <2>3, <2>4, OnePlace
  <1>2. Remaining(a, 16)
    BY DEF Remaining, AtPlace
  <1>3. Agree(15, 16) /\ 16 \in 0 .. 52
    BY DEF Agree
  <1> HIDE DEF n
  <1>4. n = EXCEPTION_ADDR + 4 * 16
    BY DEF n
  <1> QED
    BY Zenon, <1>1, <1>2, <1>3, <1>4, StayStep

LEMMA Place22 ==
  ASSUME NEW a, Ready(a), AtPlace(a, 22), NEW input, NEW e, e = Execute(a, Handler[23], input)
  PROVE  Handled(a, e)
  <1> DEFINE n == EXCEPTION_ADDR + 4 * 23
  <1>1. e = Quiet(a, n) /\ n \in Words
    <2>1. Handler[23] = Instr("SYSCALL", "zero", "zero", "zero", 0)
      BY HandlerIs
    <2>2. a.R.v0 \in {1, 4} /\ At(a, 22)
      BY DEF AtPlace
    <2>3. e = Quiet(a, Word(a.PC + BYTES_PER_WORD))
      BY <2>1, <2>2, SystemCallsOn
    <2>4. 23 = 22 + 1 /\ 23 <= 52
      OBVIOUS
    <2> QED
      BY <2>2, <2>3, <2>4, OnePlace
  <1>2. Remaining(a, 23)
    BY DEF Remaining, AtPlace
  <1>3. Agree(22, 23) /\ 23 \in 0 .. 52
    BY DEF Agree
  <1> HIDE DEF n
  <1>4. n = EXCEPTION_ADDR + 4 * 23
    BY DEF n
  <1> QED
    BY Zenon, <1>1, <1>2, <1>3, <1>4, StayStep

LEMMA Place35 ==
  ASSUME NEW a, Ready(a), AtPlace(a, 35), NEW input, NEW e, e = Execute(a, Handler[36], input)
  PROVE  Handled(a, e)
  <1> DEFINE n == EXCEPTION_ADDR + 4 * 36
  <1>1. e = Quiet(a, n) /\ n \in Words
    <2>1. Handler[36] = Instr("SYSCALL", "zero", "zero", "zero", 0)
      BY HandlerIs
    <2>2. a.R.v0 \in {1, 4} /\ At(a, 35)
      BY DEF AtPlace
    <2>3. e = Quiet(a, Word(a.PC + BYTES_PER_WORD))
      BY <2>1, <2>2, SystemCallsOn
    <2>4. 36 = 35 + 1 /\ 36 <= 52
      OBVIOUS
    <2> QED
      BY <2>2, <2>3, <2>4, OnePlace
  <1>2. Remaining(a, 36)
    BY DEF Remaining, AtPlace
  <1>3. Agree(35, 36) /\ 36 \in 0 .. 52
    BY DEF Agree
  <1> HIDE DEF n
  <1>4. n = EXCEPTION_ADDR + 4 * 36
    BY DEF n
  <1> QED
    BY Zenon, <1>1, <1>2, <1>3, <1>4, StayStep

LEMMA Place24 ==
  ASSUME NEW a, Ready(a), AtPlace(a, 24), NEW input, NEW e, e = Execute(a, Handler[25], input)
  PROVE  Handled(a, e)
  <1> DEFINE near == EXCEPTION_ADDR + 4 * 25
             far == EXCEPTION_ADDR + 4 * 32
  <1>1. MachOk(a) /\ At(a, 24)
    BY DEF Ready, AtPlace
  <1>2. e = Quiet(a, IF BranchTaken("BNE", a.R["k0"], a.R["at"]) THEN Word(a.PC + IDisp(7 + 1))
                     ELSE Word(a.PC + BYTES_PER_WORD))
    <2>1. Handler[25] = Instr("BNE", "k0", "at", "zero", 7 + 1)
      BY HandlerIs
    <2>2. "BNE" \in {"BEQ", "BNE"}
      OBVIOUS
    <2> QED
      BY <1>1, <2>1, <2>2, BranchesOn
  <1>3. Word(a.PC + BYTES_PER_WORD) = near /\ near \in Words
    <2>1. 25 = 24 + 1 /\ 25 <= 52
      OBVIOUS
    <2> QED
      BY <1>1, <2>1, OnePlace
  <1>4. Word(a.PC + IDisp(7 + 1)) = far /\ far \in Words
    <2> DEFINE k == 8
               p == 24
    <2>1. k \in 0 .. 15 /\ k = 7 + 1 /\ p + k = 32 /\ p + k <= 52 /\ At(a, p)
      BY <1>1
    <2> HIDE DEF k, p
    <2>2. IDisp(k) = 4 * k
      BY <2>1, DispIs
    <2>3. /\ Word(a.PC + 4 * k) = EXCEPTION_ADDR + 4 * (p + k)
          /\ EXCEPTION_ADDR + 4 * (p + k) \in Words
      BY <2>1, PlacesOn
    <2> QED
      BY <2>1, <2>2, <2>3
  <1>5. Remaining(a, 25) /\ Agree(24, 25) /\ 25 \in 0 .. 52
    BY DEF Remaining, AtPlace, Agree
  <1>6. Remaining(a, 32) /\ Agree(24, 32) /\ 32 \in 0 .. 52
    BY DEF Remaining, AtPlace, Agree
  <1>7. near = EXCEPTION_ADDR + 4 * 25 /\ far = EXCEPTION_ADDR + 4 * 32
    OBVIOUS
  <1> HIDE DEF near, far
  <1>8. e = Quiet(a, far) \/ e = Quiet(a, near)
    BY Zenon, <1>2, <1>3, <1>4
  <1>9. CASE e = Quiet(a, near)
    BY Zenon, <1>3, <1>5, <1>7, <1>9, StayStep
  <1>10. CASE e = Quiet(a, far)
    BY Zenon, <1>4, <1>6, <1>7, <1>10, StayStep
  <1> QED
    BY <1>8, <1>9, <1>10

LEMMA Place28 ==
  ASSUME NEW a, Ready(a), AtPlace(a, 28), NEW input, NEW e, e = Execute(a, Handler[29], input)
  PROVE  Handled(a, e)
  <1> DEFINE near == EXCEPTION_ADDR + 4 * 29
             far == EXCEPTION_ADDR + 4 * 32
  <1>1. MachOk(a) /\ At(a, 28)
    BY DEF Ready, AtPlace
  <1>2. e = Quiet(a, IF BranchTaken("BEQ", a.R["a0"], a.R["zero"]) THEN Word(a.PC + IDisp(3 + 1))
                     ELSE Word(a.PC + BYTES_PER_WORD))
    <2>1. Handler[29] = Instr("BEQ", "a0", "zero", "zero", 3 + 1)
      BY HandlerIs
    <2>2. "BEQ" \in {"BEQ", "BNE"}
      OBVIOUS
    <2> QED
      BY <1>1, <2>1, <2>2, BranchesOn
  <1>3. Word(a.PC + BYTES_PER_WORD) = near /\ near \in Words
    <2>1. 29 = 28 + 1 /\ 29 <= 52
      OBVIOUS
    <2> QED
      BY <1>1, <2>1, OnePlace
  <1>4. Word(a.PC + IDisp(3 + 1)) = far /\ far \in Words
    <2> DEFINE k == 4
               p == 28
    <2>1. k \in 0 .. 15 /\ k = 3 + 1 /\ p + k = 32 /\ p + k <= 52 /\ At(a, p)
      BY <1>1
    <2> HIDE DEF k, p
    <2>2. IDisp(k) = 4 * k
      BY <2>1, DispIs
    <2>3. /\ Word(a.PC + 4 * k) = EXCEPTION_ADDR + 4 * (p + k)
          /\ EXCEPTION_ADDR + 4 * (p + k) \in Words
      BY <2>1, PlacesOn
    <2> QED
      BY <2>1, <2>2, <2>3
  <1>5. BranchTaken("BEQ", a.R["a0"], a.R["zero"])
    <2>1. a.R["a0"] = 0 /\ a.R["zero"] = 0
      BY RegWords DEF AtPlace
    <2> QED
      BY <2>1 DEF BranchTaken
  <1>6. Remaining(a, 32) /\ Agree(28, 32) /\ 32 \in 0 .. 52
    BY DEF Remaining, AtPlace, Agree
  <1>7. near = EXCEPTION_ADDR + 4 * 29 /\ far = EXCEPTION_ADDR + 4 * 32
    OBVIOUS
  <1> HIDE DEF near, far
  <1>8. e = Quiet(a, far)
    BY Zenon, <1>2, <1>4, <1>5
  <1> QED
    BY Zenon, <1>4, <1>6, <1>7, <1>8, StayStep

LEMMA Place38 ==
  ASSUME NEW a, Ready(a), AtPlace(a, 38), NEW input, NEW e, e = Execute(a, Handler[39], input)
  PROVE  Handled(a, e)
  <1> DEFINE near == EXCEPTION_ADDR + 4 * 39
             far == EXCEPTION_ADDR + 4 * 40
  <1>1. MachOk(a) /\ At(a, 38)
    BY DEF Ready, AtPlace
  <1>2. e = Quiet(a, IF BranchTaken("BNE", a.R["a0"], a.R["zero"]) THEN Word(a.PC + IDisp(1 + 1))
                     ELSE Word(a.PC + BYTES_PER_WORD))
    <2>1. Handler[39] = Instr("BNE", "a0", "zero", "zero", 1 + 1)
      BY HandlerIs
    <2>2. "BNE" \in {"BEQ", "BNE"}
      OBVIOUS
    <2> QED
      BY <1>1, <2>1, <2>2, BranchesOn
  <1>3. Word(a.PC + BYTES_PER_WORD) = near /\ near \in Words
    <2>1. 39 = 38 + 1 /\ 39 <= 52
      OBVIOUS
    <2> QED
      BY <1>1, <2>1, OnePlace
  <1>4. Word(a.PC + IDisp(1 + 1)) = far /\ far \in Words
    <2> DEFINE k == 2
               p == 38
    <2>1. k \in 0 .. 15 /\ k = 1 + 1 /\ p + k = 40 /\ p + k <= 52 /\ At(a, p)
      BY <1>1
    <2> HIDE DEF k, p
    <2>2. IDisp(k) = 4 * k
      BY <2>1, DispIs
    <2>3. /\ Word(a.PC + 4 * k) = EXCEPTION_ADDR + 4 * (p + k)
          /\ EXCEPTION_ADDR + 4 * (p + k) \in Words
      BY <2>1, PlacesOn
    <2> QED
      BY <2>1, <2>2, <2>3
  <1>5. Remaining(a, 39) /\ Agree(38, 39) /\ 39 \in 0 .. 52
    BY DEF Remaining, AtPlace, Agree
  <1>6. Remaining(a, 40) /\ Agree(38, 40) /\ 40 \in 0 .. 52
    BY DEF Remaining, AtPlace, Agree
  <1>7. near = EXCEPTION_ADDR + 4 * 39 /\ far = EXCEPTION_ADDR + 4 * 40
    OBVIOUS
  <1> HIDE DEF near, far
  <1>8. e = Quiet(a, far) \/ e = Quiet(a, near)
    BY Zenon, <1>2, <1>3, <1>4
  <1>9. CASE e = Quiet(a, near)
    BY Zenon, <1>3, <1>5, <1>7, <1>9, StayStep
  <1>10. CASE e = Quiet(a, far)
    BY Zenon, <1>4, <1>6, <1>7, <1>10, StayStep
  <1> QED
    BY <1>8, <1>9, <1>10

-----------------------------------------------------------------------------
(* What it keeps and gives back *)

\* A register is set where the view of the program moves.
Moved(a, p, b, r, v) ==
  /\ At(a, p) /\ InHandler(a.cp0) /\ At(b, p + 1) /\ InHandler(b.cp0)
  /\ b.hilo = a.hilo /\ b.cp0 = a.cp0 /\ b.mem = a.mem /\ b.R[r] = v
  /\ \A x \in AllRegs : x # r => b.R[x] = a.R[x]

LEMMA SetMoves ==
  ASSUME NEW a, Ready(a), NEW p \in 0 .. 51, AtPlace(a, p), NEW r \in AllRegs, NEW v \in Words,
         NEW e, e = Set(a, r, v)
  PROVE  /\ e.faults = <<>> /\ ~e.leave /\ MachOk(Onward(e))
         /\ Moved(a, p, Onward(e), r, v)
  <1> DEFINE b == Onward(e)
  <1>1. MachOk(a) /\ InHandler(a.cp0) /\ At(a, p)
    BY DEF Ready, AtPlace
  <1>2. /\ e.faults = <<>> /\ ~e.leave
        /\ b.PC = EXCEPTION_ADDR + 4 * (p + 1)
        /\ b.cp0 = a.cp0 /\ b.hilo = a.hilo /\ b.mem = a.mem
        /\ b.R[r] = v /\ \A x \in AllRegs : x # r => b.R[x] = a.R[x]
    BY <1>1, SetOnward
  <1>3. MachOk(b)
    BY <1>1, SetOnwardFits
  <1> HIDE DEF b
  <1>4. At(b, p + 1)
    BY <1>2 DEF At
  <1> QED
    BY <1>1, <1>2, <1>3, <1>4 DEF Moved, b

LEMMA MovedMemory ==
  ASSUME NEW a, NEW p, NEW b, NEW r, NEW v, Moved(a, p, b, r, v)
  PROVE  MemLike(a.mem, b.mem) /\ KeptIn(a, S1) = KeptIn(b, S1) /\ KeptIn(a, S2) = KeptIn(b, S2)
  BY DEF Moved, MemLike, KeptIn

LEMMA SlotFits ==
  ASSUME NEW a, Ready(a), NEW x \in Nat, InKernelData(x), x % 4 = 0, x \in Words
  PROVE  KeptIn(a, x) \in Words /\ KeptIn(a, x) = Word(Fetch(a.mem.k_data, x - K_DATA_BOT, 4))
  <1>1. MemOk(a.mem) /\ Apart(a.mem)
    BY MachParts DEF Ready
  <1>2. ReadMem(a.mem, x, 4).value = Word(Fetch(a.mem.k_data, x - K_DATA_BOT, 4))
    BY <1>1, ReadKernel
  <1>3. ReadMem(a.mem, x, 4).value \in Words
    <2> DEFINE n == 4
    <2>1. n \in Sizes
      BY DEF Sizes
    <2> HIDE DEF n
    <2>2. ReadMem(a.mem, x, n).value \in Words
      BY <1>1, <2>1, ReadFits
    <2> QED
      BY <2>2 DEF n
  <1> QED
    BY <1>2, <1>3 DEF KeptIn, BYTES_PER_WORD

LEMMA AddressIs ==
  ASSUME NEW a, NEW op, NEW rt, NEW x, NEW i, i = Instr(op, "at", rt, "zero", Low(x))
  PROVE  EffectiveAddress(a, i) = Word(a.R["at"] + Imm(Low(x))) /\ i.op = op /\ i.rt = rt
  BY InstrIs DEF EffectiveAddress

LEMMA Place0 ==
  ASSUME NEW a, Ready(a), AtPlace(a, 0), NEW input, NEW e, e = Execute(a, Handler[1], input)
  PROVE  Handled(a, e)
  <1> DEFINE v == a.R["at"]
             b == Onward(e)
  <1>1. v \in Words /\ v \in Int /\ Word(0 + v) = v /\ "k1" \in AllRegs
    <2>1. v \in Words /\ "k1" \in AllRegs
      BY RegWords
    <2>2. v \in Int /\ 0 + v = v
      BY <2>1, WordsAre
    <2> HIDE DEF v
    <2> QED
      BY <2>1, <2>2, WordSame
  <1>2. e = Set(a, "k1", v)
    <2>1. Handler[1] = Instr("ADDU", "zero", "at", "k1", 0)
      BY HandlerIs
    <2>2. e = Set(a, "k1", Word(a.R["zero"] + v))
      BY <2>1, Values
    <2>3. a.R["zero"] = 0
      BY RegWords
    <2> HIDE DEF v
    <2> QED
      BY Zenon, <1>1, <2>2, <2>3
  <1> HIDE DEF v, b
  <1>3. 0 \in 0 .. 51
    OBVIOUS
  <1>4. e.faults = <<>> /\ ~e.leave /\ MachOk(b) /\ Moved(a, 0, b, "k1", v)
    BY <1>1, <1>2, <1>3, SetMoves DEF b
  <1>5. /\ At(a, 0) /\ InHandler(a.cp0) /\ At(b, 1) /\ InHandler(b.cp0)
        /\ b.hilo = a.hilo /\ b.cp0 = a.cp0 /\ b.R["k1"] = v
        /\ \A x \in AllRegs : x # "k1" => b.R[x] = a.R[x]
    BY <1>4 DEF Moved
  <1>6. MemLike(a.mem, b.mem) /\ KeptIn(a, S1) = KeptIn(b, S1) /\ KeptIn(a, S2) = KeptIn(b, S2)
    BY <1>4, MovedMemory
  <1>7. Seen(a, b)
    <2>1. b.R.v0 = a.R.v0 /\ b.R.a0 = a.R.a0 /\ \A r \in UserRegs \ {"at", "v0", "a0"} : a.R[r] = b.R[r]
      BY <1>5, RegistersAre
    <2>2. v = a.R.at /\ b.R.k1 = v
      BY <1>5 DEF v
    <2> QED
      BY <1>5, <1>6, <2>1, <2>2, SeenAt
  <1>8. AtPlace(b, 1)
    BY <1>5 DEF AtPlace
  <1> QED
    BY <1>4, <1>7, <1>8 DEF Handled, b

LEMMA Place47 ==
  ASSUME NEW a, Ready(a), AtPlace(a, 47), NEW input, NEW e, e = Execute(a, Handler[48], input)
  PROVE  Handled(a, e)
  <1> DEFINE v == a.R["k1"]
             b == Onward(e)
  <1>1. v \in Words /\ v \in Int /\ Word(0 + v) = v /\ "at" \in AllRegs
    <2>1. v \in Words /\ "at" \in AllRegs
      BY RegWords
    <2>2. v \in Int /\ 0 + v = v
      BY <2>1, WordsAre
    <2> HIDE DEF v
    <2> QED
      BY <2>1, <2>2, WordSame
  <1>2. e = Set(a, "at", v)
    <2>1. Handler[48] = Instr("ADDU", "zero", "k1", "at", 0)
      BY HandlerIs
    <2>2. e = Set(a, "at", Word(a.R["zero"] + v))
      BY <2>1, Values
    <2>3. a.R["zero"] = 0
      BY RegWords
    <2> HIDE DEF v
    <2> QED
      BY Zenon, <1>1, <2>2, <2>3
  <1> HIDE DEF v, b
  <1>3. 47 \in 0 .. 51
    OBVIOUS
  <1>4. e.faults = <<>> /\ ~e.leave /\ MachOk(b) /\ Moved(a, 47, b, "at", v)
    BY <1>1, <1>2, <1>3, SetMoves DEF b
  <1>5. /\ At(a, 47) /\ InHandler(a.cp0) /\ At(b, 48) /\ InHandler(b.cp0)
        /\ b.hilo = a.hilo /\ b.cp0 = a.cp0 /\ b.R["at"] = v
        /\ \A x \in AllRegs : x # "at" => b.R[x] = a.R[x]
    BY <1>4 DEF Moved
  <1>6. MemLike(a.mem, b.mem) /\ KeptIn(a, S1) = KeptIn(b, S1) /\ KeptIn(a, S2) = KeptIn(b, S2)
    BY <1>4, MovedMemory
  <1>7. Seen(a, b)
    <2>1. b.R.v0 = a.R.v0 /\ b.R.a0 = a.R.a0 /\ \A r \in UserRegs \ {"at", "v0", "a0"} : a.R[r] = b.R[r]
      BY <1>5, RegistersAre
    <2>2. v = a.R.k1 /\ b.R.at = v
      BY <1>5 DEF v
    <2> QED
      BY <1>5, <1>6, <2>1, <2>2, SeenAt
  <1>8. AtPlace(b, 48)
    BY <1>5 DEF AtPlace
  <1> QED
    BY <1>4, <1>7, <1>8 DEF Handled, b

LEMMA Place44 ==
  ASSUME NEW a, Ready(a), AtPlace(a, 44), NEW input, NEW e, e = Execute(a, Handler[45], input)
  PROVE  Handled(a, e)
  <1> DEFINE v == KeptIn(a, S1)
             b == Onward(e)
  <1>1. v \in Words /\ v = Word(Fetch(a.mem.k_data, S1 - K_DATA_BOT, 4)) /\ "v0" \in AllRegs
        /\ S1 \in Int /\ InKernelData(S1) /\ S1 % 4 = 0
    <2>1. S1 \in Nat /\ InKernelData(S1) /\ S1 % 4 = 0 /\ S1 \in Words
      BY Slots
    <2>2. v \in Words /\ v = Word(Fetch(a.mem.k_data, S1 - K_DATA_BOT, 4))
      BY <2>1, SlotFits
    <2> QED
      BY <2>1, <2>2, RegWords
  <1>2. e = Set(a, "v0", v)
    <2> DEFINE i == Handler[45]
    <2>1. i = Instr("LW", "at", "v0", "zero", Low(S1))
      BY HandlerIs
    <2>2. EffectiveAddress(a, i) = Word(a.R["at"] + Imm(Low(S1))) /\ i.op = "LW" /\ i.rt = "v0"
      BY <2>1, AddressIs
    <2>3. a.R["at"] = Upper(S1)
      BY DEF AtPlace
    <2>4. Word(Upper(S1) + Imm(Low(S1))) = S1
      BY UppersAre
    <2>5. EffectiveAddress(a, i) = S1
      BY Zenon, <2>2, <2>3, <2>4
    <2>6. MachOk(a) /\ Apart(a.mem) /\ i.rt \in AllRegs
      BY <1>1, <2>2 DEF Ready
    <2> HIDE DEF i, v
    <2>7. Execute(a, i, input) = Set(a, i.rt, Word(Fetch(a.mem.k_data, S1 - K_DATA_BOT, 4)))
      BY <1>1, <2>2, <2>5, <2>6, LoadIs
    <2> QED
      BY <1>1, <2>2, <2>7 DEF i
  <1> HIDE DEF v, b
  <1>3. 44 \in 0 .. 51
    OBVIOUS
  <1>4. e.faults = <<>> /\ ~e.leave /\ MachOk(b) /\ Moved(a, 44, b, "v0", v)
    BY <1>1, <1>2, <1>3, SetMoves DEF b
  <1>5. /\ At(a, 44) /\ InHandler(a.cp0) /\ At(b, 45) /\ InHandler(b.cp0)
        /\ b.hilo = a.hilo /\ b.cp0 = a.cp0 /\ b.R["v0"] = v
        /\ \A x \in AllRegs : x # "v0" => b.R[x] = a.R[x]
    BY <1>4 DEF Moved
  <1>6. MemLike(a.mem, b.mem) /\ KeptIn(a, S1) = KeptIn(b, S1) /\ KeptIn(a, S2) = KeptIn(b, S2)
    BY <1>4, MovedMemory
  <1>7. Seen(a, b)
    <2>1. (\A x \in {"v0", "a0", "k1"} \ {"v0"} : b.R[x] = a.R[x])
          /\ \A x \in UserRegs \ {"at", "v0", "a0"} : a.R[x] = b.R[x]
      BY <1>5, RegistersAre
    <2>2. b.R.v0 = KeptIn(a, S1) /\ b.R.k1 = a.R.k1
      BY <1>5, <2>1 DEF v
    <2>3. b.R.a0 = a.R.a0
      BY <2>1
    <2> QED
      BY <1>5, <1>6, <2>1, <2>2, <2>3, SeenAt
  <1>8. AtPlace(b, 45)
    BY <1>5 DEF AtPlace
  <1> QED
    BY <1>4, <1>7, <1>8 DEF Handled, b

LEMMA Place46 ==
  ASSUME NEW a, Ready(a), AtPlace(a, 46), NEW input, NEW e, e = Execute(a, Handler[47], input)
  PROVE  Handled(a, e)
  <1> DEFINE v == KeptIn(a, S2)
             b == Onward(e)
  <1>1. v \in Words /\ v = Word(Fetch(a.mem.k_data, S2 - K_DATA_BOT, 4)) /\ "a0" \in AllRegs
        /\ S2 \in Int /\ InKernelData(S2) /\ S2 % 4 = 0
    <2>1. S2 \in Nat /\ InKernelData(S2) /\ S2 % 4 = 0 /\ S2 \in Words
      BY Slots
    <2>2. v \in Words /\ v = Word(Fetch(a.mem.k_data, S2 - K_DATA_BOT, 4))
      BY <2>1, SlotFits
    <2> QED
      BY <2>1, <2>2, RegWords
  <1>2. e = Set(a, "a0", v)
    <2> DEFINE i == Handler[47]
    <2>1. i = Instr("LW", "at", "a0", "zero", Low(S2))
      BY HandlerIs
    <2>2. EffectiveAddress(a, i) = Word(a.R["at"] + Imm(Low(S2))) /\ i.op = "LW" /\ i.rt = "a0"
      BY <2>1, AddressIs
    <2>3. a.R["at"] = Upper(S2)
      BY DEF AtPlace
    <2>4. Word(Upper(S2) + Imm(Low(S2))) = S2
      BY UppersAre
    <2>5. EffectiveAddress(a, i) = S2
      BY Zenon, <2>2, <2>3, <2>4
    <2>6. MachOk(a) /\ Apart(a.mem) /\ i.rt \in AllRegs
      BY <1>1, <2>2 DEF Ready
    <2> HIDE DEF i, v
    <2>7. Execute(a, i, input) = Set(a, i.rt, Word(Fetch(a.mem.k_data, S2 - K_DATA_BOT, 4)))
      BY <1>1, <2>2, <2>5, <2>6, LoadIs
    <2> QED
      BY <1>1, <2>2, <2>7 DEF i
  <1> HIDE DEF v, b
  <1>3. 46 \in 0 .. 51
    OBVIOUS
  <1>4. e.faults = <<>> /\ ~e.leave /\ MachOk(b) /\ Moved(a, 46, b, "a0", v)
    BY <1>1, <1>2, <1>3, SetMoves DEF b
  <1>5. /\ At(a, 46) /\ InHandler(a.cp0) /\ At(b, 47) /\ InHandler(b.cp0)
        /\ b.hilo = a.hilo /\ b.cp0 = a.cp0 /\ b.R["a0"] = v
        /\ \A x \in AllRegs : x # "a0" => b.R[x] = a.R[x]
    BY <1>4 DEF Moved
  <1>6. MemLike(a.mem, b.mem) /\ KeptIn(a, S1) = KeptIn(b, S1) /\ KeptIn(a, S2) = KeptIn(b, S2)
    BY <1>4, MovedMemory
  <1>7. Seen(a, b)
    <2>1. (\A x \in {"v0", "a0", "k1"} \ {"a0"} : b.R[x] = a.R[x])
          /\ \A x \in UserRegs \ {"at", "v0", "a0"} : a.R[x] = b.R[x]
      BY <1>5, RegistersAre
    <2>2. b.R.a0 = KeptIn(a, S2) /\ b.R.k1 = a.R.k1
      BY <1>5, <2>1 DEF v
    <2>3. b.R.v0 = a.R.v0
      BY <2>1
    <2> QED
      BY <1>5, <1>6, <2>1, <2>2, <2>3, SeenAt
  <1>8. AtPlace(b, 47)
    BY <1>5 DEF AtPlace
  <1> QED
    BY <1>4, <1>7, <1>8 DEF Handled, b

LEMMA Place2 ==
  ASSUME NEW a, Ready(a), AtPlace(a, 2), NEW input, NEW e, e = Execute(a, Handler[3], input)
  PROVE  Handled(a, e)
  <1> DEFINE v == a.R["v0"]
             r == SetMem(a.mem, S1, v, 4)
             d == [a EXCEPT !.mem = r.mem]
             n == EXCEPTION_ADDR + 4 * 3
             b == Onward(e)
  <1>1. MachOk(a) /\ InHandler(a.cp0) /\ Apart(a.mem) /\ At(a, 2) /\ MemOk(a.mem) /\ v \in Words
    BY RegWords, MachParts DEF Ready, AtPlace
  <1>2. Word(a.PC + BYTES_PER_WORD) = n /\ n \in Words
    <2>1. 3 = 2 + 1 /\ 3 <= 52
      OBVIOUS
    <2> QED
      BY <1>1, <2>1, OnePlace
  <1> HIDE DEF n
  <1>3. e = Quiet(d, n)
    <2> DEFINE i == Handler[3]
    <2>1. i = Instr("SW", "at", "v0", "zero", Low(S1))
      BY HandlerIs
    <2>2. EffectiveAddress(a, i) = Word(a.R["at"] + Imm(Low(S1))) /\ i.op = "SW" /\ i.rt = "v0"
      BY <2>1, AddressIs
    <2>3. a.R["at"] = Upper(S1)
      BY DEF AtPlace
    <2>4. Word(Upper(S1) + Imm(Low(S1))) = S1
      BY UppersAre
    <2>5. EffectiveAddress(a, i) = S1
      BY Zenon, <2>2, <2>3, <2>4
    <2>6. i.rt \in AllRegs /\ S1 \in {S1, S2}
      BY <2>2, RegWords
    <2> HIDE DEF i
    <2>7. Execute(a, i, input) = Quiet([a EXCEPT !.mem = SetMem(a.mem, S1, a.R[i.rt], 4).mem],
                                       Word(a.PC + BYTES_PER_WORD))
      BY <1>1, <2>2, <2>5, <2>6, StoreIs
    <2> QED
      BY Zenon, <1>2, <2>2, <2>7 DEF i
  <1>4. /\ MemLike(a.mem, r.mem) /\ Fetch(r.mem.k_data, S1 - K_DATA_BOT, 4) = v
        /\ Fetch(r.mem.k_data, S2 - K_DATA_BOT, 4) = Fetch(a.mem.k_data, S2 - K_DATA_BOT, 4)
    <2>1. S2 # S1 /\ S1 \in {S1, S2} /\ S2 \in {S1, S2}
      BY KernelLayout DEF S1, S2
    <2> HIDE DEF v
    <2> QED
      BY <1>1, <2>1, StoreSlot
  <1>5. MemOk(r.mem)
    <2> DEFINE w == 4
    <2>1. w \in Sizes /\ S1 \in Words
      BY Slots DEF Sizes
    <2> HIDE DEF w, v
    <2>2. MemOk(SetMem(a.mem, S1, v, w).mem)
      BY <1>1, <2>1, WriteFits
    <2> QED
      BY <2>2 DEF w
  <1> HIDE DEF r
  <1>6. d.R = a.R /\ d.hilo = a.hilo /\ d.cp0 = a.cp0 /\ d.mem = r.mem
    BY <1>1, WithMem
  <1>7. MachOk(d)
    BY <1>1, <1>5, WithMemFits
  <1> HIDE DEF d
  <1>8. /\ e.faults = <<>> /\ ~e.leave /\ MachOk(b)
        /\ b.R = a.R /\ b.hilo = a.hilo /\ b.cp0 = a.cp0 /\ b.mem = r.mem /\ b.PC = n
    <2>1. Goes(e, d, n)
      BY <1>2, <1>3, <1>7, QuietGoes
    <2> QED
      BY Zenon, <1>6, <2>1 DEF Goes
  <1> HIDE DEF b
  <1>9. At(b, 3) /\ InHandler(b.cp0)
    BY <1>1, <1>8 DEF At, n
  <1>10. KeptIn(b, S1) = a.R.v0 /\ KeptIn(b, S2) = KeptIn(a, S2)
    <2>1. KeptIn(b, S1) = Word(v)
      BY <1>4, <1>8 DEF KeptIn, BYTES_PER_WORD
    <2>2. Word(v) = v
      BY <1>1, WordSame
    <2>3. KeptIn(b, S2) = KeptIn(a, S2)
      BY <1>4, <1>8 DEF KeptIn, BYTES_PER_WORD
    <2> QED
      BY <2>1, <2>2, <2>3
  <1>11. Seen(a, b)
    <2>1. MemLike(a.mem, b.mem) /\ At(a, 2) /\ InHandler(a.cp0)
      BY Zenon, <1>1, <1>4, <1>8
    <2>2. b.R = a.R /\ b.cp0 = a.cp0 /\ b.hilo = a.hilo
      BY <1>8
    <2> QED
      BY <1>9, <1>10, <2>1, <2>2, SeenAt
  <1>12. AtPlace(b, 3)
    BY <1>8, <1>9 DEF AtPlace
  <1> QED
    BY <1>8, <1>11, <1>12 DEF Handled, b

LEMMA Place4 ==
  ASSUME NEW a, Ready(a), AtPlace(a, 4), NEW input, NEW e, e = Execute(a, Handler[5], input)
  PROVE  Handled(a, e)
  <1> DEFINE v == a.R["a0"]
             r == SetMem(a.mem, S2, v, 4)
             d == [a EXCEPT !.mem = r.mem]
             n == EXCEPTION_ADDR + 4 * 5
             b == Onward(e)
  <1>1. MachOk(a) /\ InHandler(a.cp0) /\ Apart(a.mem) /\ At(a, 4) /\ MemOk(a.mem) /\ v \in Words
    BY RegWords, MachParts DEF Ready, AtPlace
  <1>2. Word(a.PC + BYTES_PER_WORD) = n /\ n \in Words
    <2>1. 5 = 4 + 1 /\ 5 <= 52
      OBVIOUS
    <2> QED
      BY <1>1, <2>1, OnePlace
  <1> HIDE DEF n
  <1>3. e = Quiet(d, n)
    <2> DEFINE i == Handler[5]
    <2>1. i = Instr("SW", "at", "a0", "zero", Low(S2))
      BY HandlerIs
    <2>2. EffectiveAddress(a, i) = Word(a.R["at"] + Imm(Low(S2))) /\ i.op = "SW" /\ i.rt = "a0"
      BY <2>1, AddressIs
    <2>3. a.R["at"] = Upper(S2)
      BY DEF AtPlace
    <2>4. Word(Upper(S2) + Imm(Low(S2))) = S2
      BY UppersAre
    <2>5. EffectiveAddress(a, i) = S2
      BY Zenon, <2>2, <2>3, <2>4
    <2>6. i.rt \in AllRegs /\ S2 \in {S1, S2}
      BY <2>2, RegWords
    <2> HIDE DEF i
    <2>7. Execute(a, i, input) = Quiet([a EXCEPT !.mem = SetMem(a.mem, S2, a.R[i.rt], 4).mem],
                                       Word(a.PC + BYTES_PER_WORD))
      BY <1>1, <2>2, <2>5, <2>6, StoreIs
    <2> QED
      BY Zenon, <1>2, <2>2, <2>7 DEF i
  <1>4. /\ MemLike(a.mem, r.mem) /\ Fetch(r.mem.k_data, S2 - K_DATA_BOT, 4) = v
        /\ Fetch(r.mem.k_data, S1 - K_DATA_BOT, 4) = Fetch(a.mem.k_data, S1 - K_DATA_BOT, 4)
    <2>1. S1 # S2 /\ S2 \in {S1, S2} /\ S1 \in {S1, S2}
      BY KernelLayout DEF S1, S2
    <2> HIDE DEF v
    <2> QED
      BY <1>1, <2>1, StoreSlot
  <1>5. MemOk(r.mem)
    <2> DEFINE w == 4
    <2>1. w \in Sizes /\ S2 \in Words
      BY Slots DEF Sizes
    <2> HIDE DEF w, v
    <2>2. MemOk(SetMem(a.mem, S2, v, w).mem)
      BY <1>1, <2>1, WriteFits
    <2> QED
      BY <2>2 DEF w
  <1> HIDE DEF r
  <1>6. d.R = a.R /\ d.hilo = a.hilo /\ d.cp0 = a.cp0 /\ d.mem = r.mem
    BY <1>1, WithMem
  <1>7. MachOk(d)
    BY <1>1, <1>5, WithMemFits
  <1> HIDE DEF d
  <1>8. /\ e.faults = <<>> /\ ~e.leave /\ MachOk(b)
        /\ b.R = a.R /\ b.hilo = a.hilo /\ b.cp0 = a.cp0 /\ b.mem = r.mem /\ b.PC = n
    <2>1. Goes(e, d, n)
      BY <1>2, <1>3, <1>7, QuietGoes
    <2> QED
      BY Zenon, <1>6, <2>1 DEF Goes
  <1> HIDE DEF b
  <1>9. At(b, 5) /\ InHandler(b.cp0)
    BY <1>1, <1>8 DEF At, n
  <1>10. KeptIn(b, S2) = a.R.a0 /\ KeptIn(b, S1) = KeptIn(a, S1)
    <2>1. KeptIn(b, S2) = Word(v)
      BY <1>4, <1>8 DEF KeptIn, BYTES_PER_WORD
    <2>2. Word(v) = v
      BY <1>1, WordSame
    <2>3. KeptIn(b, S1) = KeptIn(a, S1)
      BY <1>4, <1>8 DEF KeptIn, BYTES_PER_WORD
    <2> QED
      BY <2>1, <2>2, <2>3
  <1>11. Seen(a, b)
    <2>1. MemLike(a.mem, b.mem) /\ At(a, 4) /\ InHandler(a.cp0)
      BY Zenon, <1>1, <1>4, <1>8
    <2>2. b.R = a.R /\ b.cp0 = a.cp0 /\ b.hilo = a.hilo
      BY <1>8
    <2> QED
      BY <1>9, <1>10, <2>1, <2>2, SeenAt
  <1>12. AtPlace(b, 5)
    BY <1>8, <1>9 DEF AtPlace
  <1> QED
    BY <1>8, <1>11, <1>12 DEF Handled, b

LEMMA Place20 ==
  ASSUME NEW a, Ready(a), AtPlace(a, 20), NEW input, NEW e, e = Execute(a, Handler[21], input)
  PROVE  Handled(a, e)
  <1>1. PICK c \in Codes : a.R["at"] = Word(Upper(Messages) + c)
    BY DEF AtPlace
  <1> DEFINE x == Messages + c
             v == KeptIn(a, x)
  <1>2. c \in 0 .. 60 /\ c % 4 = 0
    BY DEF Codes
  <1>3. x \in Nat /\ InKernelData(x) /\ x % 4 = 0 /\ x < W
    <2>1. Messages \in Nat /\ Messages = K_DATA_BOT /\ Messages % 4 = 0
      BY MessagesAre, KernelLayout
    <2>2. /\ K_DATA_SIZE \in Nat /\ 72 <= K_DATA_SIZE /\ K_DATA_BOT + K_DATA_SIZE + H <= W
          /\ H \in Nat /\ W \in Nat
      BY KernelLayout
    <2> QED
      BY <1>2, <2>1, <2>2 DEF InKernelData
  <1>4. x \in Words
    <2>1. x \in 0 .. W - 1
      BY <1>3, Tops
    <2> QED
      BY Zenon, <2>1, WordsAre
  <1>5. Word(a.R["at"] + Imm(Low(Messages))) = x
    <2>1. Messages \in Nat /\ Messages + H <= W /\ c \in Nat
      BY <1>2, MessagesAre
    <2>2. \A y \in Nat : Messages + y < W => Word(Word(Upper(Messages) + y) + Imm(Low(Messages))) = Messages + y
      BY <2>1, UpperIs
    <2>3. Word(Word(Upper(Messages) + c) + Imm(Low(Messages))) = x
      BY Zenon, <1>3, <2>1, <2>2
    <2> HIDE DEF x
    <2> QED
      BY Zenon, <1>1, <2>3
  <1>6. v \in Words /\ v = Word(Fetch(a.mem.k_data, x - K_DATA_BOT, 4))
    <2> HIDE DEF x
    <2> QED
      BY <1>3, <1>4, SlotFits
  <1>7. e = Set(a, "a0", v)
    <2> DEFINE i == Handler[21]
    <2>1. i = Instr("LW", "at", "a0", "zero", Low(Messages))
      BY HandlerIs
    <2>2. /\ EffectiveAddress(a, i) = Word(a.R["at"] + Imm(Low(Messages))) /\ i.op = "LW"
          /\ i.rt = "a0"
      BY <2>1, AddressIs
    <2>3. MachOk(a) /\ Apart(a.mem) /\ i.rt \in AllRegs
      BY <2>2, RegWords DEF Ready
    <2> HIDE DEF i, v, x
    <2>4. x \in Int /\ EffectiveAddress(a, i) = x
      BY <1>3, <1>5, <2>2
    <2>5. Execute(a, i, input) = Set(a, i.rt, Word(Fetch(a.mem.k_data, x - K_DATA_BOT, 4)))
      BY <1>3, <2>2, <2>3, <2>4, LoadIs
    <2> QED
      BY <1>6, <2>2, <2>5 DEF i
  <1>8. Leads(a, 20, "a0", v)
    BY RegWords DEF Leads, Follows, AtPlace
  <1>9. MayWrite(20, "a0") /\ 20 \in Ordinary /\ "a0" \in AllRegs
    BY RegWords DEF MayWrite, Ordinary
  <1> HIDE DEF v, x
  <1> QED
    BY Zenon, <1>6, <1>7, <1>8, <1>9, SetStep

-----------------------------------------------------------------------------
(* Back to the program *)

\* eret clears EXL.
LEMMA LeaveOff ==
  ASSUME NEW x \in Words
  PROVE  BitAnd(x, BitNot(EXL)) \in Words /\ Second(BitAnd(x, BitNot(EXL))) = 0
  <1> DEFINE n == W - 3
  <1>1. W \in Nat /\ W % 4 = 0 /\ W >= 128
    BY Tops
  <1>2. BitNot(EXL) = n
    <2>1. 2^WordBits - 1 - 2 = n
      BY <1>1 DEF W
    <2> QED
      BY <2>1 DEF BitNot, EXL
  <1>3. n \in Nat /\ n \in 0 .. W - 1
    BY <1>1
  <1>4. Second(n) = 0
    <2>1. PICK k \in Nat : W = 4 * k
      <3> DEFINE k == W \div 4
      <3>1. k \in Nat /\ W = 4 * k
        BY <1>1
      <3> QED
        BY <3>1
    <2>2. n = 2 * (2 * k - 2) + 1 /\ n \div 2 = 2 * (k - 1)
      BY <1>1, <2>1
    <2>3. (2 * (k - 1)) % 2 = 0
      BY <2>1
    <2> QED
      BY <2>2, <2>3 DEF Second
  <1>5. n \in Words
    BY Zenon, <1>3, WordsAre
  <1> HIDE DEF n
  <1>6. BitAnd(x, n) \in Words
    BY <1>5, BitWords
  <1>7. Second(And[x][n]) = Second(x) * Second(n) /\ Second(x) \in 0 .. 1
    <2>1. x \in Nat
      BY WordsAre
    <2> QED
      BY <1>3, <2>1, AndBits
  <1>8. Second(BitAnd(x, n)) = 0
    BY <1>4, <1>7 DEF BitAnd
  <1> QED
    BY <1>2, <1>6, <1>8

LEMMA ReturnIs ==
  ASSUME NEW a, MachOk(a)
  PROVE  LET c == [a.cp0 EXCEPT !.Status = BitAnd(@, BitNot(EXL))]
         IN  /\ ReturnFromException(a) = Quiet([a EXCEPT !.cp0 = c], a.cp0.EPC)
             /\ c \in Cp0s /\ c.Status = BitAnd(a.cp0.Status, BitNot(EXL)) /\ c.EPC = a.cp0.EPC
  <1> DEFINE s == BitAnd(a.cp0.Status, BitNot(EXL))
             c == [a.cp0 EXCEPT !.Status = BitAnd(@, BitNot(EXL))]
             d == [a EXCEPT !.cp0 = c]
  <1>1. a.cp0 \in Cp0s /\ MachFields(a)
    BY MachParts
  <1>2. s \in Words
    BY <1>1, LeaveOff DEF Cp0s, Cp0Names
  <1>3. c = [a.cp0 EXCEPT !.Status = s]
    BY DEF s
  <1>4. c \in Cp0s /\ c.Status = s /\ c.EPC = a.cp0.EPC
    <2> HIDE DEF s, c
    <2> QED
      BY <1>1, <1>2, <1>3 DEF Cp0s, Cp0Names
  <1>5. ReturnFromException(a) = Quiet(d, a.cp0.EPC)
    <2> DEFINE none == <<>>
               no == FALSE
               n == Word(a.PC + BYTES_PER_WORD)
               z == a.cp0.EPC
               g == Plain(a)
    <2>1. g = Eff(a, n, none, no)
      BY PlainIs DEF Quiet
    <2>2. g.m = a
      BY PlainIs, QuietIs
    <2>3. ReturnFromException(a) = [g EXCEPT !.m.cp0.Status = BitAnd(g.m.cp0.Status, BitNot(EXL)), !.next = z]
      BY DEF ReturnFromException
    <2> HIDE DEF n, none, no, z, g
    <2>4. ReturnFromException(a) = [g EXCEPT !.m.cp0.Status = s, !.next = z]
      BY Zenon, <2>2, <2>3 DEF s
    <2> HIDE DEF s, c, d
    <2> DEFINE t == [a EXCEPT !.cp0.Status = s]
    <2>5. [g EXCEPT !.m.cp0.Status = s, !.next = z] = [Eff(t, n, none, no) EXCEPT !.next = z]
      <3>1. [g EXCEPT !.m.cp0.Status = s, !.next = z] = [[g EXCEPT !.m.cp0.Status = s] EXCEPT !.next = z]
        OBVIOUS
      <3>2. [Eff(a, n, none, no) EXCEPT !.m.cp0.Status = s] = Eff(t, n, none, no)
        BY DEF Eff
      <3> HIDE DEF t
      <3> QED
        BY Zenon, <2>1, <3>1, <3>2
    <2>7. [Eff(t, n, none, no) EXCEPT !.next = z] = Eff(t, z, none, no)
      <3> HIDE DEF t
      <3> QED
        BY DEF Eff
    <2>6. [a EXCEPT !.cp0.Status = s] = [a EXCEPT !.cp0 = c]
      BY <1>3
    <2> QED
      BY Zenon, <2>4, <2>5, <2>6, <2>7 DEF none, no, z, d, Quiet
  <1> QED
    BY <1>4, <1>5

LEMMA Place42 ==
  ASSUME NEW a, Ready(a), AtPlace(a, 42), NEW input, NEW e, e = Execute(a, Handler[43], input)
  PROVE  Handled(a, e)
  <1> DEFINE n == EXCEPTION_ADDR + 4 * 43
             b == Onward(e)
  <1>1. MachOk(a) /\ InHandler(a.cp0) /\ At(a, 42) /\ a.cp0 \in Cp0s
    BY MachParts DEF Ready, AtPlace
  <1>2. Word(a.PC + BYTES_PER_WORD) = n /\ n \in Words
    <2>1. 43 = 42 + 1 /\ 43 <= 52
      OBVIOUS
    <2> QED
      BY <1>1, <2>1, OnePlace
  <1> HIDE DEF n
  <1>3. PICK c \in Cp0s :
          /\ e = Quiet([a EXCEPT !.cp0 = c], n)
          /\ c.Status = IF "EPC" = "Status" THEN StatusOf(a.R["k0"]) ELSE a.cp0.Status
          /\ c.EPC = IF "EPC" = "EPC" THEN a.R["k0"] ELSE a.cp0.EPC
    <2> DEFINE i == Handler[43]
    <2>1. i = Instr("MTC0", "zero", "k0", "zero", "EPC")
      BY HandlerIs
    <2>2. i.op = "MTC0" /\ i.rt = "k0" /\ i.x = "EPC"
      BY <2>1, InstrIs
    <2> HIDE DEF i
    <2>3. i.rt \in AllRegs /\ i.x \in {"Status", "Cause", "Compare", "EPC"}
      BY <2>2, RegWords
    <2>4. Execute(a, i, input) = WriteCp0(a, i)
      BY <2>2, ExecuteIs
    <2>5. PICK c \in Cp0s :
            /\ WriteCp0(a, i) = Quiet([a EXCEPT !.cp0 = c], Word(a.PC + BYTES_PER_WORD))
            /\ c.Status = IF i.x = "Status" THEN StatusOf(a.R[i.rt]) ELSE a.cp0.Status
            /\ c.EPC = IF i.x = "EPC" THEN a.R[i.rt] ELSE a.cp0.EPC
      BY <1>1, <2>3, WriteIs
    <2>6. e = Quiet([a EXCEPT !.cp0 = c], n)
      BY Zenon, <1>2, <2>4, <2>5 DEF i
    <2> QED
      BY Zenon, <2>2, <2>5, <2>6
  <1> DEFINE d == [a EXCEPT !.cp0 = c]
  <1>4. d.R = a.R /\ d.hilo = a.hilo /\ d.cp0 = c /\ d.mem = a.mem
    BY <1>1, WithCp0
  <1>5. MachOk(d) /\ e = Quiet(d, n)
    BY <1>1, <1>3, WithCp0Fits
  <1> HIDE DEF d
  <1>6. /\ e.faults = <<>> /\ ~e.leave /\ MachOk(b)
        /\ b.R = a.R /\ b.hilo = a.hilo /\ b.cp0 = c /\ b.mem = a.mem /\ b.PC = n
    <2>1. Goes(e, d, n)
      BY <1>2, <1>5, QuietGoes
    <2> QED
      BY Zenon, <1>4, <2>1 DEF Goes
  <1> HIDE DEF b
  <1>7. InHandler(b.cp0) /\ b.cp0.EPC = Word(a.cp0.EPC + 4)
    <2>1. a.R["k0"] = Word(a.cp0.EPC + 4)
      BY DEF AtPlace
    <2>2. InHandler(b.cp0)
      BY <1>1, <1>3, <1>6 DEF InHandler
    <2> QED
      BY <1>3, <1>6, <2>1, <2>2
  <1>8. At(b, 43)
    BY <1>6 DEF At, n
  <1>9. Seen(a, b)
    <2>1. MemLike(a.mem, b.mem) /\ KeptIn(a, S1) = KeptIn(b, S1) /\ KeptIn(a, S2) = KeptIn(b, S2)
      BY <1>6 DEF MemLike, KeptIn
    <2> QED
      BY <1>1, <1>6, <1>7, <1>8, <2>1, SeenAt
  <1>10. AtPlace(b, 43)
    BY <1>6, <1>8 DEF AtPlace
  <1> QED
    BY <1>6, <1>9, <1>10 DEF Handled, b

LEMMA Place48 ==
  ASSUME NEW a, Ready(a), AtPlace(a, 48), NEW input, NEW e, e = Execute(a, Handler[49], input)
  PROVE  Handled(a, e)
  <1> DEFINE n == EXCEPTION_ADDR + 4 * 49
             b == Onward(e)
  <1>1. MachOk(a) /\ InHandler(a.cp0) /\ At(a, 48) /\ a.cp0 \in Cp0s
    BY MachParts DEF Ready, AtPlace
  <1>2. Word(a.PC + BYTES_PER_WORD) = n /\ n \in Words
    <2>1. 49 = 48 + 1 /\ 49 <= 52
      OBVIOUS
    <2> QED
      BY <1>1, <2>1, OnePlace
  <1> HIDE DEF n
  <1>3. PICK c \in Cp0s :
          /\ e = Quiet([a EXCEPT !.cp0 = c], n)
          /\ c.Status = IF "Cause" = "Status" THEN StatusOf(a.R["zero"]) ELSE a.cp0.Status
          /\ c.EPC = IF "Cause" = "EPC" THEN a.R["zero"] ELSE a.cp0.EPC
    <2> DEFINE i == Handler[49]
    <2>1. i = Instr("MTC0", "zero", "zero", "zero", "Cause")
      BY HandlerIs
    <2>2. i.op = "MTC0" /\ i.rt = "zero" /\ i.x = "Cause"
      BY <2>1, InstrIs
    <2> HIDE DEF i
    <2>3. i.rt \in AllRegs /\ i.x \in {"Status", "Cause", "Compare", "EPC"}
      BY <2>2, RegWords
    <2>4. Execute(a, i, input) = WriteCp0(a, i)
      BY <2>2, ExecuteIs
    <2>5. PICK c \in Cp0s :
            /\ WriteCp0(a, i) = Quiet([a EXCEPT !.cp0 = c], Word(a.PC + BYTES_PER_WORD))
            /\ c.Status = IF i.x = "Status" THEN StatusOf(a.R[i.rt]) ELSE a.cp0.Status
            /\ c.EPC = IF i.x = "EPC" THEN a.R[i.rt] ELSE a.cp0.EPC
      BY <1>1, <2>3, WriteIs
    <2>6. e = Quiet([a EXCEPT !.cp0 = c], n)
      BY Zenon, <1>2, <2>4, <2>5 DEF i
    <2> QED
      BY Zenon, <2>2, <2>5, <2>6
  <1> DEFINE d == [a EXCEPT !.cp0 = c]
  <1>4. d.R = a.R /\ d.hilo = a.hilo /\ d.cp0 = c /\ d.mem = a.mem
    BY <1>1, WithCp0
  <1>5. MachOk(d) /\ e = Quiet(d, n)
    BY <1>1, <1>3, WithCp0Fits
  <1> HIDE DEF d
  <1>6. /\ e.faults = <<>> /\ ~e.leave /\ MachOk(b)
        /\ b.R = a.R /\ b.hilo = a.hilo /\ b.cp0 = c /\ b.mem = a.mem /\ b.PC = n
    <2>1. Goes(e, d, n)
      BY <1>2, <1>5, QuietGoes
    <2> QED
      BY Zenon, <1>4, <2>1 DEF Goes
  <1> HIDE DEF b
  <1>7. InHandler(b.cp0) /\ b.cp0.EPC = a.cp0.EPC
    BY <1>1, <1>3, <1>6 DEF InHandler
  <1>8. At(b, 49)
    BY <1>6 DEF At, n
  <1>9. Seen(a, b)
    <2>1. Agree(48, 49)
      BY DEF Agree
    <2> QED
      BY <1>1, <1>6, <1>7, <1>8, <2>1, StaySeen
  <1>10. AtPlace(b, 49)
    BY <1>6, <1>8 DEF AtPlace
  <1> QED
    BY <1>6, <1>9, <1>10 DEF Handled, b

LEMMA Place51 ==
  ASSUME NEW a, Ready(a), AtPlace(a, 51), NEW input, NEW e, e = Execute(a, Handler[52], input)
  PROVE  Handled(a, e)
  <1> DEFINE n == EXCEPTION_ADDR + 4 * 52
             b == Onward(e)
  <1>1. MachOk(a) /\ InHandler(a.cp0) /\ At(a, 51) /\ a.cp0 \in Cp0s
    BY MachParts DEF Ready, AtPlace
  <1>2. Word(a.PC + BYTES_PER_WORD) = n /\ n \in Words
    <2>1. 52 = 51 + 1 /\ 52 <= 52
      OBVIOUS
    <2> QED
      BY <1>1, <2>1, OnePlace
  <1> HIDE DEF n
  <1>3. PICK c \in Cp0s :
          /\ e = Quiet([a EXCEPT !.cp0 = c], n)
          /\ c.Status = IF "Status" = "Status" THEN StatusOf(a.R["k0"]) ELSE a.cp0.Status
          /\ c.EPC = IF "Status" = "EPC" THEN a.R["k0"] ELSE a.cp0.EPC
    <2> DEFINE i == Handler[52]
    <2>1. i = Instr("MTC0", "zero", "k0", "zero", "Status")
      BY HandlerIs
    <2>2. i.op = "MTC0" /\ i.rt = "k0" /\ i.x = "Status"
      BY <2>1, InstrIs
    <2> HIDE DEF i
    <2>3. i.rt \in AllRegs /\ i.x \in {"Status", "Cause", "Compare", "EPC"}
      BY <2>2, RegWords
    <2>4. Execute(a, i, input) = WriteCp0(a, i)
      BY <2>2, ExecuteIs
    <2>5. PICK c \in Cp0s :
            /\ WriteCp0(a, i) = Quiet([a EXCEPT !.cp0 = c], Word(a.PC + BYTES_PER_WORD))
            /\ c.Status = IF i.x = "Status" THEN StatusOf(a.R[i.rt]) ELSE a.cp0.Status
            /\ c.EPC = IF i.x = "EPC" THEN a.R[i.rt] ELSE a.cp0.EPC
      BY <1>1, <2>3, WriteIs
    <2>6. e = Quiet([a EXCEPT !.cp0 = c], n)
      BY Zenon, <1>2, <2>4, <2>5 DEF i
    <2> QED
      BY Zenon, <2>2, <2>5, <2>6
  <1> DEFINE d == [a EXCEPT !.cp0 = c]
  <1>4. d.R = a.R /\ d.hilo = a.hilo /\ d.cp0 = c /\ d.mem = a.mem
    BY <1>1, WithCp0
  <1>5. MachOk(d) /\ e = Quiet(d, n)
    BY <1>1, <1>3, WithCp0Fits
  <1> HIDE DEF d
  <1>6. /\ e.faults = <<>> /\ ~e.leave /\ MachOk(b)
        /\ b.R = a.R /\ b.hilo = a.hilo /\ b.cp0 = c /\ b.mem = a.mem /\ b.PC = n
    <2>1. Goes(e, d, n)
      BY <1>2, <1>5, QuietGoes
    <2> QED
      BY Zenon, <1>4, <2>1 DEF Goes
  <1> HIDE DEF b
  <1>7. InHandler(b.cp0) /\ b.cp0.EPC = a.cp0.EPC
    <2>1. Second(a.R["k0"]) = 1 /\ a.R["k0"] \in Words
      BY RegWords DEF AtPlace
    <2>2. Second(c.Status) = 1
      BY <1>3, <2>1, StatusKeeps
    <2>3. InHandler(c)
      BY <1>3, <2>2, InHandlerIs
    <2> QED
      BY <1>3, <1>6, <2>3
  <1>8. At(b, 52)
    BY <1>6 DEF At, n
  <1>9. Seen(a, b)
    <2>1. Agree(51, 52)
      BY DEF Agree
    <2> QED
      BY <1>1, <1>6, <1>7, <1>8, <2>1, StaySeen
  <1>10. AtPlace(b, 52)
    BY <1>6, <1>8 DEF AtPlace
  <1> QED
    BY <1>6, <1>9, <1>10 DEF Handled, b

LEMMA Place52 ==
  ASSUME NEW a, Ready(a), AtPlace(a, 52), NEW input, NEW e, e = Execute(a, Handler[53], input)
  PROVE  Handled(a, e)
  <1> DEFINE c == [a.cp0 EXCEPT !.Status = BitAnd(@, BitNot(EXL))]
             d == [a EXCEPT !.cp0 = c]
             n == a.cp0.EPC
             b == Onward(e)
  <1>1. MachOk(a) /\ InHandler(a.cp0) /\ At(a, 52) /\ a.cp0 \in Cp0s
    BY MachParts DEF Ready, AtPlace
  <1>2. e = Quiet(d, n) /\ c \in Cp0s /\ c.Status = BitAnd(a.cp0.Status, BitNot(EXL))
    <2> DEFINE i == Handler[53]
    <2>1. i = Instr("ERET", "zero", "zero", "zero", 0)
      BY HandlerIs
    <2>2. i.op = "ERET"
      BY <2>1, InstrIs
    <2> HIDE DEF i
    <2>3. Execute(a, i, input) = ReturnFromException(a)
      BY <2>2, ExecuteIs
    <2>4. /\ ReturnFromException(a) = Quiet(d, n) /\ c \in Cp0s
          /\ c.Status = BitAnd(a.cp0.Status, BitNot(EXL))
      BY <1>1, ReturnIs
    <2> HIDE DEF d, c, n
    <2> QED
      BY Zenon, <2>3, <2>4 DEF i
  <1>3. n \in Words
    BY RegWords
  <1>4. ~InHandler(c)
    <2>1. Second(BitAnd(a.cp0.Status, BitNot(EXL))) = 0
      BY RegWords, LeaveOff
    <2> HIDE DEF c
    <2> QED
      BY <1>2, <2>1, InHandlerIs
  <1> HIDE DEF c
  <1>5. d.R = a.R /\ d.hilo = a.hilo /\ d.cp0 = c /\ d.mem = a.mem
    BY <1>1, WithCp0
  <1>6. MachOk(d)
    BY <1>1, <1>2, WithCp0Fits
  <1> HIDE DEF d, n
  <1>7. /\ e.faults = <<>> /\ ~e.leave /\ MachOk(b)
        /\ b.R = a.R /\ b.hilo = a.hilo /\ b.cp0 = c /\ b.mem = a.mem /\ b.PC = n
    <2>1. Goes(e, d, n)
      BY <1>2, <1>3, <1>6, QuietGoes
    <2> QED
      BY Zenon, <1>5, <2>1 DEF Goes
  <1> HIDE DEF b
  <1>8. ~InHandler(b.cp0)
    BY <1>4, <1>7
  <1>9. Seen(a, b)
    <2>1. ViewPC(b) = n /\ \A r : ViewReg(b, r) = b.R[r]
      BY <1>7, <1>8 DEF ViewPC, ViewReg
    <2>2. ViewPC(a) = n
      BY <1>1, ViewAt DEF n
    <2>3. ViewReg(a, "at") = a.R.at /\ ViewReg(a, "v0") = a.R.v0 /\ ViewReg(a, "a0") = a.R.a0
          /\ \A r : r \notin {"at", "v0", "a0"} => ViewReg(a, r) = a.R[r]
      BY <1>1, ViewAt
    <2>4. \A r : ViewReg(a, r) = a.R[r]
      BY <2>3
    <2>5. MemLike(a.mem, b.mem)
      BY <1>7 DEF MemLike
    <2> QED
      BY <1>7, <2>1, <2>2, <2>4, <2>5 DEF Seen
  <1> QED
    BY <1>7, <1>8, <1>9 DEF Handled, b

\* A step of the handler: it raises nothing, it moves nothing that the program can see, and
\* it is at a place of the handler again, unless it has returned.
THEOREM HandlerStep ==
  ASSUME NEW a, Ready(a), NEW p, AtPlace(a, p), NEW input
  PROVE  Handled(a, Execute(a, Handler[p + 1], input))
  <1>1. p \in 0 .. 52 /\ p \notin 29 .. 31
    BY DEF AtPlace, At
  <1>2. CASE p = 0
    <2>1. p + 1 = 1
      BY <1>2
    <2> QED
      BY Zenon, <1>2, <2>1, Place0
  <1>3. CASE p = 1
    <2>1. p + 1 = 2
      BY <1>3
    <2> QED
      BY Zenon, <1>3, <2>1, Place1
  <1>4. CASE p = 2
    <2>1. p + 1 = 3
      BY <1>4
    <2> QED
      BY Zenon, <1>4, <2>1, Place2
  <1>5. CASE p = 3
    <2>1. p + 1 = 4
      BY <1>5
    <2> QED
      BY Zenon, <1>5, <2>1, Place3
  <1>6. CASE p = 4
    <2>1. p + 1 = 5
      BY <1>6
    <2> QED
      BY Zenon, <1>6, <2>1, Place4
  <1>7. CASE p = 5
    <2>1. p + 1 = 6
      BY <1>7
    <2> QED
      BY Zenon, <1>7, <2>1, Place5
  <1>8. CASE p = 6
    <2>1. p + 1 = 7
      BY <1>8
    <2> QED
      BY Zenon, <1>8, <2>1, Place6
  <1>9. CASE p = 7
    <2>1. p + 1 = 8
      BY <1>9
    <2> QED
      BY Zenon, <1>9, <2>1, Place7
  <1>10. CASE p = 8
    <2>1. p + 1 = 9
      BY <1>10
    <2> QED
      BY Zenon, <1>10, <2>1, Place8
  <1>11. CASE p = 9
    <2>1. p + 1 = 10
      BY <1>11
    <2> QED
      BY Zenon, <1>11, <2>1, Place9
  <1>12. CASE p = 10
    <2>1. p + 1 = 11
      BY <1>12
    <2> QED
      BY Zenon, <1>12, <2>1, Place10
  <1>13. CASE p = 11
    <2>1. p + 1 = 12
      BY <1>13
    <2> QED
      BY Zenon, <1>13, <2>1, Place11
  <1>14. CASE p = 12
    <2>1. p + 1 = 13
      BY <1>14
    <2> QED
      BY Zenon, <1>14, <2>1, Place12
  <1>15. CASE p = 13
    <2>1. p + 1 = 14
      BY <1>15
    <2> QED
      BY Zenon, <1>15, <2>1, Place13
  <1>16. CASE p = 14
    <2>1. p + 1 = 15
      BY <1>16
    <2> QED
      BY Zenon, <1>16, <2>1, Place14
  <1>17. CASE p = 15
    <2>1. p + 1 = 16
      BY <1>17
    <2> QED
      BY Zenon, <1>17, <2>1, Place15
  <1>18. CASE p = 16
    <2>1. p + 1 = 17
      BY <1>18
    <2> QED
      BY Zenon, <1>18, <2>1, Place16
  <1>19. CASE p = 17
    <2>1. p + 1 = 18
      BY <1>19
    <2> QED
      BY Zenon, <1>19, <2>1, Place17
  <1>20. CASE p = 18
    <2>1. p + 1 = 19
      BY <1>20
    <2> QED
      BY Zenon, <1>20, <2>1, Place18
  <1>21. CASE p = 19
    <2>1. p + 1 = 20
      BY <1>21
    <2> QED
      BY Zenon, <1>21, <2>1, Place19
  <1>22. CASE p = 20
    <2>1. p + 1 = 21
      BY <1>22
    <2> QED
      BY Zenon, <1>22, <2>1, Place20
  <1>23. CASE p = 21
    <2>1. p + 1 = 22
      BY <1>23
    <2> QED
      BY Zenon, <1>23, <2>1, Place21
  <1>24. CASE p = 22
    <2>1. p + 1 = 23
      BY <1>24
    <2> QED
      BY Zenon, <1>24, <2>1, Place22
  <1>25. CASE p = 23
    <2>1. p + 1 = 24
      BY <1>25
    <2> QED
      BY Zenon, <1>25, <2>1, Place23
  <1>26. CASE p = 24
    <2>1. p + 1 = 25
      BY <1>26
    <2> QED
      BY Zenon, <1>26, <2>1, Place24
  <1>27. CASE p = 25
    <2>1. p + 1 = 26
      BY <1>27
    <2> QED
      BY Zenon, <1>27, <2>1, Place25
  <1>28. CASE p = 26
    <2>1. p + 1 = 27
      BY <1>28
    <2> QED
      BY Zenon, <1>28, <2>1, Place26
  <1>29. CASE p = 27
    <2>1. p + 1 = 28
      BY <1>29
    <2> QED
      BY Zenon, <1>29, <2>1, Place27
  <1>30. CASE p = 28
    <2>1. p + 1 = 29
      BY <1>30
    <2> QED
      BY Zenon, <1>30, <2>1, Place28
  <1>31. CASE p = 32
    <2>1. p + 1 = 33
      BY <1>31
    <2> QED
      BY Zenon, <1>31, <2>1, Place32
  <1>32. CASE p = 33
    <2>1. p + 1 = 34
      BY <1>32
    <2> QED
      BY Zenon, <1>32, <2>1, Place33
  <1>33. CASE p = 34
    <2>1. p + 1 = 35
      BY <1>33
    <2> QED
      BY Zenon, <1>33, <2>1, Place34
  <1>34. CASE p = 35
    <2>1. p + 1 = 36
      BY <1>34
    <2> QED
      BY Zenon, <1>34, <2>1, Place35
  <1>35. CASE p = 36
    <2>1. p + 1 = 37
      BY <1>35
    <2> QED
      BY Zenon, <1>35, <2>1, Place36
  <1>36. CASE p = 37
    <2>1. p + 1 = 38
      BY <1>36
    <2> QED
      BY Zenon, <1>36, <2>1, Place37
  <1>37. CASE p = 38
    <2>1. p + 1 = 39
      BY <1>37
    <2> QED
      BY Zenon, <1>37, <2>1, Place38
  <1>38. CASE p = 39
    <2>1. p + 1 = 40
      BY <1>38
    <2> QED
      BY Zenon, <1>38, <2>1, Place39
  <1>39. CASE p = 40
    <2>1. p + 1 = 41
      BY <1>39
    <2> QED
      BY Zenon, <1>39, <2>1, Place40
  <1>40. CASE p = 41
    <2>1. p + 1 = 42
      BY <1>40
    <2> QED
      BY Zenon, <1>40, <2>1, Place41
  <1>41. CASE p = 42
    <2>1. p + 1 = 43
      BY <1>41
    <2> QED
      BY Zenon, <1>41, <2>1, Place42
  <1>42. CASE p = 43
    <2>1. p + 1 = 44
      BY <1>42
    <2> QED
      BY Zenon, <1>42, <2>1, Place43
  <1>43. CASE p = 44
    <2>1. p + 1 = 45
      BY <1>43
    <2> QED
      BY Zenon, <1>43, <2>1, Place44
  <1>44. CASE p = 45
    <2>1. p + 1 = 46
      BY <1>44
    <2> QED
      BY Zenon, <1>44, <2>1, Place45
  <1>45. CASE p = 46
    <2>1. p + 1 = 47
      BY <1>45
    <2> QED
      BY Zenon, <1>45, <2>1, Place46
  <1>46. CASE p = 47
    <2>1. p + 1 = 48
      BY <1>46
    <2> QED
      BY Zenon, <1>46, <2>1, Place47
  <1>47. CASE p = 48
    <2>1. p + 1 = 49
      BY <1>47
    <2> QED
      BY Zenon, <1>47, <2>1, Place48
  <1>48. CASE p = 49
    <2>1. p + 1 = 50
      BY <1>48
    <2> QED
      BY Zenon, <1>48, <2>1, Place49
  <1>49. CASE p = 50
    <2>1. p + 1 = 51
      BY <1>49
    <2> QED
      BY Zenon, <1>49, <2>1, Place50
  <1>50. CASE p = 51
    <2>1. p + 1 = 52
      BY <1>50
    <2> QED
      BY Zenon, <1>50, <2>1, Place51
  <1>51. CASE p = 52
    <2>1. p + 1 = 53
      BY <1>51
    <2> QED
      BY Zenon, <1>51, <2>1, Place52
  <1> QED
    BY <1>1, <1>2, <1>3, <1>4, <1>5, <1>6, <1>7, <1>8, <1>9, <1>10, <1>11, <1>12, <1>13, <1>14,
       <1>15, <1>16, <1>17, <1>18, <1>19, <1>20, <1>21, <1>22, <1>23, <1>24, <1>25, <1>26, <1>27,
       <1>28, <1>29, <1>30, <1>31, <1>32, <1>33, <1>34, <1>35, <1>36, <1>37, <1>38, <1>39, <1>40,
       <1>41, <1>42, <1>43, <1>44, <1>45, <1>46, <1>47, <1>48, <1>49, <1>50, <1>51

-----------------------------------------------------------------------------
(* The memory at the start *)

LEMMA FreshIs ==
  /\ MemFields(MakeMemory) /\ DOMAIN MakeMemory = MemParts \cup {"k_data_top"}
  /\ MakeMemory.text = Zeros(TEXT_SIZE) /\ MakeMemory.data = Zeros(DATA_SIZE)
  /\ MakeMemory.stack = Zeros(STACK_SIZE) /\ MakeMemory.k_data = Zeros(K_DATA_SIZE)
  /\ MakeMemory.special = Zeros(SPECIAL_TOP - SPECIAL_BOT)
  /\ MakeMemory.data_top = DATA_BOT + DATA_SIZE /\ MakeMemory.stack_bot = STACK_TOP - STACK_SIZE
  /\ MakeMemory.k_data_top = K_DATA_BOT + K_DATA_SIZE
  BY DEF MakeMemory, MemFields, MemParts

\* make_memory makes a memory of the right type.
LEMMA FreshFits == MemOk(MakeMemory) /\ Apart(MakeMemory)
  <1> DEFINE o == MakeMemory
  <1>1. /\ o.data_top = DATA_BOT + DATA_SIZE /\ o.stack_bot = STACK_TOP - STACK_SIZE
        /\ o.k_data_top = K_DATA_BOT + K_DATA_SIZE /\ MemFields(o)
        /\ o.text = Zeros(TEXT_SIZE) /\ o.data = Zeros(DATA_SIZE)
        /\ o.stack = Zeros(STACK_SIZE) /\ o.k_data = Zeros(K_DATA_SIZE)
        /\ o.special = Zeros(SPECIAL_TOP - SPECIAL_BOT)
    BY FreshIs
  <1> HIDE DEF o
  <1>2. MemBounds(o) /\ Apart(o)
    BY <1>1, Layout DEF MemBounds, Apart
  <1>3. ASSUME NEW n \in Int PROVE Zeros(n) \in ArrayOf(n)
    <2>1. 0 \in Byte
      BY NextPower
    <2> QED
      BY <2>1 DEF Zeros, ArrayOf
  <1>4. /\ o.data_top - DATA_BOT = DATA_SIZE /\ STACK_TOP - o.stack_bot = STACK_SIZE
        /\ DATA_SIZE \in Int /\ STACK_SIZE \in Int /\ TEXT_SIZE \in Int /\ K_DATA_SIZE \in Int
        /\ SPECIAL_TOP - SPECIAL_BOT \in Int
    BY <1>1, Layout
  <1>5. MemContents(o)
    BY <1>1, <1>3, <1>4 DEF MemContents
  <1> QED
    BY <1>1, <1>2, <1>5 DEF MemOk, o

LEMMA LoadedIs ==
  ASSUME NEW program
  PROVE  LET o == Loaded(program)
         IN  /\ MemFields(o) /\ o.data = MakeMemory.data /\ o.stack = MakeMemory.stack
             /\ o.k_data = MakeMemory.k_data /\ o.special = MakeMemory.special
             /\ o.data_top = MakeMemory.data_top /\ o.stack_bot = MakeMemory.stack_bot
             /\ o.k_data_top = MakeMemory.k_data_top
             /\ o.text = [b \in 0 .. TEXT_SIZE - 1 |->
                  (program[b \div BYTES_PER_WORD + 1] \div 2^((b % BYTES_PER_WORD) * ByteBits)) % 2^ByteBits]
  <1> DEFINE f == [b \in 0 .. TEXT_SIZE - 1 |->
                  (program[b \div BYTES_PER_WORD + 1] \div 2^((b % BYTES_PER_WORD) * ByteBits)) % 2^ByteBits]
             u == MakeMemory
             o == [u EXCEPT !.text = f]
  <1>1. Loaded(program) = o
    BY DEF Loaded
  <1>2. MemFields(u)
    BY FreshIs
  <1> HIDE DEF f, u
  <1>3. /\ MemFields(o) /\ o.data = u.data /\ o.stack = u.stack
        /\ o.k_data = u.k_data /\ o.special = u.special
        /\ o.data_top = u.data_top /\ o.stack_bot = u.stack_bot
        /\ o.k_data_top = u.k_data_top /\ o.text = f
    BY <1>2 DEF MemFields
  <1> HIDE DEF o
  <1> QED
    BY <1>1, <1>3 DEF f, u

\* The program in its text keeps it.
LEMMA LoadedFits ==
  ASSUME NEW program \in Programs
  PROVE  MemOk(Loaded(program)) /\ Apart(Loaded(program))
  <1> DEFINE o == Loaded(program)
             u == MakeMemory
  <1>1. /\ MemFields(o) /\ o.data = u.data /\ o.stack = u.stack
        /\ o.k_data = u.k_data /\ o.special = u.special
        /\ o.data_top = u.data_top /\ o.stack_bot = u.stack_bot
        /\ o.k_data_top = u.k_data_top
    BY LoadedIs
  <1>2. MemOk(u) /\ Apart(u)
    BY FreshFits
  <1>3. o.text \in ArrayOf(TEXT_SIZE)
    <2> DEFINE byte(b) == (program[b \div BYTES_PER_WORD + 1] \div 2^((b % BYTES_PER_WORD) * ByteBits)) % 2^ByteBits
    <2>1. o.text = [b \in 0 .. TEXT_SIZE - 1 |-> byte(b)]
      BY LoadedIs
    <2>2. ASSUME NEW b \in 0 .. TEXT_SIZE - 1 PROVE byte(b) \in Byte
      <3> DEFINE k == b \div 4 + 1
                 j == b % 4
                 d == 2^(j * ByteBits)
                 x == program[k]
      <3>1. TEXT_SIZE \in Nat /\ TEXT_SIZE % 4 = 0
        BY Layout
      <3>2. j \in 0 .. 3 /\ k \in 1 .. TEXT_SIZE \div 4
        BY <3>1
      <3>3. x \in Nat
        <4>1. program \in [1 .. TEXT_SIZE \div 4 -> Words]
          BY ProgramsAssumption DEF BYTES_PER_WORD
        <4> HIDE DEF k
        <4>2. program[k] \in Words
          BY <3>2, <4>1
        <4> QED
          BY <4>2, WordsAre
      <3>4. j * ByteBits \in 0 .. WordBits /\ ByteBits \in 0 .. WordBits
        <4> HIDE DEF j
        <4> QED
          BY <3>2, Widths DEF WordBits
      <3>5. d \in Nat \ {0} /\ 2^ByteBits \in Nat \ {0}
        <4> HIDE DEF j
        <4> QED
          BY <3>4, PowerOfTwo
      <3> HIDE DEF d, x, j, k
      <3>6. x \div d \in Nat
        BY <3>3, <3>5, Euclid
      <3>7. (x \div d) % 2^ByteBits \in 0 .. 2^ByteBits - 1
        BY <3>5, <3>6
      <3>8. (x \div d) % 2^ByteBits = byte(b)
        BY DEF d, x, j, k, BYTES_PER_WORD
      <3> HIDE DEF byte
      <3> QED
        BY <3>7, <3>8 DEF Byte
    <2> HIDE DEF byte
    <2> QED
      BY <2>1, <2>2 DEF ArrayOf
  <1> HIDE DEF o, u
  <1>4. MemBounds(o) /\ Apart(o)
    BY <1>1, <1>2 DEF MemOk, MemBounds, Apart
  <1>5. MemContents(o)
    BY <1>1, <1>2, <1>3 DEF MemOk, MemContents
  <1> QED
    BY <1>1, <1>4, <1>5 DEF MemOk, o

-----------------------------------------------------------------------------
(* The program's machine *)

\* What UserMachine runs an instruction on agrees with the machine on all that is the
\* program's.

\* R[0] = 0 changes register zero only.
LEMMA ZeroedIs ==
  ASSUME MachOk(m)
  PROVE  /\ MachOk(Zeroed) /\ Zeroed.hilo = m.hilo /\ Zeroed.cp0 = m.cp0 /\ Zeroed.PC = m.PC /\ Zeroed.mem = m.mem
         /\ Zeroed.R.zero = 0 /\ \A r \in AllRegs : r # "zero" => Zeroed.R[r] = m.R[r]
  <1> DEFINE z == 0
             d == [m EXCEPT !.R["zero"] = z]
  <1>1. "zero" \in AllRegs /\ z \in Words
    BY RegistersAre, WordsAre
  <1>2. Zeroed = d
    BY DEF Zeroed
  <1> HIDE DEF z
  <1>3. MachOk(d)
    BY <1>1, WithRegFits
  <1>4. d.hilo = m.hilo
    BY <1>1, WithReg
  <1>5. d.cp0 = m.cp0
    BY <1>1, WithReg
  <1>6. d.PC = m.PC
    BY <1>1, WithReg
  <1>7. d.mem = m.mem
    BY <1>1, WithReg
  <1>8. d.R["zero"] = z
    <2>1. d.R = [m.R EXCEPT !["zero"] = z] /\ m.R \in [AllRegs -> Words]
      BY <1>1, WithReg, MachParts
    <2> HIDE DEF d
    <2> QED
      BY <1>1, <2>1
  <1>9. \A r \in AllRegs : r # "zero" => d.R[r] = m.R[r]
    BY <1>1, WithReg
  <1> HIDE DEF d
  <1> QED
    BY <1>2, <1>3, <1>4, <1>5, <1>6, <1>7, <1>8, <1>9 DEF z

\* Outside the handler the view is the machine.
LEMMA UserView ==
  ASSUME ~InHandler(m.cp0)
  PROVE  UserPC = m.PC /\ \A r : UserRegister(r) = m.R[r]
  BY DEF UserPC, UserRegister

LEMMA MachineParts ==
  ASSUME MachOk(m), ~InHandler(m.cp0)
  PROVE  LET u == User!Machine
         IN  /\ MachFields(u) /\ u.hilo = m.hilo /\ u.PC = m.PC
             /\ u.R = [r \in AllRegs |-> IF r \in UserRegs THEN m.R[r] ELSE 0]
             /\ u.cp0 = [Status |-> 0, Cause |-> 0, EPC |-> 0, BadVAddr |-> 0, Compare |-> 0]
             /\ u.mem = [s \in DOMAIN MakeMemory |-> IF s \in Shared THEN m.mem[s] ELSE MakeMemory[s]]
  <1> DEFINE g == [r \in UserRegs |-> UserRegister(r)]
             h == [s \in Shared |-> m.mem[s]]
             gg == [r \in UserRegs \cup {"zero", "k0", "k1"} |-> IF r \in UserRegs THEN g[r] ELSE 0]
             hh == [s \in DOMAIN MakeMemory |-> IF s \in Shared THEN h[s] ELSE MakeMemory[s]]
             c == [Status |-> 0, Cause |-> 0, EPC |-> 0, BadVAddr |-> 0, Compare |-> 0]
             u == [R |-> gg, hilo |-> m.hilo, PC |-> UserPC, cp0 |-> c, mem |-> hh]
  <1>1. User!Machine = u
    BY DEF User!Machine, User!Segments, Shared
  <1>2. UserPC = m.PC /\ \A r : UserRegister(r) = m.R[r]
    BY UserView
  <1>3. gg = [r \in AllRegs |-> IF r \in UserRegs THEN m.R[r] ELSE 0]
    <2>1. \A r \in UserRegs : g[r] = m.R[r]
      BY <1>2
    <2> HIDE DEF g
    <2> QED
      BY <2>1 DEF AllRegs
  <1>4. hh = [s \in DOMAIN MakeMemory |-> IF s \in Shared THEN m.mem[s] ELSE MakeMemory[s]]
    <2>1. \A s \in Shared : h[s] = m.mem[s]
      OBVIOUS
    <2> HIDE DEF h
    <2> QED
      BY <2>1
  <1> HIDE DEF gg, hh, c
  <1>5. MachFields(u) /\ u.hilo = m.hilo /\ u.PC = m.PC /\ u.R = gg /\ u.cp0 = c /\ u.mem = hh
    BY <1>2 DEF MachFields
  <1> HIDE DEF u
  <1> QED
    BY <1>1, <1>3, <1>4, <1>5 DEF c

\* UserMachine's machine has the type of a machine.
LEMMA MachineFits ==
  ASSUME MachOk(m), ~InHandler(m.cp0)
  PROVE  MachOk(User!Machine)
  <1> DEFINE u == User!Machine
  <1>1. /\ MachFields(u) /\ u.hilo = m.hilo /\ u.PC = m.PC
        /\ u.R = [r \in AllRegs |-> IF r \in UserRegs THEN m.R[r] ELSE 0]
        /\ u.cp0 = [Status |-> 0, Cause |-> 0, EPC |-> 0, BadVAddr |-> 0, Compare |-> 0]
        /\ u.mem = [s \in DOMAIN MakeMemory |-> IF s \in Shared THEN m.mem[s] ELSE MakeMemory[s]]
    BY MachineParts
  <1> HIDE DEF u
  <1>2. m.R \in [AllRegs -> Words] /\ m.hilo \in Pairs /\ m.PC \in Words /\ MemOk(m.mem)
    BY MachParts
  <1>3. u.R \in [AllRegs -> Words]
    <2>1. 0 \in Words
      BY WordsAre
    <2> QED
      BY <1>1, <1>2, <2>1
  <1>4. u.cp0 \in Cp0s
    <2>1. 0 \in Words
      BY WordsAre
    <2> QED
      BY <1>1, <2>1 DEF Cp0s, Cp0Names
  <1>5. MemOk(u.mem)
    <2> DEFINE o == u.mem
               f == MakeMemory
    <2>1. DOMAIN f = MemParts \cup {"k_data_top"} /\ MemOk(f)
      BY FreshIs, FreshFits
    <2> HIDE DEF f
    <2>2. o = [s \in MemParts \cup {"k_data_top"} |-> IF s \in Shared THEN m.mem[s] ELSE f[s]]
      BY <1>1, <2>1 DEF f
    <2> HIDE DEF o
    <2>3. /\ o.text = m.mem.text /\ o.data = m.mem.data /\ o.stack = m.mem.stack
          /\ o.special = m.mem.special /\ o.data_top = m.mem.data_top /\ o.stack_bot = m.mem.stack_bot
          /\ o.k_data = f.k_data /\ o.k_data_top = f.k_data_top
      BY <2>2 DEF Shared, MemParts
    <2>4. MemFields(o)
      BY <2>2 DEF MemFields, MemParts
    <2>5. MemBounds(o)
      BY <1>2, <2>1, <2>3 DEF MemOk, MemBounds
    <2>6. MemContents(o)
      BY <1>2, <2>1, <2>3 DEF MemOk, MemContents
    <2> QED
      BY <2>4, <2>5, <2>6 DEF MemOk, o
  <1> QED
    BY <1>1, <1>2, <1>3, <1>4, <1>5 DEF MachOk, u

\* And it is like the machine, as far as the program sees.
LEMMA MachineAlike ==
  ASSUME MachOk(m), ~InHandler(m.cp0)
  PROVE  Alike(Zeroed, User!Machine)
  <1> DEFINE u == User!Machine
             z == Zeroed
  <1>1. /\ u.hilo = m.hilo /\ u.PC = m.PC
        /\ u.R = [r \in AllRegs |-> IF r \in UserRegs THEN m.R[r] ELSE 0]
        /\ u.mem = [s \in DOMAIN MakeMemory |-> IF s \in Shared THEN m.mem[s] ELSE MakeMemory[s]]
    BY MachineParts
  <1>2. /\ z.hilo = m.hilo /\ z.PC = m.PC /\ z.mem = m.mem
        /\ z.R.zero = 0 /\ \A r \in AllRegs : r # "zero" => z.R[r] = m.R[r]
    BY ZeroedIs
  <1> HIDE DEF u, z
  <1>3. MemLike(z.mem, u.mem)
    <2>1. \A s \in Shared : s \in DOMAIN MakeMemory
      BY FreshIs DEF Shared, MemParts
    <2> QED
      BY <1>1, <1>2, <2>1 DEF MemLike
  <1>4. \A x \in Own : z.R[x] = u.R[x]
    BY <1>1, <1>2, RegistersAre, OwnIs DEF Own
  <1> QED
    BY <1>1, <1>2, <1>3, <1>4 DEF Alike, u, z

-----------------------------------------------------------------------------
(* The program's instruction *)

\* Outside the handler both machines fetch the same instruction, or neither can.
LEMMA UserFetch ==
  ASSUME MachOk(m), ~InHandler(m.cp0), Running
  PROVE  /\ HasInstruction(m.PC) <=> User!CanFetch
         /\ HasInstruction(m.PC) => InstructionAt(m) = User!Fetched /\ InText(m.PC) /\ m.PC % 4 = 0
         /\ ~ended
  <1>1. UserPC = m.PC
    BY UserView
  <1>2. ~InKernelText(m.PC) /\ ~ended
    BY ProgramsAssumption DEF Running, InKernelText
  <1>3. User!CanFetch <=> InText(m.PC) /\ m.PC % BYTES_PER_WORD = 0 /\ m.PC \notin Missing
    BY Zenon, <1>1 DEF User!CanFetch
  <1>4. HasInstruction(m.PC) <=> InText(m.PC) /\ m.PC % BYTES_PER_WORD = 0 /\ m.PC \notin Missing
    BY Zenon, <1>2 DEF HasInstruction
  <1>5. User!Fetched = Decode(Fetch(m.mem.text, m.PC - TEXT_BOT, BYTES_PER_WORD))
    <2> DEFINE h == [s \in {"text", "data", "stack", "special", "data_top", "stack_bot"} |-> m.mem[s]]
    <2>1. User!Fetched = Decode(Fetch(h.text, UserPC - TEXT_BOT, BYTES_PER_WORD))
      BY DEF User!Fetched
    <2>2. h.text = m.mem.text
      OBVIOUS
    <2> HIDE DEF h
    <2> QED
      BY Zenon, <1>1, <2>1, <2>2
  <1>6. InText(m.PC) => InstructionAt(m) = User!Fetched
    BY Zenon, <1>5 DEF InstructionAt
  <1> QED
    BY Zenon, <1>2, <1>3, <1>4, <1>6 DEF BYTES_PER_WORD

\* The address of an instruction of the text is that of a word, and so is the next.
LEMMA TextPlace ==
  ASSUME NEW x \in Nat, InText(x), x % 4 = 0
  PROVE  Word(x + BYTES_PER_WORD) = x + 4 /\ RoundDown(x) = x
  <1>1. /\ TEXT_BOT \in Nat /\ TEXT_SIZE \in Nat /\ DATA_BOT \in Nat /\ STACK_TOP \in Nat
        /\ TEXT_BOT + TEXT_SIZE <= DATA_BOT /\ DATA_BOT <= STACK_TOP
    BY Layout
  <1>2. /\ STACK_TOP <= K_DATA_BOT /\ K_DATA_BOT + K_DATA_SIZE + H <= W /\ W \in Nat /\ H \in Nat
        /\ H >= 128
        /\ K_DATA_BOT \in Nat /\ K_DATA_SIZE \in Nat
    BY KernelLayout
  <1>3. x + 4 \in 0 .. W - 1
    BY <1>1, <1>2 DEF InText
  <1>4. x + 4 \in Words
    BY Zenon, <1>3, WordsAre
  <1>5. Word(x + 4) = x + 4
    <2> DEFINE y == x + 4
    <2> HIDE DEF y
    <2>1. y \in Words => Word(y) = y
      BY WordSame
    <2> QED
      BY <1>4, <2>1 DEF y
  <1>6. RoundDown(x) = x
    BY DEF RoundDown, BYTES_PER_WORD
  <1> QED
    BY <1>5, <1>6 DEF BYTES_PER_WORD

\* What the program's instruction does to the machine and to the user's.
LEMMA UserEffect ==
  ASSUME MachOk(m), Apart(m.mem), ~InHandler(m.cp0), Stepping, NEW input \in Inputs,
         NEW i, i = InstructionAt(m), NEW e, e = Execute(Zeroed, i, input),
         NEW f, f = Execute(User!Machine, i, input)
  PROVE  Good(Zeroed, e) /\ Same(e, f) /\ Good(User!Machine, f)
  <1>1. KeepsToUser(Zeroed, i)
    BY DEF Stepping
  <1>2. /\ i.op \in UserOps /\ Uses(i)
        /\ i.op \in AccessOps => Reaches(Zeroed, i)
    BY <1>1 DEF KeepsToUser, Uses, Own, Reaches, InKernelData
  <1>3. MachOk(Zeroed) /\ Apart(Zeroed.mem)
    BY ZeroedIs
  <1>4. input \in Words
    BY ProgramsAssumption
  <1>5. MachOk(User!Machine) /\ Alike(Zeroed, User!Machine)
    BY MachineFits, MachineAlike
  <1>6. Good(Zeroed, e)
    BY <1>2, <1>3, <1>4, UserGood
  <1> DEFINE z == Zeroed
             u == User!Machine
  <1>7. MachOk(z) /\ MachOk(u) /\ Alike(z, u) /\ Apart(z.mem)
        /\ (i.op \in AccessOps => Reaches(z, i)) /\ e = Execute(z, i, input) /\ f = Execute(u, i, input)
    BY <1>2, <1>3, <1>5
  <1> HIDE DEF z, u
  <1>8. Same(e, f)
    BY <1>2, <1>4, <1>7, UserSame
  <1>9. Apart(u.mem)
    <2>1. z.mem.data_top = u.mem.data_top /\ z.mem.stack_bot = u.mem.stack_bot
      BY <1>7 DEF Alike, MemLike, Shared
    <2> QED
      BY <1>7, <2>1 DEF Apart
  <1>10. Good(u, f)
    BY <1>2, <1>4, <1>7, <1>9, UserGood
  <1> QED
    BY <1>6, <1>8, <1>10 DEF z, u

-----------------------------------------------------------------------------
(* What a step shows *)

\* The program's view after a step.
LEMMA PrimedView ==
  /\ UserPC' = ViewPC(m')
  /\ \A r : UserRegister(r)' = ViewReg(m', r)
  <1>1. UserPC' = ViewPC(m')
    BY DEF UserPC, ViewPC
  <1>2. ASSUME NEW r
        PROVE  UserRegister(r)' = ViewReg(m', r)
    BY DEF UserRegister, ViewReg, Place, PlaceOf, Kept, KeptIn
  <1> QED
    BY <1>1, <1>2

\* A step that is not seen leaves UserMachine's variables alone.
LEMMA Unseen ==
  ASSUME Seen(m, m'), ended' = ended
  PROVE  UNCHANGED User!vars
  <1>1. UserPC' = UserPC
    BY PrimedView, ViewsAre DEF Seen
  <1>2. [r \in UserRegs |-> UserRegister(r)'] = [r \in UserRegs |-> UserRegister(r)]
    BY PrimedView, ViewsAre DEF Seen
  <1>3. [s \in Shared |-> m'.mem[s]] = [s \in Shared |-> m.mem[s]]
    BY DEF MemLike, Seen
  <1> QED
    BY <1>1, <1>2, <1>3 DEF User!vars, Shared, Seen

LEMMA WithPC ==
  ASSUME NEW a, MachFields(a), NEW n
  PROVE  LET d == [a EXCEPT !.PC = n]
         IN  /\ MachFields(d) /\ d.R = a.R /\ d.hilo = a.hilo /\ d.cp0 = a.cp0 /\ d.PC = n /\ d.mem = a.mem
             /\ n = a.PC => d = a
  BY DEF MachFields

\* What the machine is when it has come to the handler.
Entered(a, b) ==
  /\ MachOk(b) /\ b.mem = a.mem /\ b.hilo = a.hilo /\ InHandler(b.cp0) /\ AtPlace(b, 0)
  /\ ViewPC(b) = Word(RoundDown(a.PC) + BYTES_PER_WORD)
  /\ \A r : ViewReg(b, r) = a.R[r]

\* handle_exception: the machine is at the handler's first instruction, and the program sees
\* that it goes on after the faulting one.
LEMMA Enters ==
  ASSUME NEW a, MachOk(a), ~InHandler(a.cp0), NEW c, Raised(a, c),
         NEW b, b = [c EXCEPT !.PC = EXCEPTION_ADDR]
  PROVE  Entered(a, b)
  <1>1. /\ MachFields(c) /\ c.R = a.R /\ c.hilo = a.hilo /\ c.mem = a.mem /\ c.cp0 \in Cp0s
        /\ c.cp0.EPC = RoundDown(a.PC) /\ InHandler(c.cp0)
    BY DEF Raised
  <1>2. /\ MachFields(b) /\ b.R = c.R /\ b.hilo = c.hilo /\ b.cp0 = c.cp0 /\ b.PC = EXCEPTION_ADDR
        /\ b.mem = c.mem
    BY <1>1, WithPC
  <1>3. EXCEPTION_ADDR \in Nat /\ EXCEPTION_ADDR = EXCEPTION_ADDR + 4 * 0
    BY Layout
  <1>4. At(b, 0)
    BY <1>2, <1>3 DEF At
  <1>5. b.PC \in Words
    <2>1. EXCEPTION_ADDR \in 0 .. W - 1
      <3>1. EXCEPTION_ADDR + 4 * Len(Handler) <= K_DATA_BOT /\ Len(Handler) = 53
        BY CpuAssumption, HandlerLength
      <3>2. K_DATA_BOT \in Nat /\ K_DATA_SIZE \in Nat /\ K_DATA_BOT + K_DATA_SIZE + H <= W
            /\ W \in Nat /\ H \in Nat /\ H >= 128
        BY KernelLayout
      <3> QED
        BY <1>3, <3>1, <3>2
    <2> QED
      BY Zenon, <1>2, <2>1, WordsAre
  <1>6. a.PC \in Int
    BY MachParts
  <1>7. RoundDown(a.PC) % 4 = 0
    BY <1>6, WholeWords
  <1>8. AtPlace(b, 0)
    BY <1>1, <1>2, <1>4, <1>7 DEF AtPlace
  <1>9. MachOk(b)
    <2>1. a.R \in [AllRegs -> Words] /\ a.hilo \in Pairs /\ MemOk(a.mem)
      BY MachParts
    <2> QED
      BY <1>1, <1>2, <1>5, <2>1 DEF MachOk
  <1>10. InHandler(b.cp0)
    BY <1>1, <1>2
  <1>11. /\ ViewPC(b) = Word(b.cp0.EPC + 4)
         /\ ViewReg(b, "at") = b.R.at /\ ViewReg(b, "v0") = b.R.v0 /\ ViewReg(b, "a0") = b.R.a0
         /\ \A r : r \notin {"at", "v0", "a0"} => ViewReg(b, r) = b.R[r]
    <2> DEFINE p == 0
    <2>1. p \in Nat /\ p < 1 /\ At(b, p)
      BY <1>4
    <2> HIDE DEF p
    <2>2. ~(p >= 43) /\ p \notin 1 .. 47 /\ p \notin 3 .. 44 /\ p \notin 5 .. 46
      BY <2>1
    <2>3. /\ ViewPC(b) = IF p >= 43 THEN b.cp0.EPC ELSE Word(b.cp0.EPC + 4)
          /\ ViewReg(b, "at") = IF p \in 1 .. 47 THEN b.R.k1 ELSE b.R.at
          /\ ViewReg(b, "v0") = IF p \in 3 .. 44 THEN KeptIn(b, S1) ELSE b.R.v0
          /\ ViewReg(b, "a0") = IF p \in 5 .. 46 THEN KeptIn(b, S2) ELSE b.R.a0
          /\ \A r : r \notin {"at", "v0", "a0"} => ViewReg(b, r) = b.R[r]
      BY <2>1, <1>10, ViewAt
    <2> QED
      BY <2>2, <2>3
  <1>12. \A r : ViewReg(b, r) = b.R[r]
    BY <1>11
  <1> QED
    BY <1>1, <1>2, <1>8, <1>9, <1>10, <1>11, <1>12 DEF Entered, BYTES_PER_WORD

-----------------------------------------------------------------------------
(* The program's steps *)

\* What holds of the machine between two steps.
Fits(b) ==
  /\ MachOk(b) /\ Apart(b.mem)
  /\ InHandler(b.cp0) => \E q : AtPlace(b, q)

\* The machine b shows to the program as g does at n.
Shown(b, g, n) ==
  /\ ViewPC(b) = n /\ b.hilo = g.hilo /\ MemLike(b.mem, g.mem)
  /\ \A r \in UserRegs : ViewReg(b, r) = g.R[r]

\* What Shown says of UserMachine's variables.
LEMMA ShownParts ==
  ASSUME NEW g, NEW n, Shown(m', g, n)
  PROVE  /\ UserPC' = n /\ [r \in UserRegs |-> UserRegister(r)'] = [r \in UserRegs |-> g.R[r]]
         /\ m'.hilo = g.hilo /\ [s \in Shared |-> m'.mem[s]] = [s \in Shared |-> g.mem[s]]
  <1>1. UserPC' = n
    BY PrimedView DEF Shown
  <1>2. [r \in UserRegs |-> UserRegister(r)'] = [r \in UserRegs |-> g.R[r]]
    BY PrimedView DEF Shown
  <1>3. [s \in Shared |-> m'.mem[s]] = [s \in Shared |-> g.mem[s]]
    BY DEF MemLike, Shown
  <1> QED
    BY <1>1, <1>2, <1>3 DEF Shown

\* The program's step is one that has the effect f.
Shows(f) ==
  IF f.leave
  THEN ended' = (User!Fetched.op = "SYSCALL") /\ Shown(m', f.m, UserPC)
  ELSE ended' = ended /\ Shown(m', f.m, IF f.faults = <<>> THEN f.next ELSE User!Skipped)

\* An effect that shows is a step of UserMachine.
LEMMA RunsWith ==
  ASSUME ~ended, User!CanFetch, NEW input \in Inputs, Shows(Execute(User!Machine, User!Fetched, input))
  PROVE  User!Next
  <1> DEFINE f == Execute(User!Machine, User!Fetched, input)
  <1>1. Shown(m', f.m, UserPC) => User!After(f.m, UserPC)
    <2> DEFINE g == f.m
               n == UserPC
    <2> HIDE DEF g, n
    <2>1. Shown(m', g, n) => User!After(g, n)
      BY ShownParts DEF User!After, User!UserPart, User!Segments, Shared
    <2> QED
      BY <2>1 DEF g, n
  <1>2. Shown(m', f.m, IF f.faults = <<>> THEN f.next ELSE User!Skipped)
          => User!After(f.m, IF f.faults = <<>> THEN f.next ELSE User!Skipped)
    <2> DEFINE g == f.m
               n == IF f.faults = <<>> THEN f.next ELSE User!Skipped
    <2> HIDE DEF g, n
    <2>1. Shown(m', g, n) => User!After(g, n)
      BY ShownParts DEF User!After, User!UserPart, User!Segments, Shared
    <2> QED
      BY <2>1 DEF g, n
  <1>3. \/ f.leave /\ ended' = (User!Fetched.op = "SYSCALL") /\ User!After(f.m, UserPC)
        \/ ~f.leave /\ ended' = ended
             /\ User!After(f.m, IF f.faults = <<>> THEN f.next ELSE User!Skipped)
    BY Zenon, <1>1, <1>2 DEF Shows
  <1>4. User!Run
    BY Zenon, <1>3 DEF User!Run
  <1> QED
    BY <1>4 DEF User!Next

LEMMA ShownSame ==
  ASSUME NEW e, NEW f, Same(e, f), NEW b, NEW n, ViewPC(b) = n, \A r \in UserRegs : ViewReg(b, r) = e.m.R[r],
         b.hilo = e.m.hilo, b.mem = e.m.mem
  PROVE  Shown(b, f.m, n)
  <1>1. e.m.hilo = f.m.hilo /\ MemLike(e.m.mem, f.m.mem) /\ \A x \in Own : e.m.R[x] = f.m.R[x]
    BY DEF Same, Alike
  <1>2. \A r \in UserRegs : ViewReg(b, r) = f.m.R[r]
    BY <1>1 DEF Own
  <1> QED
    BY <1>1, <1>2 DEF Shown, MemLike

LEMMA Outside ==
  ASSUME NEW b, ~InHandler(b.cp0)
  PROVE  ViewPC(b) = b.PC /\ \A r : ViewReg(b, r) = b.R[r]
  BY DEF ViewPC, ViewReg

\* What a step needs of the program's instruction.
Taken(i, input, e, f) ==
  /\ i = InstructionAt(m) /\ i = User!Fetched /\ User!CanFetch /\ ~ended
  /\ InText(m.PC) /\ m.PC % 4 = 0
  /\ e = Execute(Zeroed, i, input) /\ f = Execute(User!Machine, i, input) /\ input \in Inputs
  /\ Good(Zeroed, e) /\ Same(e, f)

LEMMA TakenShows ==
  ASSUME NEW i, NEW input, NEW e, NEW f, Taken(i, input, e, f), Shows(f)
  PROVE  User!Next
  <1>1. Shows(Execute(User!Machine, User!Fetched, input))
    BY Zenon DEF Taken
  <1> QED
    BY <1>1, RunsWith DEF Taken

\* The program's instruction has the same effect on both machines.
LEMMA Takes ==
  ASSUME Fits(m), ~InHandler(m.cp0), Stepping, NEW e \in Effects
  PROVE  \E i, input, f : Taken(i, input, e, f)
  <1> DEFINE i == InstructionAt(m)
  <1>1. PICK input \in Inputs : e = Execute(Zeroed, i, input)
    BY DEF Effects
  <1> DEFINE f == Execute(User!Machine, i, input)
  <1>2. MachOk(m) /\ Apart(m.mem) /\ Running /\ HasInstruction(m.PC)
    BY DEF Fits, Stepping
  <1>3. User!CanFetch /\ i = User!Fetched /\ InText(m.PC) /\ m.PC % 4 = 0 /\ ~ended
    BY <1>2, UserFetch
  <1>4. Good(Zeroed, e) /\ Same(e, f)
    <2> HIDE DEF i
    <2>1. i = InstructionAt(m)
      BY DEF i
    <2> QED
      BY <1>1, <1>2, <2>1, UserEffect
  <1>5. Taken(i, input, e, f)
    BY <1>1, <1>3, <1>4 DEF Taken
  <1> QED
    BY <1>5

LEMMA OutsideKept ==
  ASSUME MachOk(m), ~InHandler(m.cp0), NEW e, Good(Zeroed, e)
  PROVE  ~InHandler(e.m.cp0) /\ MachOk(e.m) /\ MachFields(e.m) /\ e.m.PC = m.PC /\ e.next \in Words
  <1>1. MachOk(e.m) /\ e.m.PC = Zeroed.PC /\ e.m.cp0.Status = Zeroed.cp0.Status /\ e.next \in Words
    BY DEF Good
  <1>2. Zeroed.PC = m.PC /\ Zeroed.cp0 = m.cp0
    BY ZeroedIs
  <1>3. MachFields(e.m)
    BY <1>1, MachParts
  <1> QED
    BY <1>1, <1>2, <1>3 DEF InHandler

\* An instruction that does not fault.
LEMMA StepsOn ==
  ASSUME Fits(m), ~InHandler(m.cp0), NEW i, NEW input, NEW e, NEW f, Taken(i, input, e, f),
         ~e.leave, e.faults = <<>>, Apart(e.m.mem), m' = EndOfStep(m, e), ended' = ended
  PROVE  Fits(m') /\ User!Next
  <1>1. MachOk(m) /\ Good(Zeroed, e) /\ Same(e, f)
    BY DEF Fits, Taken
  <1>2. m' = Onward(e)
    BY DEF EndOfStep, Onward
  <1>3. /\ m'.R = e.m.R /\ m'.hilo = e.m.hilo /\ m'.cp0 = e.m.cp0 /\ m'.mem = e.m.mem
        /\ m'.PC = e.next
    BY <1>1, <1>2, OnwardIs
  <1>4. ~InHandler(m'.cp0)
    BY <1>1, <1>3, OutsideKept
  <1>5. Fits(m')
    <2>1. MachOk(m')
      BY <1>1, <1>2, OnwardFits
    <2> QED
      BY <1>3, <1>4, <2>1 DEF Fits
  <1>6. ViewPC(m') = e.next /\ \A r : ViewReg(m', r) = e.m.R[r]
    BY <1>3, <1>4, Outside
  <1>7. Shown(m', f.m, e.next)
    BY <1>1, <1>3, <1>6, ShownSame
  <1>8. Shows(f)
    <2>1. f.next = e.next /\ ~f.leave /\ f.faults = <<>>
      BY <1>1 DEF Same
    <2> QED
      BY Zenon, <1>7, <2>1 DEF Shows
  <1> QED
    BY Zenon, <1>5, <1>8, TakenShows

\* An instruction that faults.
LEMMA EndFaulty ==
  ASSUME MachOk(m), ~InHandler(m.cp0), NEW e, Good(Zeroed, e), e.faults # <<>>,
         InText(m.PC), m.PC % 4 = 0
  PROVE  Entered(e.m, EndOfStep(m, e))
  <1> DEFINE a == e.m
  <1>1. ~InHandler(a.cp0) /\ MachOk(a) /\ MachFields(a) /\ a.PC = m.PC
    BY OutsideKept
  <1>2. e.faults \in FaultLists /\ e.next = Word(m.PC + BYTES_PER_WORD)
    BY ZeroedIs DEF Good
  <1>3. m.PC \in Nat
    BY MachParts
  <1>4. [a EXCEPT !.PC = m.PC] = a
    BY <1>1, WithPC
  <1> DEFINE c == RaiseAll(a, e.faults)
             late == [c EXCEPT !.cp0.EPC = e.next - BYTES_PER_WORD]
  <1>5. Raised(a, c)
    BY <1>1, <1>2, RaiseAllRaised
  <1>6. e.next - BYTES_PER_WORD = m.PC /\ RoundDown(m.PC) = m.PC
    <2>1. Word(m.PC + BYTES_PER_WORD) = m.PC + 4
      BY <1>3, TextPlace
    <2>3. RoundDown(m.PC) = m.PC
      BY <1>3, TextPlace
    <2>4. e.next = m.PC + 4
      BY Zenon, <1>2, <2>1
    <2>5. e.next - BYTES_PER_WORD = m.PC
      BY <1>3, <2>4 DEF BYTES_PER_WORD
    <2> QED
      BY Zenon, <2>3, <2>5
  <1> HIDE DEF a, c
  <1>7. MachFields(c) /\ c.cp0 \in Cp0s /\ c.cp0.EPC = m.PC
    BY <1>1, <1>5, <1>6 DEF Raised
  <1>8. late = c
    <2>1. [c.cp0 EXCEPT !.EPC = m.PC] = c.cp0
      BY <1>7 DEF Cp0s, Cp0Names
    <2>2. late = [c EXCEPT !.cp0 = [c.cp0 EXCEPT !.EPC = m.PC]]
      BY <1>6, <1>7 DEF MachFields
    <2>3. [c EXCEPT !.cp0 = c.cp0] = c
      BY <1>7 DEF MachFields
    <2> QED
      BY Zenon, <2>1, <2>2, <2>3
  <1>9. EndOfStep(m, e) = Handle(c)
    <2>1. EndOfStep(m, e) = Handle(IF Signed(c.cp0.Cause) \div 4 > LAST_REAL_EXCEPT THEN late ELSE c)
      BY <1>4 DEF EndOfStep, c, a
    <2> HIDE DEF late
    <2> QED
      BY Zenon, <1>8, <2>1
  <1>10. Entered(a, Handle(c))
    BY <1>1, <1>5, Enters DEF Handle
  <1> QED
    BY <1>9, <1>10 DEF a

LEMMA Skips ==
  ASSUME MachOk(m), ~InHandler(m.cp0), NEW a, a.PC = m.PC, NEW b, Entered(a, b)
  PROVE  ViewPC(b) = User!Skipped
  BY UserView DEF Entered, User!Skipped

LEMMA StepsIn ==
  ASSUME Fits(m), ~InHandler(m.cp0), NEW i, NEW input, NEW e, NEW f, Taken(i, input, e, f),
         ~e.leave, e.faults # <<>>, Apart(e.m.mem), m' = EndOfStep(m, e), ended' = ended
  PROVE  Fits(m') /\ User!Next
  <1>1. MachOk(m) /\ Good(Zeroed, e) /\ Same(e, f) /\ InText(m.PC) /\ m.PC % 4 = 0
    BY DEF Fits, Taken
  <1>2. Entered(e.m, m')
    BY <1>1, EndFaulty
  <1>3. Fits(m')
    BY <1>2 DEF Fits, Entered
  <1>4. e.m.PC = m.PC
    BY <1>1, OutsideKept
  <1>5. ViewPC(m') = User!Skipped
    BY <1>1, <1>2, <1>4, Skips
  <1>6. Shown(m', f.m, User!Skipped)
    <2>1. (\A r : ViewReg(m', r) = e.m.R[r]) /\ m'.hilo = e.m.hilo /\ m'.mem = e.m.mem
      BY <1>2 DEF Entered
    <2> QED
      BY <1>1, <1>5, <2>1, ShownSame
  <1>7. Shows(f)
    <2>1. ~f.leave /\ f.faults # <<>>
      BY <1>1 DEF Same
    <2> QED
      BY Zenon, <1>6, <2>1 DEF Shows
  <1> QED
    BY Zenon, <1>3, <1>7, TakenShows

\* An exit system call: nothing has changed but that the program has ended.
LEMMA Exits ==
  ASSUME Fits(m), ~InHandler(m.cp0), NEW i, NEW input, NEW e, NEW f, Taken(i, input, e, f),
         i.op = "SYSCALL", e.leave, m' = e.m, ended' = TRUE
  PROVE  Fits(m') /\ User!Next
  <1>1. MachOk(m) /\ Apart(m.mem) /\ Good(Zeroed, e) /\ Same(e, f)
    BY DEF Fits, Taken
  <1>2. e.m = Zeroed /\ f.leave
    BY <1>1 DEF Good, Same
  <1>3. /\ MachOk(Zeroed) /\ Zeroed.cp0 = m.cp0 /\ Zeroed.PC = m.PC /\ Zeroed.mem = m.mem
    BY <1>1, ZeroedIs
  <1>4. MachOk(m') /\ m'.cp0 = m.cp0 /\ m'.PC = m.PC /\ m'.mem = m.mem
    BY <1>2, <1>3
  <1>5. ~InHandler(m'.cp0)
    BY <1>4
  <1>6. Fits(m')
    BY <1>1, <1>4, <1>5 DEF Fits
  <1>7. ViewPC(m') = UserPC /\ \A r : ViewReg(m', r) = e.m.R[r]
    BY <1>4, <1>5, UserView, Outside
  <1>8. Shown(m', f.m, UserPC)
    BY <1>1, <1>7, ShownSame
  <1>9. User!Fetched.op = "SYSCALL"
    BY DEF Taken
  <1>10. Shows(f)
    BY <1>2, <1>8, <1>9 DEF Shows
  <1> QED
    BY Zenon, <1>6, <1>10, TakenShows

\* break 1: Status is as before, and the program stays.
LEMMA Breaks ==
  ASSUME Fits(m), ~InHandler(m.cp0), NEW i, NEW input, NEW e, NEW f, Taken(i, input, e, f),
         i.op = "BREAK", e.leave, ended \in BOOLEAN, ended' = ended,
         m' = [RaiseAll(e.m, e.faults) EXCEPT !.cp0.Status = BitAnd(@, BitNot(EXL))]
  PROVE  Fits(m') /\ User!Next
  <1>1. MachOk(m) /\ Apart(m.mem) /\ Good(Zeroed, e) /\ Same(e, f)
    BY DEF Fits, Taken
  <1>2. e.m = Zeroed /\ f.leave /\ e.faults \in FaultLists
    BY <1>1 DEF Good, Same
  <1>3. e.faults # <<>>
    <2> DEFINE q == <<[code |-> "Bp", addr |-> Zeroed.cp0.BadVAddr]>>
               l == (i.x = 1)
    <2>1. Execute(Zeroed, i, input) = Break(Zeroed, i)
      BY ExecuteIs DEF Taken
    <2>2. Break(Zeroed, i) = Eff(Zeroed, Word(Zeroed.PC + BYTES_PER_WORD), q, l)
      BY BreakIs
    <2>3. q # <<>>
      OBVIOUS
    <2> HIDE DEF q, l
    <2>4. e.faults = q
      BY <2>1, <2>2, EffIs DEF Taken
    <2> QED
      BY <2>3, <2>4
  <1> DEFINE c == RaiseAll(e.m, e.faults)
             s == BitAnd(c.cp0.Status, BitNot(EXL))
  <1>4. /\ MachOk(Zeroed) /\ Zeroed.cp0 = m.cp0 /\ Zeroed.PC = m.PC /\ Zeroed.mem = m.mem
    BY <1>1, ZeroedIs
  <1>5. Raised(e.m, c) /\ MachOk(c)
    <2>1. MachOk(e.m)
      BY <1>2, <1>4
    <2>2. Raised(e.m, c)
      BY <1>2, <1>3, <2>1, RaiseAllRaised
    <2> HIDE DEF c
    <2> QED
      BY <2>1, <2>2, RaisedFits
  <1>6. m' = [c EXCEPT !.cp0.Status = s]
    OBVIOUS
  <1> HIDE DEF c
  <1>7. /\ MachFields(c) /\ c.R = e.m.R /\ c.hilo = e.m.hilo /\ c.mem = e.m.mem /\ c.PC = e.m.PC
        /\ c.cp0 \in Cp0s
    BY <1>5 DEF Raised
  <1>8. s \in Words /\ Second(s) = 0
    BY <1>7, InHandlerIs, LeaveOff
  <1> HIDE DEF s
  <1> DEFINE d == [c.cp0 EXCEPT !.Status = s]
  <1>9. d \in Cp0s /\ d.Status = s
    BY <1>7, <1>8 DEF Cp0s, Cp0Names
  <1>10. m' = [c EXCEPT !.cp0 = d]
    BY <1>6, <1>7 DEF MachFields
  <1> HIDE DEF d
  <1>11. /\ m'.R = c.R /\ m'.hilo = c.hilo /\ m'.cp0 = d /\ m'.PC = c.PC /\ m'.mem = c.mem
    <2> DEFINE b == [c EXCEPT !.cp0 = d]
    <2>1. b.R = c.R /\ b.hilo = c.hilo /\ b.cp0 = d /\ b.PC = c.PC /\ b.mem = c.mem
      BY <1>5, WithCp0
    <2> HIDE DEF b
    <2>2. m' = b
      BY <1>10 DEF b
    <2> QED
      BY Zenon, <2>1, <2>2
  <1>12. MachOk(m')
    BY <1>5, <1>9, <1>10, WithCp0Fits
  <1>13. ~InHandler(m'.cp0)
    <2>1. InHandler(d) <=> Second(d.Status) = 1
      BY <1>9, InHandlerIs
    <2> QED
      BY <1>8, <1>9, <1>11, <2>1
  <1>14. Fits(m')
    BY <1>1, <1>2, <1>4, <1>7, <1>11, <1>12, <1>13 DEF Fits
  <1>15. ViewPC(m') = UserPC /\ \A r : ViewReg(m', r) = e.m.R[r]
    <2>1. ViewPC(m') = m'.PC /\ (\A r : ViewReg(m', r) = m'.R[r])
      BY <1>13, Outside
    <2>2. m'.R = e.m.R /\ m'.PC = m.PC
      BY <1>2, <1>4, <1>7, <1>11
    <2>3. UserPC = m.PC
      BY UserView
    <2> QED
      BY <2>1, <2>2, <2>3
  <1>16. Shown(m', f.m, UserPC)
    <2>1. m'.hilo = e.m.hilo /\ m'.mem = e.m.mem
      BY <1>7, <1>11
    <2> QED
      BY <1>1, <1>15, <2>1, ShownSame
  <1>17. (User!Fetched.op = "SYSCALL") = FALSE
    BY DEF Taken
  <1>18. ~ended
    BY DEF Taken
  <1>19. Shows(f)
    <2>1. ended' = (User!Fetched.op = "SYSCALL")
      BY <1>17, <1>18
    <2> QED
      BY Zenon, <1>2, <1>16, <2>1 DEF Shows
  <1> QED
    BY Zenon, <1>14, <1>19, TakenShows

\* A machine that takes no other step than R[0] = 0 shows what the user's shows.
LEMMA ZeroedShown ==
  ASSUME Fits(m), ~InHandler(m.cp0), m' = Zeroed
  PROVE  Fits(m') /\ User!After(User!Machine, UserPC)
  <1>1. MachOk(m) /\ Apart(m.mem)
    BY DEF Fits
  <1>2. /\ MachOk(Zeroed) /\ Zeroed.cp0 = m.cp0 /\ Zeroed.PC = m.PC /\ Zeroed.mem = m.mem
    BY <1>1, ZeroedIs
  <1> DEFINE z == Zeroed
             u == User!Machine
             e == Quiet(z, z)
             f == Quiet(u, z)
             n == UserPC
  <1>3. Alike(z, u)
    BY <1>1, MachineAlike
  <1>4. m' = z /\ ~InHandler(z.cp0) /\ z.PC = n
    BY <1>2, UserView
  <1> HIDE DEF z, u
  <1>5. Same(e, f) /\ e.m = z /\ f.m = u
    BY <1>3, QuietSame, QuietIs
  <1>6. ViewPC(m') = n /\ \A r : ViewReg(m', r) = z.R[r]
    BY <1>4, Outside
  <1> HIDE DEF e, f, n
  <1>7. Shown(m', f.m, n)
    BY <1>4, <1>5, <1>6, ShownSame
  <1>8. User!After(u, n)
    BY <1>5, <1>7, ShownParts DEF User!After, User!UserPart, User!Segments, Shared
  <1>9. Fits(m')
    BY <1>1, <1>2, <1>4 DEF Fits, z
  <1> QED
    BY <1>8, <1>9 DEF u, n

\* A word with no instruction.
LEMMA Stops ==
  ASSUME Fits(m), ~InHandler(m.cp0), Running, m.PC \in Missing, m' = Zeroed, ended' = TRUE
  PROVE  Fits(m') /\ User!Next
  <1>1. Fits(m') /\ User!After(User!Machine, UserPC)
    BY ZeroedShown
  <1>2. UserPC \in Missing
    BY UserView
  <1>3. User!Stop
    BY Zenon, <1>1, <1>2 DEF User!Stop, Running
  <1> QED
    BY <1>1, <1>3 DEF User!Next

\* An address that is not that of a word of the text.
LEMMA NoFetch ==
  ASSUME Fits(m), ~InHandler(m.cp0), Running, ~HasInstruction(m.PC), m.PC \notin Missing,
         m' = Handle(Raise(Zeroed, [code |-> "IBE", addr |-> m.PC])), ended' = ended
  PROVE  Fits(m') /\ User!Next
  <1>1. MachOk(m) /\ Apart(m.mem) /\ m.PC \in Words
    BY MachParts DEF Fits
  <1> DEFINE z == Zeroed
             g == [code |-> "IBE", addr |-> m.PC]
  <1>2. ~User!CanFetch /\ ~ended /\ UserPC \notin Missing
    BY <1>1, UserFetch, UserView
  <1>3. MachOk(z) /\ z.cp0 = m.cp0 /\ z.PC = m.PC /\ z.mem = m.mem
    BY <1>1, ZeroedIs
  <1>4. g \in Fault
    BY <1>1 DEF Fault, ExcCode
  <1>5. m' = Handle(Raise(z, g))
    OBVIOUS
  <1>6. Same(Quiet(z, z), Quiet(User!Machine, z))
    <2>1. Alike(z, User!Machine)
      BY <1>1, MachineAlike
    <2> HIDE DEF z
    <2> QED
      BY <2>1, QuietSame
  <1>7. ~InHandler(z.cp0)
    BY <1>3
  <1> DEFINE u == User!Machine
             e == Quiet(z, z)
             f == Quiet(u, z)
  <1> HIDE DEF z, g
  <1>8. Entered(z, m')
    <2> DEFINE c == Raise(z, g)
    <2>1. Raised(z, c)
      BY <1>3, <1>4, RaiseRaised
    <2>2. m' = [c EXCEPT !.PC = EXCEPTION_ADDR]
      BY <1>5 DEF Handle
    <2> HIDE DEF c
    <2> QED
      BY <1>3, <1>7, <2>1, <2>2, Enters
  <1>9. Fits(m')
    BY <1>1, <1>3, <1>8 DEF Fits, Entered
  <1>10. ViewPC(m') = User!Skipped
    BY <1>1, <1>3, <1>8, Skips
  <1>11. e.m = z /\ f.m = u
    BY QuietIs
  <1> HIDE DEF u, e, f
  <1>12. Shown(m', f.m, User!Skipped)
    <2>1. Same(e, f)
      BY <1>6 DEF u, e, f
    <2>2. (\A r : ViewReg(m', r) = e.m.R[r]) /\ m'.hilo = e.m.hilo /\ m'.mem = e.m.mem
      BY <1>8, <1>11 DEF Entered
    <2> QED
      BY <1>10, <2>1, <2>2, ShownSame
  <1>13. Shown(m', u, User!Skipped)
    BY <1>11, <1>12
  <1>14. User!After(u, User!Skipped)
    <2> DEFINE n == User!Skipped
    <2> HIDE DEF n
    <2>1. Shown(m', u, n) => User!After(u, n)
      BY ShownParts DEF User!After, User!UserPart, User!Segments, Shared
    <2> QED
      BY <1>13, <2>1 DEF n
  <1>15. User!NoInstruction
    BY <1>2, <1>14 DEF User!NoInstruction, u
  <1> QED
    BY <1>9, <1>15 DEF User!Next

-----------------------------------------------------------------------------
(* The handler's steps *)

\* At a place of the handler the instruction is the handler's.
LEMMA InKernel ==
  ASSUME NEW a, NEW p, At(a, p)
  PROVE  /\ InKernelText(a.PC) /\ ~InText(a.PC) /\ HasInstruction(a.PC)
         /\ InstructionAt(a) = Handler[p + 1]
  <1>1. p \in 0 .. 52 /\ p \in Nat /\ a.PC = EXCEPTION_ADDR + 4 * p
    BY DEF At
  <1>2. Len(Handler) = 53
    BY HandlerLength
  <1>3. /\ EXCEPTION_ADDR \in Nat /\ TEXT_BOT \in Nat /\ TEXT_SIZE \in Nat /\ DATA_BOT \in Nat
        /\ DATA_SIZE \in Nat
        /\ STACK_TOP \in Nat /\ STACK_SIZE \in Nat
        /\ TEXT_BOT + TEXT_SIZE <= DATA_BOT /\ DATA_BOT + DATA_SIZE <= STACK_TOP - STACK_SIZE
        /\ STACK_TOP <= EXCEPTION_ADDR /\ EXCEPTION_ADDR % 4 = 0
    BY Layout
  <1>4. InKernelText(a.PC)
    BY <1>1, <1>2, <1>3 DEF InKernelText
  <1>5. ~InText(a.PC)
    BY <1>1, <1>3 DEF InText
  <1>6. a.PC % 4 = 0
    BY <1>1, <1>3
  <1>7. HasInstruction(a.PC)
    <2>1. a.PC \notin Missing
      BY <1>4, ProgramsAssumption DEF InKernelText
    <2> QED
      BY <1>4, <1>6, <2>1 DEF HasInstruction, BYTES_PER_WORD
  <1>8. (a.PC - EXCEPTION_ADDR) \div 4 + 1 = p + 1
    BY <1>1, <1>3
  <1>9. InstructionAt(a) = Handler[p + 1]
    BY <1>5, <1>8 DEF InstructionAt, BYTES_PER_WORD
  <1> QED
    BY <1>4, <1>5, <1>7, <1>9

\* R[0] = 0 changes nothing that the handler relies on.
LEMMA ZeroedInHandler ==
  ASSUME Fits(m), InHandler(m.cp0), NEW p, AtPlace(m, p)
  PROVE  Ready(Zeroed) /\ AtPlace(Zeroed, p) /\ Seen(m, Zeroed)
  <1> DEFINE z == Zeroed
  <1>1. MachOk(m) /\ Apart(m.mem)
    BY DEF Fits
  <1>2. /\ MachOk(z) /\ z.hilo = m.hilo /\ z.cp0 = m.cp0 /\ z.PC = m.PC /\ z.mem = m.mem
        /\ z.R.zero = 0 /\ \A r \in AllRegs : r # "zero" => z.R[r] = m.R[r]
    BY <1>1, ZeroedIs
  <1> HIDE DEF z
  <1>3. Ready(z)
    BY <1>1, <1>2 DEF Ready
  <1>4. /\ \A r \in UserRegs : z.R[r] = m.R[r]
        /\ z.R.at = m.R.at /\ z.R.v0 = m.R.v0 /\ z.R.a0 = m.R.a0 /\ z.R.k0 = m.R.k0 /\ z.R.k1 = m.R.k1
    BY <1>2, RegistersAre
  <1>5. AtPlace(z, p)
    BY <1>2, <1>4 DEF AtPlace, At
  <1>6. Seen(m, z)
    <2>1. ViewPC(m) = ViewPC(z)
      BY <1>2 DEF ViewPC
    <2>2. ASSUME NEW r \in UserRegs
          PROVE  ViewReg(m, r) = ViewReg(z, r)
      <3>1. /\ PlaceOf(m) = PlaceOf(z) /\ KeptIn(m, S1) = KeptIn(z, S1)
            /\ KeptIn(m, S2) = KeptIn(z, S2)
        BY <1>2 DEF PlaceOf, KeptIn
      <3> QED
        BY <1>2, <1>4, <3>1 DEF ViewReg
    <2> QED
      BY <1>2, <2>1, <2>2 DEF Seen, MemLike
  <1> QED
    BY <1>3, <1>5, <1>6 DEF z

LEMMA SeenThrough ==
  ASSUME NEW a, NEW b, NEW c, Seen(a, b), Seen(b, c)
  PROVE  Seen(a, c)
  BY DEF Seen, MemLike

\* A step of the handler is one of HandlerStep's.
LEMMA HandlerEffect ==
  ASSUME Fits(m), InHandler(m.cp0), NEW e \in Effects
  PROVE  Handled(Zeroed, e) /\ Seen(m, Zeroed) /\ Ready(Zeroed)
  <1>1. PICK p : AtPlace(m, p)
    BY DEF Fits
  <1>2. Ready(Zeroed) /\ AtPlace(Zeroed, p) /\ Seen(m, Zeroed)
    BY <1>1, ZeroedInHandler
  <1>3. InstructionAt(m) = Handler[p + 1]
    BY <1>1, InKernel DEF AtPlace
  <1>4. PICK input \in Inputs : e = Execute(Zeroed, InstructionAt(m), input)
    BY DEF Effects
  <1> DEFINE z == Zeroed
  <1>5. Ready(z) /\ AtPlace(z, p) /\ e = Execute(z, Handler[p + 1], input)
    BY <1>2, <1>3, <1>4
  <1> HIDE DEF z
  <1>6. Handled(z, e)
    BY <1>5, HandlerStep
  <1> QED
    BY <1>2, <1>6 DEF z

LEMMA HandlerRuns ==
  ASSUME Fits(m), InHandler(m.cp0), NEW e \in Effects, Apart(e.m.mem), m' = EndOfStep(m, e), ended' = ended
  PROVE  Fits(m') /\ UNCHANGED User!vars
  <1>1. Handled(Zeroed, e) /\ Seen(m, Zeroed) /\ Ready(Zeroed)
    BY HandlerEffect
  <1>2. m' = Onward(e)
    BY <1>1 DEF Handled, EndOfStep, Onward
  <1>3. MachOk(m') /\ Seen(Zeroed, m') /\ (InHandler(m'.cp0) => \E q : AtPlace(m', q))
    BY <1>1, <1>2 DEF Handled
  <1>4. Apart(m'.mem)
    <2>1. Zeroed.mem.data_top = m'.mem.data_top /\ Zeroed.mem.stack_bot = m'.mem.stack_bot
      BY <1>3 DEF Seen, MemLike, Shared
    <2>2. Apart(Zeroed.mem)
      BY <1>1 DEF Ready
    <2> QED
      BY <2>1, <2>2 DEF Apart
  <1>5. Fits(m')
    BY <1>3, <1>4 DEF Fits
  <1>6. Seen(m, m')
    BY <1>1, <1>3, SeenThrough
  <1> QED
    BY <1>5, <1>6, Unseen

-----------------------------------------------------------------------------
(* The invariant and the theorems *)

\* The inductive invariant.
IInv == Fits(m) /\ ended \in BOOLEAN

\* It holds at the start, where the program sees its own start.
LEMMA InitFits ==
  ASSUME Init
  PROVE  IInv /\ \E program \in Programs, r \in Registers :
           User!Init(TEXT_BOT, [x \in UserRegs |-> r[x]], Pair(0, 0), User!UserPart(Loaded(program)))
  <1>1. PICK program \in Programs, r \in Registers :
          m = [R |-> [x \in AllRegs |-> IF x \in UserRegs THEN r[x] ELSE 0], hilo |-> Pair(0, 0),
               cp0 |-> InitialCp0, PC |-> TEXT_BOT, mem |-> Loaded(program)]
    BY DEF Init
  <1> DEFINE g == [x \in AllRegs |-> IF x \in UserRegs THEN r[x] ELSE 0]
             h == Pair(0, 0)
             c == InitialCp0
             o == Loaded(program)
  <1>2. MemOk(o) /\ Apart(o)
    BY LoadedFits
  <1>3. \A x \in UserRegs : r[x] \in Words
    BY ProgramsAssumption
  <1>4. g \in [AllRegs -> Words]
    BY <1>3, WordsAre
  <1>5. h \in Pairs
    BY WordsAre, PairFits
  <1>6. c \in Cp0s /\ ~InHandler(c)
    <2> DEFINE s == CU01 + IM + UM
    <2>1. s \in Words /\ Second(s) = 0
      BY MasksAre
    <2>2. c = [Status |-> s, Cause |-> 0, EPC |-> 0, BadVAddr |-> 0, Compare |-> 0]
      BY DEF InitialCp0
    <2> HIDE DEF s, c
    <2>3. c \in Cp0s /\ c.Status = s
      BY <2>1, <2>2, WordsAre DEF Cp0s, Cp0Names
    <2> QED
      BY <2>1, <2>3, InHandlerIs
  <1>7. TEXT_BOT \in Words
    <2>1. /\ TEXT_BOT \in Nat /\ TEXT_SIZE \in Nat /\ DATA_BOT \in Nat /\ STACK_TOP \in Nat
          /\ STACK_SIZE \in Nat
          /\ DATA_SIZE \in Nat /\ DATA_BOT + DATA_SIZE <= STACK_TOP - STACK_SIZE /\ TEXT_BOT + TEXT_SIZE <= DATA_BOT
      BY Layout
    <2>2. /\ STACK_TOP <= K_DATA_BOT /\ K_DATA_BOT \in Nat /\ K_DATA_SIZE \in Nat
          /\ K_DATA_BOT + K_DATA_SIZE + H <= W /\ W \in Nat /\ H \in Nat /\ H >= 128
      BY KernelLayout
    <2>3. TEXT_BOT \in 0 .. W - 1
      BY <2>1, <2>2
    <2> QED
      BY Zenon, <2>3, WordsAre
  <1> HIDE DEF g, h, c, o
  <1>8. m = [R |-> g, hilo |-> h, cp0 |-> c, PC |-> TEXT_BOT, mem |-> o]
    BY <1>1 DEF g, h, c, o
  <1>9. m.R = g /\ m.hilo = h /\ m.cp0 = c /\ m.PC = TEXT_BOT /\ m.mem = o /\ MachFields(m)
    BY <1>8 DEF MachFields
  <1>10. Fits(m)
    BY <1>2, <1>4, <1>5, <1>6, <1>7, <1>9 DEF Fits, MachOk
  <1>11. IInv
    BY <1>10 DEF IInv, Init
  <1>12. UserPC = TEXT_BOT /\ \A x : UserRegister(x) = m.R[x]
    BY <1>6, <1>9, UserView
  <1>13. [x \in UserRegs |-> UserRegister(x)] = [x \in UserRegs |-> r[x]]
    BY <1>9, <1>12, RegistersAre DEF g
  <1>14. [s \in Shared |-> m.mem[s]] = [s \in Shared |-> Loaded(program)[s]]
    BY <1>9 DEF o
  <1>15. m.hilo = Pair(0, 0) /\ ended = FALSE
    BY <1>9 DEF h, Init
  <1>16. User!Init(TEXT_BOT, [x \in UserRegs |-> r[x]], Pair(0, 0), User!UserPart(Loaded(program)))
    BY Zenon, <1>12, <1>13, <1>14, <1>15 DEF User!Init, User!UserPart, User!Segments, Shared
  <1> QED
    BY Zenon, <1>11, <1>16

\* Every step keeps the invariant, and is one of the program's or does not show.
LEMMA StepKeeps ==
  ASSUME IInv, Next
  PROVE  IInv' /\ [User!Next]_(User!vars)
  <1>1. Fits(m) /\ ended \in BOOLEAN
    BY DEF IInv
  <1>2. SUFFICES Fits(m') /\ ended' \in BOOLEAN /\ (User!Next \/ UNCHANGED User!vars)
    BY Zenon DEF IInv
  <1>3. CASE InHandler(m.cp0)
    <2>1. PICK p : AtPlace(m, p)
      BY <1>1, <1>3 DEF Fits
    <2>2. HasInstruction(m.PC)
      BY <2>1, InKernel DEF AtPlace
    <2>3. \A e \in Effects : ~e.leave
      BY <1>1, <1>3, HandlerEffect DEF Handled
    <2>4. Step
      BY <2>2, <2>3 DEF Next, BadFetch, NotInstruction, HasInstruction, Exit, BreakToDebugger
    <2>5. PICK e \in Effects : Apart(e.m.mem) /\ m' = EndOfStep(m, e) /\ ended' = ended
      BY <2>4 DEF Step
    <2>6. Fits(m') /\ UNCHANGED User!vars
      BY <1>1, <1>3, <2>5, HandlerRuns
    <2> QED
      BY <1>1, <2>5, <2>6
  <1>4. CASE ~InHandler(m.cp0)
    <2>1. CASE BadFetch
      <3>1. /\ Running /\ ~HasInstruction(m.PC) /\ m.PC \notin Missing /\ ended' = ended
            /\ m' = Handle(Raise(Zeroed, [code |-> "IBE", addr |-> m.PC]))
        BY <2>1 DEF BadFetch
      <3>2. Fits(m') /\ User!Next
        BY <1>1, <1>4, <3>1, NoFetch
      <3> QED
        BY <1>1, <3>1, <3>2
    <2>2. CASE Step
      <3>1. PICK e \in Effects : ~e.leave /\ Apart(e.m.mem) /\ m' = EndOfStep(m, e)
        BY <2>2 DEF Step
      <3>2. Stepping /\ ended' = ended
        BY <2>2 DEF Step
      <3>3. PICK i, input, f : Taken(i, input, e, f)
        BY <1>1, <1>4, <3>2, Takes
      <3>4. CASE e.faults = <<>>
        <4>1. Fits(m') /\ User!Next
          BY <1>1, <1>4, <3>1, <3>2, <3>3, <3>4, StepsOn
        <4> QED
          BY <1>1, <3>2, <4>1
      <3>5. CASE e.faults # <<>>
        <4>1. Fits(m') /\ User!Next
          BY <1>1, <1>4, <3>1, <3>2, <3>3, <3>5, StepsIn
        <4> QED
          BY <1>1, <3>2, <4>1
      <3> QED
        BY <3>4, <3>5
    <2>3. CASE Exit
      <3>1. PICK e \in Effects : e.leave /\ m' = e.m
        BY <2>3 DEF Exit
      <3>2. Stepping /\ InstructionAt(m).op = "SYSCALL" /\ ended' = TRUE
        BY <2>3 DEF Exit
      <3>3. PICK i, input, f : Taken(i, input, e, f)
        BY <1>1, <1>4, <3>2, Takes
      <3>4. i.op = "SYSCALL"
        BY <3>2, <3>3 DEF Taken
      <3>5. Fits(m') /\ User!Next
        BY <1>1, <1>4, <3>1, <3>2, <3>3, <3>4, Exits
      <3> QED
        BY <3>2, <3>5
    <2>4. CASE BreakToDebugger
      <3>1. PICK e \in Effects :
              e.leave /\ m' = [RaiseAll(e.m, e.faults) EXCEPT !.cp0.Status = BitAnd(@, BitNot(EXL))]
        BY <2>4 DEF BreakToDebugger
      <3>2. Stepping /\ InstructionAt(m).op = "BREAK" /\ ended' = ended
        BY <2>4 DEF BreakToDebugger
      <3>3. PICK i, input, f : Taken(i, input, e, f)
        BY <1>1, <1>4, <3>2, Takes
      <3>4. i.op = "BREAK"
        BY <3>2, <3>3 DEF Taken
      <3>5. Fits(m') /\ User!Next
        BY <1>1, <1>4, <3>1, <3>2, <3>3, <3>4, Breaks
      <3> QED
        BY <1>1, <3>2, <3>5
    <2>5. CASE NotInstruction
      <3>1. Running /\ m.PC \in Missing /\ m' = Zeroed /\ ended' = TRUE
        BY <2>5 DEF NotInstruction
      <3>2. Fits(m') /\ User!Next
        BY <1>1, <1>4, <3>1, Stops
      <3> QED
        BY <3>1, <3>2
    <2> QED
      BY <2>1, <2>2, <2>3, <2>4, <2>5 DEF Next
  <1> QED
    BY <1>3, <1>4

\* A step that changes nothing.
LEMMA StutterKeeps ==
  ASSUME IInv, UNCHANGED vars
  PROVE  IInv' /\ UNCHANGED User!vars
  <1>1. m' = m /\ ended' = ended
    BY DEF vars
  <1>2. IInv'
    BY <1>1 DEF IInv
  <1>3. /\ UserPC' = UserPC
        /\ [r \in UserRegs |-> UserRegister(r)'] = [r \in UserRegs |-> UserRegister(r)]
    BY <1>1, PrimedView, ViewsAre
  <1> QED
    BY <1>1, <1>2, <1>3 DEF User!vars

\* The invariant has the types in it.
LEMMA FitsTypes ==
  ASSUME IInv
  PROVE  TypeOK
  <1>1. MachOk(m) /\ (InHandler(m.cp0) => \E p : AtPlace(m, p))
    BY DEF IInv, Fits
  <1>2. m.R \in [AllRegs -> Words] /\ m.hilo \in Pairs /\ m.cp0 \in Cp0s /\ m.PC \in Words
    BY <1>1, MachParts
  <1>3. InHandler(m.cp0) => InKernelText(m.PC)
    BY <1>1, InKernel DEF AtPlace
  <1> QED
    BY <1>2, <1>3 DEF TypeOK, Pairs, Cp0s, Cp0Names

\* Every reachable machine is well typed: words in all registers, in HI, LO, cp0 and PC,
\* whatever the program executes, and a machine with EXL set is inside the handler.
THEOREM CpuTypes == Spec => []TypeOK
  <1>1. Init => IInv
    BY InitFits
  <1>2. IInv /\ [Next]_vars => IInv'
    BY StepKeeps, StutterKeeps
  <1>3. IInv => TypeOK
    BY FitsTypes
  <1> QED
    BY <1>1, <1>2, <1>3, PTL DEF Spec

\* The machine with its exceptions implements UserMachine: whatever the program, its
\* registers and the values that it reads, every step is one instruction of the program, with
\* a faulting one stepped over, or invisible to it: the handler gives back every register, and
\* brings the program to the instruction after the one that faulted.
THEOREM ExceptionsAreInvisible == Spec => ImplementsUserMachine
  <1>1. Init => IInv
    BY InitFits
  <1>2. IInv /\ [Next]_vars => IInv' /\ [User!Next]_(User!vars)
    BY StepKeeps, StutterKeeps
  <1>3. Init => \E program \in Programs, r \in Registers :
          User!Init(TEXT_BOT, [x \in UserRegs |-> r[x]], Pair(0, 0), User!UserPart(Loaded(program)))
    BY InitFits
  <1> QED
    BY <1>1, <1>2, <1>3, PTL DEF Spec, ImplementsUserMachine
==============================================================================
