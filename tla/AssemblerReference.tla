-------------------------- MODULE AssemblerReference --------------------------
(***************************************************************************)
(* What a program means: the bytes and the instructions that an assembler  *)
(* with two passes makes of it.  The first pass lays the statements out    *)
(* and gives every name its address; the second one evaluates.  Assembler  *)
(* has one pass, and must arrive at the same memory for the programs that  *)
(* are Regular; the other programs are those on which it is known not to.  *)
(***************************************************************************)
EXTENDS Assembler

-----------------------------------------------------------------------------
(* First pass: the layout *)

\* The power of two that a statement aligns the data segment to.
AlignOf(l, st) ==
  CASE st.op = "align" -> st.n
    [] st.op = "comm" -> 2
    [] st.op = "word" /\ l.dir = "data" /\ l.auto -> 2
    [] st.op = "half" /\ l.dir = "data" /\ l.auto -> 1
    [] OTHER -> 0

DataOps == {"word", "half", "byte"}
InstOps == {"branch", "jump", "load", "loadx", "la"}
SizeOf(st) ==
  CASE st.op = "word" -> 4 [] st.op = "half" -> 2 [] st.op = "byte" -> 1 [] OTHER -> 0

\* A name that has its room off gp by now is at a distance from $gp.
FromGpAt(l, st) == st.op \in {"load", "la"} /\ st.sym \in DOMAIN l.gp
DistanceAt(l, st) == st.n + l.gp[st.sym] - GpMidpoint

\* The words of the text that a statement takes.
WordsOf(l, st) ==
  CASE st.op \in {"branch", "jump"} -> 1
    [] st.op = "word" /\ l.dir = "text" -> 1
    [] FromGpAt(l, st) ->
         LET d == DistanceAt(l, st)
         IN  IF FitsSigned(d) THEN 1
             ELSE IF st.op = "la" /\ (FitsUnsigned(d) \/ Low16(d) = 0) THEN 2 ELSE 3
    [] st.op \in {"load", "la"} /\ ~FromGpAt(l, st) -> 2
    [] st.op = "loadx" -> 3
    [] OTHER -> 0

Segs(l) == IF l.kernel THEN [data |-> "kdata", text |-> "ktext"]
           ELSE [data |-> "data", text |-> "text"]

Small(l, st) == FitsGp(l, st.n)

\* The words at which the instructions of a statement go: none between two words.
Places(l, st) ==
  LET p == l.pc[Segs(l).text]
  IN  {p + 4 * (k - 1) : k \in {j \in 1 .. WordsOf(l, st) : p % 4 = 0}}

\* The layout after one more statement.
Layout1(l, st) ==
  LET d == Segs(l).data
      t == Segs(l).text
      grow == CASE st.op = "comm" -> st.n
                [] st.op = "space" /\ l.dir = "data" -> st.n
                [] st.op = "lcomm" /\ ~Small(l, st) -> st.n
                [] st.op = "word" /\ l.dir = "text" -> 0
                [] OTHER -> SizeOf(st)
      pc == [l.pc EXCEPT ![d] = RoundUp(@, AlignOf(l, st)) + grow,
                         ![t] = @ + (IF st.op = "space" /\ l.dir = "text" THEN st.n
                                     ELSE 4 * Cardinality(Places(l, st)))]
  IN  CASE st.op = "segment" ->
             [l EXCEPT !.kernel = st.sym \in {"kdata", "ktext"},
                       !.dir = IF st.sym \in {"data", "kdata"} THEN "data" ELSE "text",
                       !.auto = TRUE,
                       !.pc[st.sym] = IF st.n = 0 THEN @ ELSE st.n]
        [] st.op = "align" /\ st.n = 0 -> [l EXCEPT !.auto = FALSE]
        [] st.op \in {"extern", "lcomm"} /\ Small(l, st) ->
             [l EXCEPT !.pc = pc, !.next_gp = @ + st.n, !.gp = (st.sym :> l.next_gp) @@ @]
        [] OTHER -> [l EXCEPT !.pc = pc]

\* Is n global at the end of the first file, or of the second?
GlobalBy(n, f) ==
  (n = Main /\ f = 2) \/ \E i \in Lines : Op(i) \in {"globl", "extern"} /\ St(i).sym = n /\ InFile(i) <= f

NewFile(l) ==
  [l EXCEPT !.kernel = FALSE, !.dir = "text", !.auto = TRUE,
            !.gp = [n \in {m \in DOMAIN @ : GlobalBy(m, 1)} |-> @[n]]]

\* Layout[i]: before statement i.
Layout ==
  LET after[i \in 0 .. Len(lines)] ==
        IF i = 0 THEN [kernel |-> FALSE, dir |-> "text", auto |-> TRUE, pc |-> Bot,
                       next_gp |-> GpBot, gp |-> <<>>]
        ELSE Layout1(IF i > 1 /\ InFile(i) # InFile(i - 1) THEN NewFile(after[i - 1])
                     ELSE after[i - 1], St(i))
  IN  [i \in Lines |-> IF i > 1 /\ InFile(i) # InFile(i - 1) THEN NewFile(after[i - 1])
                       ELSE after[i - 1]]

\* The statement a label stands in front of, or 0: blank lines and labels apart.
Follows(i) ==
  LET rest == {j \in Lines : j > i /\ InFile(j) = InFile(i) /\ Op(j) # "label"}
  IN  IF rest = {} THEN 0 ELSE CHOOSE j \in rest : \A k \in rest : j <= k

Point(l) == l.pc[IF l.dir = "text" THEN Segs(l).text ELSE Segs(l).data]

\* A label names the place of the datum or of the instruction that follows it.
LabelAddress(L, i) ==
  IF L[i].dir = "data" /\ Follows(i) # 0
  THEN RoundUp(Point(L[i]), AlignOf(L[i], St(Follows(i)))) ELSE Point(L[i])

-----------------------------------------------------------------------------
(* Names *)

Defines(i) == Op(i) \in DefOps /\ (Op(i) = "extern" => St(i).n \in 1 .. SmallDataSegMaxSize)
Defs(n) == {i \in Lines : Defines(i) /\ NameOf(i) = n}
UseOps == DataOps \cup InstOps \cup {"assign"}
UsesName(i) == Op(i) \in UseOps /\ St(i).sym # NoName

\* The definition that a use in statement i refers to: one of its own file, else a
\* global one read before, else the first one read later.
DefOf(n, i) ==
  LET own == {j \in Defs(n) : InFile(j) = InFile(i)}
      before == {j \in Defs(n) : InFile(j) < InFile(i) /\ GlobalBy(n, InFile(j))}
      later == {j \in Defs(n) : InFile(j) > InFile(i)}
      of == IF own # {} THEN own ELSE IF before # {} THEN before ELSE later
  IN  IF of = {} THEN 0 ELSE CHOOSE j \in of : TRUE

RECURSIVE Meaning(_, _), Target(_, _)

\* The value of the name that statement i defines, and of the expression in it.
Meaning(L, i) ==
  CASE Op(i) = "label" -> LabelAddress(L, i)
    [] Op(i) = "labeldir" -> Point(L[i])
    [] Op(i) = "assign" -> Target(L, i)
    [] Op(i) = "comm" -> RoundUp(L[i].pc[Segs(L[i]).data], 2)
    [] Small(L[i], St(i)) -> L[i].next_gp
    [] OTHER -> L[i].pc[Segs(L[i]).data]

Target(L, i) ==
  St(i).n + (IF St(i).sym = NoName \/ DefOf(St(i).sym, i) = 0 THEN 0
             ELSE Meaning(L, DefOf(St(i).sym, i)))

-----------------------------------------------------------------------------
(* Second pass: what memory must hold, and where the instructions must lead *)

DataAt(L, i) == RoundUp(L[i].pc[Segs(L[i]).data], AlignOf(L[i], St(i)))

DataRight(L, i) ==
  \A k \in 0 .. SizeOf(St(i)) - 1 :
    LET loc == DataAt(L, i) + k
    IN  loc \in DOMAIN asm.mem /\ asm.mem[loc] = (Target(L, i) \div 256^k) % 256

\* Nothing is stored that no statement asked for.
NothingElse(L) ==
  \A loc \in DOMAIN asm.mem :
    \/ asm.mem[loc] = 0
    \/ \E i \in Lines : Op(i) \in DataOps /\ loc \in DataAt(L, i) .. DataAt(L, i) + SizeOf(St(i)) - 1

\* What the machine makes of the immediate field, a short, of branches and jumps, and the
\* address that the k instructions from p on have made when the last one is at it, with 0 in
\* the index register (run.cpp).
Short(x) == ((x + 32768) % 65536) - 32768
BranchTarget(p) == p + SignEx(4 * Short(asm.text[p].imm))
JumpTarget(p) == (p \div 268435456) * 268435456 + asm.text[p].imm * 4

Made(v, i) ==
  LET base == IF i.gp THEN GpMidpoint ELSE 0
  IN  CASE i.op = "lui" -> i.imm * 65536
        [] i.op = "ori" -> v + i.imm
        [] i.op \in {"load", "addi"} -> v + base + Short(i.imm)
        [] OTHER -> v + base
AddressMade(p, k) == FoldLeft(Made, 0, [j \in 1 .. k |-> asm.text[p + 4 * (j - 1)]])

InstRight(L, i) ==
  LET p == L[i].pc[Segs(L[i]).text]
      v == Target(L, i)
  IN  CASE Op(i) = "branch" -> BranchTarget(p) = v
        [] Op(i) = "jump" -> JumpTarget(p) = v
        [] Op(i) = "word" -> asm.text[p].imm = v
        [] OTHER -> AddressMade(p, WordsOf(L[i], St(i))) = v

SameMemory ==
  LET L == Layout
  IN  /\ \A i \in Lines : L[i].dir = "data" /\ Op(i) \in DataOps => DataRight(L, i)
      /\ NothingElse(L)
      /\ DOMAIN asm.text = UNION {Places(L[i], St(i)) : i \in Lines}
      /\ \A i \in Lines : Places(L[i], St(i)) # {} => InstRight(L, i)
-----------------------------------------------------------------------------
(* The programs on which one pass is enough.  Each condition keeps out one *)
(* thing that the source does not do as the programmer would expect.       *)

\* No name is defined twice where the first definition can be seen.
DefinedOnce ==
  \A i, j \in Lines :
    i < j /\ Defines(i) /\ Defines(j) /\ NameOf(i) = NameOf(j) =>
      InFile(i) # InFile(j) /\ ~GlobalBy(NameOf(i), 1)

\* .globl comes before the definition: flush_local_labels goes by the list it was put on.
GlobalFirst ==
  \A i \in Lines : Op(i) = "globl" =>
    ~\E j \in Defs(St(i).sym) : j < i /\ InFile(j) = InFile(i)

\* .extern and .lcomm find room off gp (or are too large for it), the one comes before any
\* use, and the other not in the kernel's data.
GpItems(L) ==
  \A i \in Lines : Op(i) \in {"extern", "lcomm"} =>
    /\ Small(L[i], St(i)) \/ St(i).n > SmallDataSegMaxSize
    /\ Op(i) = "extern" => ~\E j \in Lines : j < i /\ UsesName(j) /\ St(j).sym = St(i).sym
    /\ Op(i) = "lcomm" => ~L[i].kernel

\* In data, a name is used before it has a value only as a whole word, where words go.
ForwardUses(L) ==
  \A i \in Lines : Op(i) \in DataOps \cup {"assign"} /\ UsesName(i) =>
    LET d == DefOf(St(i).sym, i)
    IN  \/ d # 0 /\ d < i /\ Meaning(L, d) # 0
        \/ Op(i) = "word" /\ St(i).n = 0 /\ L[i].dir = "data" /\ DataAt(L, i) % 4 = 0

\* Instructions use the names of places, and branches and jumps those of words of the text.
InstNames(L) ==
  \A i \in Lines : Op(i) \in InstOps =>
    LET d == DefOf(St(i).sym, i)
    IN  /\ d # 0 /\ Op(d) # "assign"
        /\ Op(i) \in {"branch", "jump"} =>
             /\ Op(d) \in {"label", "labeldir"}
             /\ L[d].dir = "text" /\ L[d].kernel = L[i].kernel /\ Meaning(L, d) % 4 = 0

\* align_data aligns the data segment, and moves the labels, in the text too.
TextLabels(L) ==
  \A i \in Lines : Op(i) = "label" /\ L[i].dir = "text" /\ Follows(i) # 0 =>
    Op(Follows(i)) # "comm" /\ (Op(Follows(i)) = "align" => St(Follows(i)).n = 0)

Regular ==
  LET L == Layout
  IN  /\ DefinedOnce /\ GlobalFirst /\ GpItems(L) /\ ForwardUses(L) /\ InstNames(L)
      /\ TextLabels(L)

-----------------------------------------------------------------------------
(* The property *)

\* One pass with patches leaves the memory that two passes would: every word, byte and
\* instruction that names a label, before it or after it, in the same file or another,
\* gets the label's final address, and nothing else is overwritten.
OnePassIsTwoPass == phase = "done" /\ Regular => SameMemory
=============================================================================
