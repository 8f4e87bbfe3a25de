------------------------------ MODULE Assembler ------------------------------
(***************************************************************************)
(* The assembler: the statements of parser.y with what they do to the      *)
(* layout of data (data.cpp), to the text (inst.cpp) and to the labels     *)
(* (SymbolTable), and the loader that reads two files, exceptions.s and    *)
(* the user's program (spim-utils.cpp).                                    *)
(*                                                                         *)
(* A statement is a record [op, sym, n]: the directive or instruction, the *)
(* name and the number in it; ID = EXPR has the ID as of.  The behaviours  *)
(* are all the programs that can be written with at most MaxLines of the   *)
(* statements of one of the Families; lines keeps the program, for the     *)
(* properties.  The grammar's other instructions (all those without a      *)
(* symbol) and the floating point data leave the labels alone and are not  *)
(* modelled, nor are instructions in a data segment, nor a program that    *)
(* goes back over its own text or out of a segment.                        *)
(*                                                                         *)
(* ExternInPlace, EmitAnywhere and GpOffsetFromBottom are not the code but *)
(* mistakes next to it: the room that .extern takes off gp is not taken,   *)
(* an instruction is stored between two words, and $gp is taken for the    *)
(* bottom of its area.                                                     *)
(***************************************************************************)
EXTENDS SymbolTable

CONSTANTS
  Families,    \* sets of statements; a program is made of those of one of them
  MaxLines,    \* bound on the length of a program, both files together
  Bot,         \* where each segment begins, DATA_BOT + 64K for "data"
  GpBot,       \* next_gp_item_addr at the start, DATA_BOT
  GpEnd        \* gp_midpoint + 32K

SmallDataSegMaxSize == 8
Main == "main"
Segments == {"data", "kdata", "text", "ktext"}

\* .align shifts 1, an int, by its number.
ASSUME AssemblerAssumption ==
  /\ \A st \in UNION Families :
       /\ st.n \in Nat
       /\ st.op = "segment" => st.sym \in Segments
       /\ st.op = "align" => st.n \in 0 .. 30
  /\ Bot \in [Segments -> Nat \ {0}]
  /\ GpBot \in Nat /\ GpEnd \in Nat /\ GpBot < GpEnd
  /\ \A k \in 0 .. 30 : 2^k \in Nat \ {0}

VARIABLES
  asm,     \* the state of the assembler
  lines,   \* the statements read so far, with the number of their file
  file,    \* the file being read
  phase    \* "reading", "flushing" at the end of a file, "done"

avars == <<asm, lines, file, phase>>

AInit ==
  /\ asm = [table |-> <<>>, locals |-> <<>>, ring |-> FALSE, pending |-> <<>>,
            mem |-> <<>>, text |-> <<>>, errors |-> {},
            dir |-> "text", kernel |-> FALSE, auto |-> TRUE,
            pc |-> Bot, next_gp |-> GpBot]
  /\ lines = <<>> /\ file = 1 /\ phase = "reading"

-----------------------------------------------------------------------------
(* Where the next datum and the next instruction go *)

DataSeg(s) == IF s.kernel THEN "kdata" ELSE "data"
TextSeg(s) == IF s.kernel THEN "ktext" ELSE "text"
DataPc(s) == s.pc[DataSeg(s)]
TextPc(s) == s.pc[TextSeg(s)]
Here(s) == IF s.dir = "text" THEN TextPc(s) ELSE DataPc(s)

RoundUp(loc, k) == ((loc + 2^k - 1) \div 2^k) * 2^k

\* align_data: the labels of this statement move along.
AlignData(s, k) ==
  LET loc == RoundUp(DataPc(s), k)
  IN  IF k = 0 THEN [s EXCEPT !.auto = FALSE]
      ELSE MoveLabels([s EXCEPT !.pc[DataSeg(s)] = loc], loc)

SetDataAlignment(s, k) == IF s.auto THEN AlignData(s, k) ELSE s

IncrementDataPc(s, d) == [s EXCEPT !.pc[DataSeg(s)] = @ + d]

\* store_byte, store_half, store_word
Store(s, v, size) ==
  IncrementDataPc([s EXCEPT !.mem = PutBytes(@, DataPc(s), v, size)], size)

PutZeros(mem, loc, size) == [i \in loc .. loc + size - 1 |-> 0] @@ mem

StoreZeros(s, size) == IncrementDataPc([s EXCEPT !.mem = PutZeros(@, DataPc(s), size)], size)

\* An expression n or sym + n.  A name with no address is used where the next datum
\* goes, and counts as 0.
Expr(s, st) ==
  IF st.sym = NoName \/ IsDefined(s, st.sym) THEN s
  ELSE RecordUse(s, st.sym, DataUse(DataPc(s)))

Value(s, st) == st.n + Address(s, st.sym)

NotInText(s, st) == IF s.dir = "text" THEN YyError(s, st.op) ELSE s

-----------------------------------------------------------------------------
(* Instructions: inst.cpp *)

PutInst(text, pc, i) == (pc :> i) @@ text

EmitAnywhere(s, i) ==
  [s EXCEPT !.text = PutInst(@, TextPc(s), i), !.pc[TextSeg(s)] = @ + 4]

\* store_instruction: off the words of the text the instruction is dropped, with a message,
\* and the next one is to go to the same place.
Emit(s, i) ==
  IF TextPc(s) % 4 # 0 THEN s
  ELSE [s EXCEPT !.text = PutInst(@, TextPc(s), i), !.pc[TextSeg(s)] = @ + 4]

\* i_type_inst, j_type_inst when the immediate fits: resolve it, or record the use.
EmitImm(s, i) ==
  IF i.sym = NoName \/ IsDefined(s, i.sym) THEN ResolveInst(Emit(s, i), TextPc(s))
  ELSE Emit(RecordUse(s, i.sym, InstUse(TextPc(s))), i)

Branch(s, st) == EmitImm(s, Inst("branch", st.sym, 0, -1))
Jump(s, st) == EmitImm(s, Inst("jump", st.sym, 0, 0))

FitsSigned(v) == v \in -32768 .. 32767
FitsUnsigned(v) == v \in 0 .. 65535

\* make_addr_expr: without an index register, a name off gp is addressed from $gp.
GpRelative(s, st) == st.op # "loadx" /\ st.sym \in DOMAIN s.table /\ s.table[st.sym].gp
GpMidpoint == GpEnd - 32768
GpOffsetFromBottom(s, st) == st.n + s.table[st.sym].addr - GpBot
GpOffset(s, st) == st.n + s.table[st.sym].addr - GpMidpoint

\* i_type_inst_full_word for a load or store.  With an index register, or $gp, an ADDU comes
\* between the two.
Index(s, st) ==
  IF GpRelative(s, st) THEN Emit(s, FromGp(Inst("addu", NoName, 0, 0)))
  ELSE IF st.op = "loadx" THEN Emit(s, Inst("addu", NoName, 0, 0))
  ELSE s

LoadWide(s, st, upper, lower) == EmitImm(Index(EmitImm(s, upper), st), lower)

LoadValue(s, st, v) ==
  LoadWide(s, st, Inst("lui", NoName, High16(v) + SignBit(v), 0),
                  Inst("load", NoName, Low16(v), -1))

Load(s, st) ==
  LET v == Value(s, st)
      offset == GpOffset(s, st)
  IN  IF GpRelative(s, st) THEN
        IF FitsSigned(offset) THEN EmitImm(s, FromGp(Inst("load", NoName, offset, 0)))
        ELSE LoadValue(s, st, offset)
      ELSE IF ~IsDefined(s, st.sym) THEN
        LoadWide(s, st, Inst("lui", st.sym, st.n, 1), Inst("load", st.sym, st.n, -1))
      ELSE IF FitsSigned(v) THEN EmitImm(s, Inst("load", st.sym, st.n, 0))
      ELSE LoadValue(s, st, v)

\* produce_immediate
ProduceImmediate(s, sym, n, known, v) ==
  LET upper == EmitImm(s, Inst("lui", sym, n, 1))
      lower == Inst("ori", sym, n, -1)
  IN  IF known /\ Low16(v) = 0 THEN upper
      ELSE IF known /\ FitsUnsigned(v) THEN EmitImm(s, lower)
      ELSE EmitImm(upper, lower)

\* The la instruction: ORI, or ADDI to $gp, or produce_immediate (and ADD to $gp).
LoadAddress(s, st) ==
  LET v == Value(s, st)
      offset == GpOffset(s, st)
      known == IsDefined(s, st.sym)
  IN  IF GpRelative(s, st) THEN
        IF FitsSigned(offset) THEN EmitImm(s, FromGp(Inst("addi", NoName, offset, 0)))
        ELSE Emit(ProduceImmediate(s, NoName, offset, TRUE, offset),
                  FromGp(Inst("add", NoName, 0, 0)))
      ELSE IF known /\ FitsUnsigned(v) THEN EmitImm(s, Inst("ori", st.sym, st.n, 0))
      ELSE ProduceImmediate(s, st.sym, st.n, known, v)

-----------------------------------------------------------------------------
(* Directives: what they do before the labels of the statement are cleared *)

Word(s, st) ==
  LET t == IF s.dir = "data" THEN SetDataAlignment(s, 2) ELSE s
      v == Value(t, st)
  IN  IF s.dir = "data" THEN Store(Expr(t, st), v, 4)
      ELSE Emit(Expr(t, st), [Inst("word", NoName, v, 0) EXCEPT !.imm = v])

Half(s, st) ==
  LET t == IF s.dir = "data" THEN SetDataAlignment(s, 1) ELSE s
  IN  NotInText(Store(Expr(t, st), Value(t, st), 2), st)

Byte(s, st) == NotInText(Store(Expr(s, st), Value(s, st), 1), st)

Space(s, st) ==
  IF s.dir = "data" THEN IncrementDataPc(s, st.n)
  ELSE [s EXCEPT !.pc[TextSeg(s)] = @ + st.n]

Align(s, st) == AlignData(s, st.n)

Globl(s, st) == MakeGlobal(s, st.sym)

FitsGp(s, size) ==
  size > 0 /\ size <= SmallDataSegMaxSize /\ s.next_gp + size < GpEnd

ExternInPlace(s0, st) ==
  LET s == MakeGlobal(s0, st.sym)
  IN  IF s.table[st.sym].gp \/ ~FitsGp(s, st.n) THEN s
      ELSE [s EXCEPT !.table[st.sym].gp = TRUE, !.table[st.sym].addr = s.next_gp]

Extern(s0, st) ==
  LET s == MakeGlobal(s0, st.sym)
  IN  IF s.table[st.sym].gp \/ ~FitsGp(s, st.n) THEN s
      ELSE [s EXCEPT !.table[st.sym].gp = TRUE, !.table[st.sym].addr = s.next_gp,
                     !.next_gp = @ + st.n]

LComm(s, st) ==
  IF FitsGp(s, st.n) THEN
    [RecordLabel(s, st.sym, s.next_gp, TRUE) EXCEPT !.table[st.sym].gp = TRUE,
                                                    !.next_gp = @ + st.n]
  ELSE StoreZeros(RecordLabel(s, st.sym, s.pc["data"], TRUE), st.n)

Comm(s, st) ==
  LET t == AlignData(s, 2)
  IN  IncrementDataPc(
        IF IsDefined(t, st.sym) THEN t ELSE RecordLabel(t, st.sym, DataPc(t), TRUE), st.n)

LabelDir(s, st) == RecordLabel(s, st.sym, Here(s), TRUE)

\* .data, .text, .kdata, .ktext, with an address or without.
Segment(s, st) ==
  LET t == [s EXCEPT !.kernel = st.sym \in {"kdata", "ktext"},
                     !.dir = IF st.sym \in {"data", "kdata"} THEN "data" ELSE "text",
                     !.auto = TRUE]
  IN  IF st.n = 0 THEN t ELSE [t EXCEPT !.pc[st.sym] = st.n]

\* ID = EXPR
Assign(s, st) ==
  LET t == RecordLabel(Expr(s, st), st.of, Value(s, st), TRUE)
  IN  [t EXCEPT !.table[st.of].const = TRUE]

\* ID : at the head of a line.  Its address is not final before the statement that
\* follows has been read.
Label(s, st) ==
  LET t == RecordLabel(s, st.sym, Here(s), FALSE)
  IN  [t EXCEPT !.pending = <<st.sym>> \o @]

-----------------------------------------------------------------------------
(* Reading *)

\* A statement of the kinds ops is read, with the effect F.
Statements ==
  UNION {family \in Families : {lines[i].st : i \in DOMAIN lines} \subseteq family}

Read(ops, F(_, _)) ==
  /\ phase = "reading" /\ Len(lines) < MaxLines
  /\ \E st \in {x \in Statements : x.op \in ops} :
       /\ asm' = F(asm, st)
       /\ lines' = Append(lines, [st |-> st, file |-> file])
  /\ UNCHANGED <<file, phase>>

Directive(op, F(_, _)) == Read({op}, LAMBDA s, st : ClearLabels(F(s, st)))

Instruction(ops, F(_, _)) ==
  asm.dir = "text" /\ Read(ops, LAMBDA s, st : ClearLabels(F(s, st)))

ReadLabel == Read({"label"}, Label)
ReadAssign == Directive("assign", Assign)
ReadWord == Directive("word", Word)
ReadHalf == Directive("half", Half)
ReadByte == Directive("byte", Byte)
ReadSpace == Directive("space", Space)
ReadAlign == Directive("align", Align)
ReadGlobl == Directive("globl", Globl)
ReadExtern == Directive("extern", Extern)
ReadLComm == Directive("lcomm", LComm)
ReadComm == Directive("comm", Comm)
ReadLabelDir == Directive("labeldir", LabelDir)
ReadSegment == Directive("segment", Segment)
ReadBranch == Instruction({"branch"}, Branch)
ReadJump == Instruction({"jump"}, Jump)
ReadLoad == Instruction({"load", "loadx"}, Load)
ReadLa == Instruction({"la"}, LoadAddress)

\* Y_EOF, on the line of a statement or on its own.
EndOfFile ==
  /\ phase = "reading" /\ phase' = "flushing"
  /\ asm' = ClearLabels(asm)
  /\ UNCHANGED <<lines, file>>

\* flush_local_labels and end_of_assembly_file.  After exceptions.s main is declared
\* global, and the parser begins with the user's program in the text segment.
Flush ==
  /\ phase = "flushing" /\ ~asm.ring
  /\ LET s == [FlushLocals(asm) EXCEPT !.kernel = FALSE, !.auto = TRUE, !.dir = "text"]
     IN  asm' = IF file = 1 THEN RecordLabel(MakeGlobal(s, Main), Main, 0, FALSE) ELSE s
  /\ IF file = 1 THEN file' = 2 /\ phase' = "reading" ELSE phase' = "done" /\ UNCHANGED file
  /\ UNCHANGED lines

\* A ring of local labels has no end to come to.
FlushOn == phase = "flushing" /\ asm.ring /\ UNCHANGED avars

ANext ==
  \/ ReadLabel \/ ReadAssign \/ ReadWord \/ ReadHalf \/ ReadByte \/ ReadSpace
  \/ ReadAlign \/ ReadGlobl \/ ReadExtern \/ ReadLComm \/ ReadComm \/ ReadLabelDir
  \/ ReadSegment \/ ReadBranch \/ ReadJump \/ ReadLoad \/ ReadLa
  \/ EndOfFile \/ Flush \/ FlushOn

ASpec == AInit /\ [][ANext]_avars
-----------------------------------------------------------------------------
(* Properties *)

St(i) == lines[i].st
Op(i) == St(i).op
InFile(i) == lines[i].file
Lines == DOMAIN lines

DefOps == {"label", "labeldir", "assign", "lcomm", "comm", "extern"}
NameOf(i) == IF Op(i) = "assign" THEN St(i).of ELSE St(i).sym

Uses == [inst : BOOLEAN, addr : Nat]
Labels == [addr : Nat, global : BOOLEAN, gp : BOOLEAN, const : BOOLEAN, uses : Seq(Uses)]

ATypeOK ==
  /\ asm.table \in [DOMAIN asm.table -> Labels]
  /\ asm.locals \in Seq(DOMAIN asm.table) /\ asm.pending \in Seq(DOMAIN asm.table)
  /\ asm.ring \in BOOLEAN
  /\ asm.dir \in {"data", "text"} /\ asm.kernel \in BOOLEAN /\ asm.auto \in BOOLEAN
  /\ asm.pc \in [Segments -> Nat \ {0}] /\ asm.next_gp \in GpBot .. GpEnd - 1
  /\ lines \in Seq([st : UNION Families, file : 1 .. 2])
  /\ file \in 1 .. 2 /\ phase \in {"reading", "flushing", "done"}

\* A label that has got its address has no patch left to make, but for those off gp,
\* once the statement that it stands in front of has been read.
NoPatchOwed ==
  \A n \in DOMAIN asm.table :
    IsDefined(asm, n) /\ ~asm.table[n].gp /\ n \notin ToSet(asm.pending) =>
      asm.table[n].uses = <<>>

\* What a file defined and did not declare global is not seen by the next one: after the
\* flush every name with an address is global.  FlushTakesWhatWasLocal, at the end, says more
\* of the same flush and is what TLC checks; this one is proved.
LocalsForgotten ==
  phase = "done" \/ (file = 2 /\ phase = "reading" /\ \A i \in Lines : InFile(i) = 1) =>
    \A n \in DOMAIN asm.table : IsDefined(asm, n) => asm.table[n].global

\* The list of local labels, which a flush follows to its end, ends for every program but
\* those that define twice, in one file, a name that is off gp or that they have set to 0:
\* a second definition that is refused does not enter the label again, whatever its
\* directive.
RingsFromRedefinition ==
  asm.ring =>
    \E i, j \in Lines :
      /\ i < j /\ InFile(i) = InFile(j) /\ NameOf(i) = NameOf(j)
      /\ Op(i) \in DefOps /\ Op(j) \in DefOps
      /\ \/ Op(i) = "lcomm" /\ St(i).n \in 1 .. SmallDataSegMaxSize
         \/ Op(i) = "assign" /\ St(i).n = 0

\* What the end of a file takes out of the table: the names that the file defined at a
\* line where they were local, and no others.  So a name made global before its definition
\* is kept, and so is one the file only uses; one that is declared after its definition is
\* lost, although "Remove all local (non-global) label" (sym-tbl.cpp:405) says otherwise.
RecordsLabel(i, n) == NameOf(i) = n /\ Op(i) \in DefOps \ {"extern"}
MakesGlobal(i, n) == NameOf(i) = n /\ Op(i) \in {"globl", "extern"}

DefinedFirst(n, f) ==
  \E i \in Lines :
    /\ InFile(i) = f /\ RecordsLabel(i, n)
    /\ ~\E k \in 1 .. i - 1 : InFile(k) = f /\ MakesGlobal(k, n)

GlobalFromFile1(n) ==
  n = Main \/ (~DefinedFirst(n, 1) /\ \E k \in Lines : InFile(k) = 1 /\ MakesGlobal(k, n))

FlushTakesWhatWasLocal ==
  [][phase = "flushing" /\ phase' # "flushing" =>
       \A n \in DOMAIN asm.table \ (IF file = 1 THEN {Main} ELSE {}) :
         n \notin DOMAIN asm'.table <=>
           DefinedFirst(n, file) /\ (file = 2 => ~GlobalFromFile1(n))]_avars
=============================================================================
