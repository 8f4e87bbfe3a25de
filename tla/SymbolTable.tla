----------------------------- MODULE SymbolTable -----------------------------
(***************************************************************************)
(* src/spim/CPU/sym-tbl.cpp: the labels of the program that is being       *)
(* assembled.  The assembler makes one pass.  A use of a label that has no *)
(* address yet is recorded with the label and patched when the label gets  *)
(* its address.                                                            *)
(*                                                                         *)
(* The functions of the source change the image they are given; here each  *)
(* is an operator from the state of the assembler to the next one.  The    *)
(* state is a record s:                                                    *)
(*   s.table    the hash table: a function from the names that are in it   *)
(*   s.locals   local_labels, the last one first; the link of a label that *)
(*              is entered twice closes a ring, and s.ring is set          *)
(*   s.pending  this_line_labels: the labels of the statement being read   *)
(*   s.mem      the bytes of the data segments that have been stored       *)
(*   s.text     the instructions that have been stored                     *)
(*   s.errors   the names yyerror has complained about                     *)
(* and what Assembler adds to it.  A name in the table is a label with the *)
(* list of its uses, of which the last one comes first.                    *)
(*                                                                         *)
(* LoadsUnadjusted, InFileOrder, DropLabels, MoveNever, RecordAnyway,      *)
(* ListGlobals, KeepLocals and KeepList are not the code but mistakes next *)
(* to it, which the properties must tell from the code.                    *)
(***************************************************************************)
EXTENDS Integers, Sequences, SequencesExt

NoName == "none"

NewLabel == [addr |-> 0, global |-> FALSE, gp |-> FALSE, const |-> FALSE, uses |-> <<>>]

IsDefined(s, n) == n \in DOMAIN s.table /\ s.table[n].addr # 0

Address(s, n) == IF IsDefined(s, n) THEN s.table[n].addr ELSE 0

\* lookup_label: the entry is made when there is none.
Lookup(s, n) ==
  [s EXCEPT !.table = [m \in DOMAIN @ \cup {n} |-> IF m \in DOMAIN @ THEN @[m] ELSE NewLabel]]

RecordUse(s, n, use) == [Lookup(s, n) EXCEPT !.table[n].uses = <<use>> \o @]

DataUse(loc) == [inst |-> FALSE, addr |-> loc]
InstUse(loc) == [inst |-> TRUE, addr |-> loc]

-----------------------------------------------------------------------------
(* Bits *)

Low16(v) == v % 65536
High16(v) == (v \div 65536) % 65536
SignBit(v) == (v \div 32768) % 2

\* The macro leaves a number with bit 15 clear as it is, its upper half too.
SignEx(v) == IF SignBit(v) = 1 THEN Low16(v) - 65536 ELSE v

\* The bytes of v, the low one first, stored at loc.
PutBytes(mem, loc, v, size) ==
  [i \in loc .. loc + size - 1 |-> (v \div 256^(i - loc)) % 256] @@ mem

\* set_mem_word: an address that is not that of a word is an exception, and no store.
SetMemWord(s, loc, v) ==
  IF loc % 4 # 0 THEN s
  ELSE [s EXCEPT !.mem = PutBytes(@, loc, v, 4)]

-----------------------------------------------------------------------------
(* Instructions and their immediate field *)

\* bits tells which half of the value the instruction wants: 1, the upper; -1, the lower.
\* Of the registers only $gp is told from the others, where it is the base.
Inst(op, sym, offset, bits) ==
  [op |-> op, sym |-> sym, offset |-> offset, bits |-> bits, imm |-> 0, gp |-> FALSE]
FromGp(i) == [i EXCEPT !.gp = TRUE]

\* eval_imm_expr
Eval(s, i) ==
  LET v == i.offset + Address(s, i.sym)
  IN  CASE i.bits = 1 -> High16(v) [] i.bits = -1 -> Low16(v) [] OTHER -> v

\* LW and SW extend the sign of their offset: the LUI in front of one (there may be an
\* ADDU between the two) must then load one more.  It has not been resolved yet.
LoadsUnadjusted(text, pc, sym, v) == text

AdjustUpper(text, pc, sym, v) ==
  LET isLui(p) == p \in DOMAIN text /\ text[p].op = "lui" /\ text[p].sym = sym /\ text[p].imm = 0
      raise(p) == [text EXCEPT ![p].offset = @ + 65536]
  IN  IF SignBit(v) = 0 THEN text
      ELSE IF isLui(pc - 4) THEN raise(pc - 4)
      ELSE IF isLui(pc - 8) THEN raise(pc - 8)
      ELSE text

\* resolve_a_label_sub for the instruction at pc.  One that was to go where no word is
\* has not been stored (store_instruction): what is patched is not in the text.
ResolveInst(s, pc) ==
  LET i == [s.text[pc] EXCEPT !.offset = IF s.text[pc].op = "branch" THEN 0 - pc ELSE @]
      v == Eval(s, i)
      imm == CASE i.op = "branch" -> (SignEx(v) \div 4) % 65536
               [] i.op = "jump" -> (v % 268435456) \div 4
               [] OTHER -> v
      text == IF i.op = "load" THEN AdjustUpper(s.text, pc, i.sym, v) ELSE s.text
  IN  IF pc % 4 # 0 THEN s
      ELSE [s EXCEPT !.text = [text EXCEPT ![pc] = [i EXCEPT !.imm = imm]]]

ResolveUse(s, n, use) ==
  IF use.inst THEN ResolveInst(s, use.addr) ELSE SetMemWord(s, use.addr, s.table[n].addr)

\* resolve_label_uses: from the last use to the first.
InFileOrder(s, n) ==
  LET resolve(t, use) == ResolveUse(t, n, use)
  IN  [FoldLeft(resolve, s, Reverse(s.table[n].uses)) EXCEPT !.table[n].uses = <<>>]

ResolveUses(s, n) ==
  LET resolve(t, use) == ResolveUse(t, n, use)
  IN  [FoldLeft(resolve, s, s.table[n].uses) EXCEPT !.table[n].uses = <<>>]

-----------------------------------------------------------------------------
(* Labels of the current statement: parser.y *)

DropLabels(s) == [s EXCEPT !.pending = <<>>]

ClearLabels(s) == [FoldLeft(ResolveUses, s, s.pending) EXCEPT !.pending = <<>>]

\* fix_current_label_address
MoveNever(s, loc) == ClearLabels(s)

MoveLabels(s, loc) ==
  ClearLabels([s EXCEPT !.table =
    [n \in DOMAIN s.table |->
       IF n \in ToSet(s.pending) THEN [s.table[n] EXCEPT !.addr = loc] ELSE s.table[n]]])

YyError(s, n) == [ClearLabels(s) EXCEPT !.errors = @ \cup {n}]

-----------------------------------------------------------------------------
(* Definitions *)

\* Enter a label in local_labels.
PushLocal(s, n) ==
  IF n \in ToSet(s.locals) THEN [s EXCEPT !.ring = TRUE]
  ELSE [s EXCEPT !.locals = <<n>> \o @]

\* record_label: a label off gp keeps the address it has.
RecordAnyway(s0, n, loc, resolve) ==
  LET s == Lookup(s0, n)
      l == s.table[n]
      t == IF l.gp THEN s ELSE [s EXCEPT !.table[n].addr = loc]
      u == IF resolve THEN ResolveUses(t, n) ELSE t
      v == IF ~l.gp /\ l.addr # 0 THEN YyError(s, n) ELSE u
  IN  IF l.global THEN v ELSE PushLocal(v, n)

ListGlobals(s0, n, loc, resolve) ==
  LET s == Lookup(s0, n)
      l == s.table[n]
      t == IF l.gp THEN s ELSE [s EXCEPT !.table[n].addr = loc]
      u == IF resolve THEN ResolveUses(t, n) ELSE t
  IN  IF ~l.gp /\ l.addr # 0 THEN YyError(s, n) ELSE PushLocal(u, n)

RecordLabel(s0, n, loc, resolve) ==
  LET s == Lookup(s0, n)
      l == s.table[n]
      t == IF l.gp THEN s ELSE [s EXCEPT !.table[n].addr = loc]
      u == IF resolve THEN ResolveUses(t, n) ELSE t
  IN  IF ~l.gp /\ l.addr # 0 THEN YyError(s, n)
      ELSE IF l.global THEN u
      ELSE PushLocal(u, n)

MakeGlobal(s, n) == [Lookup(s, n) EXCEPT !.table[n].global = TRUE]

\* flush_local_labels, when the list has an end.
KeepLocals(s) == [s EXCEPT !.locals = <<>>]

KeepList(s) == [s EXCEPT !.table = [n \in DOMAIN @ \ ToSet(s.locals) |-> @[n]]]

FlushLocals(s) ==
  [s EXCEPT !.table = [n \in DOMAIN @ \ ToSet(s.locals) |-> @[n]], !.locals = <<>>]
=============================================================================
