--------------------------------- MODULE Panes ---------------------------------
(***************************************************************************)
(* The panes of registers, data and stack (register.js, memory.js and      *)
(* memory-content.js) over the views of the images' memory that spim.cpp   *)
(* gives them.  What the page reads it reads under simulator_mtx (see      *)
(* Frontend), so that a refresh is one step here; between refreshes the    *)
(* programs run.  An address is the number of a word of its segment; a     *)
(* line shows LineWords of them.                                           *)
(*                                                                         *)
(* A view of the data has as many words as the segment has bytes, and the  *)
(* pane shows a sixteenth of it, which is the segment.  The view of the    *)
(* stack has as many words as the stack has at the start.                  *)
(*                                                                         *)
(* OldLines, UnsignedBottom and HighlightKept are not the code but         *)
(* mistakes next to it, which the properties must tell from the code.      *)
(***************************************************************************)
EXTENDS Integers

CONSTANTS
  Ctxs,
  Vals,        \* what a word may hold, 0 among them
  None,        \* undefined
  LineWords,   \* words in a line, 4
  DataWords,   \* bound on the data segment
  DataStart,   \* its words at the start
  StackTop,    \* the top of the stack, and bound on its words
  StackStart,  \* the words of the stack at the start
  Sps,         \* where the programs put $sp
  MaxEdits     \* bound on the steps of the programs

ASSUME PanesAssumption ==
  /\ 0 \in Vals /\ Vals \subseteq Nat /\ None \notin Int
  /\ LineWords \in Nat \ {0} /\ MaxEdits \in Nat
  /\ DataStart \in Nat /\ DataWords \in Nat /\ DataStart <= DataWords
  /\ StackStart \in Nat /\ StackTop \in Nat \ {0} /\ StackStart <= StackTop
  /\ Sps \subseteq 0 .. StackTop

VARIABLES
  mem,     \* the image of each context: its segments, their sizes and $sp
  edits,   \* steps of the programs so far
  ctx,     \* Execution.ctx
  bound,   \* the context of RegisterUtils.generalRegVals, which getSP reads
  view,    \* the context and the size of the stack of this.content of Stack
  reg,     \* what is shown of $sp, for the registers
  data,    \* what is shown of the data, for the words that have a line
  stack,   \* the same of the stack
  bottom,  \* minLineAddress
  fresh    \* has nothing changed since the panes were drawn?

panes == <<bound, view, reg, data, stack, bottom>>
vars == <<mem, edits, ctx, panes, fresh>>

DataAddrs == 0 .. DataWords - 1
StackAddrs == 0 .. StackTop - 1

NewImage ==
  [data |-> [a \in DataAddrs |-> 0], top |-> DataStart,
   stack |-> [a \in StackAddrs |-> 0], size |-> StackStart, sp |-> StackTop - 1]

LineOf(a) == (a \div LineWords) * LineWords

-----------------------------------------------------------------------------
(* A word or a register on the page: Register and MemoryWord *)

NewCell(v) == [value |-> v, highlight |-> FALSE, unused |-> FALSE]

\* updateValue: a word that is gone keeps what it showed, in grey.
HighlightKept(cell, v) ==
  IF v = None THEN [cell EXCEPT !.unused = TRUE]
  ELSE IF v = cell.value THEN [cell EXCEPT !.unused = FALSE]
  ELSE [cell EXCEPT !.value = v, !.highlight = @ \/ cell.value # None]

UpdateValue(cell, v) ==
  IF v = None THEN [cell EXCEPT !.unused = TRUE]
  ELSE IF v = cell.value THEN [cell EXCEPT !.highlight = FALSE, !.unused = FALSE]
  ELSE [cell EXCEPT !.value = v, !.highlight = @ \/ cell.value # None]

-----------------------------------------------------------------------------
(* Data: DataSegment, UserData and KernelData *)

\* getContent: past the end of the segment the view goes on over other memory, or ends.
DataContent(image, a, beyond) == IF a < image.top THEN image.data[a] ELSE beyond

\* addNewLines: the words of the lines that are not empty.
Lines(image) ==
  {a \in 0 .. image.top - 1 : \E b \in DataAddrs : LineOf(b) = LineOf(a) /\ image.data[b] # 0}

\* update: there are no fewer lines than before.
OldLines(image, shown) == IF shown = {} THEN Lines(image) ELSE shown

LinesNow(image, shown) == shown \cup Lines(image)

DataPane(image, shown, beyond) ==
  [a \in LinesNow(image, DOMAIN shown) |->
     LET v == DataContent(image, a, beyond)
     IN  UpdateValue(IF a \in DOMAIN shown THEN shown[a] ELSE NewCell(v), v)]

-----------------------------------------------------------------------------
(* The stack *)

\* getContent: the view begins with the lowest word of the array.
StackContent(image, sp, a) ==
  LET index == StackStart - (StackTop - a)
  IN  IF sp > a \/ index < 0 THEN None ELSE image.stack[index + StackTop - image.size]

\* addNewLines, from end downwards: while (endAddr > SP).
NewWords(sp, end) == {a \in StackAddrs : LineOf(sp) <= a /\ a < end /\ sp < end}

\* SP & 0xfffffff0, a signed number: that of the top of the stack is below all addresses.
UnsignedBottom(sp) == LineOf(sp)

BottomOf(sp) == IF sp >= StackTop THEN -1 ELSE LineOf(sp)

\* The value that a word of a new line gets first is that of the view before this refresh,
\* which is not the memory any more when the stack has grown or was another context's.
StackPane(image, c, sp, stale) ==
  LET added == IF sp < bottom THEN NewWords(sp, bottom) ELSE {}
      first(a) == IF view = [ctx |-> c, size |-> image.size] \/ sp > a
                  THEN StackContent(image, sp, a) ELSE stale
  IN  [a \in DOMAIN stack \cup added |->
         UpdateValue(IF a \in DOMAIN stack THEN stack[a] ELSE NewCell(first(a)),
                     StackContent(image, sp, a))]

-----------------------------------------------------------------------------
(* The programs *)

Edit(c, image) ==
  /\ edits < MaxEdits /\ edits' = edits + 1
  /\ mem' = [mem EXCEPT ![c] = image]
  /\ fresh' = FALSE
  /\ UNCHANGED <<ctx, panes>>

StoreData(c) ==
  \E a \in DataAddrs, v \in Vals :
    a < mem[c].top /\ Edit(c, [mem[c] EXCEPT !.data[a] = v])

StoreStack(c) ==
  \E a \in StackAddrs, v \in Vals :
    a >= StackTop - mem[c].size /\ Edit(c, [mem[c] EXCEPT !.stack[a] = v])

MoveSp(c) == \E sp \in Sps : Edit(c, [mem[c] EXCEPT !.sp = sp])

\* expand_data, by lines; it complains of a shrinking segment, and goes on.  What is added
\* is zero.
Sbrk(c) ==
  \E top \in {a \in 0 .. DataWords : a % LineWords = 0} :
    Edit(c, [mem[c] EXCEPT !.top = top,
                           !.data = [a \in DataAddrs |-> IF a < mem[c].top /\ a < top
                                                         THEN mem[c].data[a] ELSE 0]])

\* expand_stack doubles it, and only complains when that is beyond the limit.
ExpandStack(c) ==
  /\ 2 * mem[c].size <= StackTop
  /\ Edit(c, [mem[c] EXCEPT !.size = 2 * @])

-----------------------------------------------------------------------------
(* The page *)

Anything == Vals \cup {None}

\* RegisterUtils.init and MemoryUtils.init
Draw(c, image) ==
  /\ ctx' = c /\ bound' = c
  /\ reg' = NewCell(image.sp)
  /\ \E beyond \in Anything : data' = DataPane(image, <<>>, beyond)
  /\ stack' = [a \in NewWords(image.sp, StackTop) |-> NewCell(StackContent(image, image.sp, a))]
  /\ bottom' = BottomOf(image.sp) /\ view' = [ctx |-> c, size |-> image.size]
  /\ fresh' = TRUE

\* Execution.init: the images are new ones.
Reset(c) ==
  /\ mem' = [d \in Ctxs |-> NewImage] /\ Draw(c, NewImage)
  /\ UNCHANGED edits

\* changeContext, with the lock, and without.
Switch(c) == Draw(c, mem[c]) /\ UNCHANGED <<mem, edits>>

SwitchMiss(c) ==
  /\ ctx' = c /\ fresh' = FALSE
  /\ UNCHANGED <<mem, edits, panes>>

\* RegisterUtils.update and MemoryUtils.update
Refresh ==
  LET image == mem[ctx]
      sp == mem[bound].sp
  IN  /\ reg' = UpdateValue(reg, image.sp)
      /\ \E beyond \in Anything : data' = DataPane(image, data, beyond)
      /\ \E stale \in Anything : stack' = StackPane(image, ctx, sp, stale)
      /\ bottom' = IF sp < bottom THEN BottomOf(sp) ELSE bottom
      /\ view' = [ctx |-> ctx, size |-> image.size]
      /\ fresh' = TRUE
      /\ UNCHANGED <<mem, edits, ctx, bound>>

Init ==
  /\ mem = [d \in Ctxs |-> NewImage] /\ edits = 0
  /\ ctx \in Ctxs /\ bound = ctx
  /\ view = [ctx |-> ctx, size |-> StackStart]
  /\ reg = NewCell(NewImage.sp) /\ data = <<>>
  /\ stack = [a \in NewWords(NewImage.sp, StackTop) |->
                NewCell(StackContent(NewImage, NewImage.sp, a))]
  /\ bottom = BottomOf(NewImage.sp) /\ fresh = TRUE

Next ==
  \/ \E c \in Ctxs :
       \/ StoreData(c) \/ StoreStack(c) \/ MoveSp(c) \/ Sbrk(c) \/ ExpandStack(c)
       \/ Reset(c) \/ Switch(c) \/ SwitchMiss(c)
  \/ Refresh

Spec == Init /\ [][Next]_vars

-----------------------------------------------------------------------------
(* Properties *)

Cells == [value : Vals \cup {None}, highlight : BOOLEAN, unused : BOOLEAN]

TypeOK ==
  /\ mem \in [Ctxs -> [data : [DataAddrs -> Vals], top : 0 .. DataWords,
                       stack : [StackAddrs -> Vals], size : 0 .. StackTop, sp : 0 .. StackTop]]
  /\ ctx \in Ctxs /\ bound \in Ctxs /\ view \in [ctx : Ctxs, size : 0 .. StackTop]
  /\ reg \in [value : 0 .. StackTop, highlight : BOOLEAN, unused : {FALSE}]
  /\ \A a \in DOMAIN data : a \in DataAddrs /\ data[a] \in Cells
  /\ \A a \in DOMAIN stack : a \in StackAddrs /\ stack[a] \in Cells
  /\ bottom \in {-1} \cup StackAddrs

\* The words in use of a stack that has not grown.
InUse(image) == {a \in StackTop - StackStart .. StackTop - 1 : a >= image.sp}

\* Is the pane of the stack one of this context, of a stack that has not grown, and was $sp
\* below the top when it was made?
StackFits == bound = ctx /\ view.ctx = ctx /\ mem[ctx].size = StackStart /\ bottom >= 0

\* A fresh page shows the machine: the registers, all data that is not zero, and the stack
\* from $sp to its top, wherever $sp has been in the meantime.
ShownIsMemory ==
  fresh =>
    LET image == mem[ctx]
    IN  /\ reg.value = image.sp
        /\ \A a \in 0 .. image.top - 1 :
             IF a \in DOMAIN data THEN data[a].value = image.data[a] ELSE image.data[a] = 0
        /\ StackFits =>
             \A a \in InUse(image) :
               a \in DOMAIN stack /\ stack[a].value = image.stack[a]

\* A refresh highlights what it has changed on the page and nothing else, and what is not
\* on the stack is grey; what is on it is grey only if it has just been pushed.
MarksTellChanges ==
  [][Refresh =>
       LET changed(old, new, a) ==
             a \in DOMAIN old /\ old[a].value # None /\ old[a].value # new[a].value
       IN  /\ reg'.highlight <=> reg.value # reg'.value
           /\ \A a \in DOMAIN data' :
                a < mem[ctx].top => (data'[a].highlight <=> changed(data, data', a))
           /\ StackFits =>
                \A a \in DOMAIN stack' :
                  IF a \notin InUse(mem[ctx]) THEN stack'[a].unused
                  ELSE /\ stack'[a].highlight <=> changed(stack, stack', a)
                       /\ stack'[a].unused => a \in DOMAIN stack /\ stack[a].value # stack'[a].value]_vars
=============================================================================
