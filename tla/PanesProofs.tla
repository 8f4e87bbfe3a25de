----------------------------- MODULE PanesProofs -----------------------------
(***************************************************************************)
(* Proofs about Panes, for all sizes of segments, of the stack and of      *)
(* lines, and any number of steps of the programs.                         *)
(***************************************************************************)
EXTENDS Panes, TLAPS

-----------------------------------------------------------------------------
(* Words and lines *)

StackPointers == 0 .. StackTop
CellsOf(V) == [value : V \cup {None}, highlight : BOOLEAN, unused : BOOLEAN]

\* Only a word that has shown something is highlighted.
Sound(cell) == cell.highlight => cell.value # None

\* What updateValue makes of a word or a register.
LEMMA Updated ==
  ASSUME NEW V, NEW cell \in CellsOf(V), Sound(cell), NEW v \in V \cup {None}
  PROVE  LET new == UpdateValue(cell, v)
         IN  /\ new \in CellsOf(V) /\ Sound(new)
             /\ v = None => new.unused /\ new.value = cell.value
             /\ v # None =>
                  /\ new.value = v
                  /\ new.highlight <=> cell.value # None /\ cell.value # v
                  /\ new.unused => cell.value # v /\ cell.unused
  <1> DEFINE new == UpdateValue(cell, v)
  <1>1. CASE v = None
    <2>1. new = [cell EXCEPT !.unused = TRUE]
      BY <1>1 DEF UpdateValue
    <2>2. /\ new.value = cell.value /\ new.highlight = cell.highlight /\ new.unused = TRUE
          /\ new \in CellsOf(V)
      BY <2>1 DEF CellsOf
    <2> QED
      BY <1>1, <2>2 DEF Sound
  <1>2. CASE v # None /\ v = cell.value
    <2>1. new = [cell EXCEPT !.highlight = FALSE, !.unused = FALSE]
      BY <1>2 DEF UpdateValue
    <2> QED
      BY <1>2, <2>1 DEF CellsOf, Sound
  <1>3. CASE v # None /\ v # cell.value
    <2>1. new = [cell EXCEPT !.value = v, !.highlight = @ \/ cell.value # None]
      BY <1>3 DEF UpdateValue
    <2>2. /\ new.value = v /\ new.unused = cell.unused
          /\ new.highlight = (cell.highlight \/ cell.value # None)
          /\ new \in CellsOf(V)
      BY <2>1 DEF CellsOf
    <2> QED
      BY <1>3, <2>2 DEF Sound
  <1> QED
    BY <1>1, <1>2, <1>3

LEMMA Fresh ==
  ASSUME NEW V, NEW v \in V \cup {None}
  PROVE  NewCell(v) \in CellsOf(V) /\ Sound(NewCell(v)) /\ NewCell(v).value = v
  BY DEF NewCell, CellsOf, Sound

LEMMA WordsShow == \A x \in Vals : x # None
  BY PanesAssumption

LEMMA LineBelow == ASSUME NEW a \in Nat PROVE LineOf(a) \in Nat /\ LineOf(a) <= a
  BY PanesAssumption DEF LineOf

-----------------------------------------------------------------------------
(* The inductive invariant *)

Images == [data : [DataAddrs -> Vals], top : 0 .. DataWords,
           stack : [StackAddrs -> Vals], size : StackStart .. StackTop, sp : 0 .. StackTop]

\* All that is on display is of its kind, and marked only with a reason.
Display ==
  /\ reg \in CellsOf(StackPointers) /\ reg.value # None /\ ~reg.unused
  /\ \A a \in DOMAIN data : a \in DataAddrs /\ data[a] \in Cells /\ Sound(data[a])
  /\ \A a \in DOMAIN stack : a \in StackAddrs /\ stack[a] \in Cells /\ Sound(stack[a])

\* The lines of the stack go down to the lowest without a gap.
NoGap ==
  /\ bottom \in {-1} \cup StackAddrs
  /\ bottom >= 0 => {a \in StackAddrs : a >= bottom} \subseteq DOMAIN stack

\* A stack never shrinks behind the page's view.
ViewFits == view \in [ctx : Ctxs, size : StackStart .. StackTop] /\ view.size <= mem[view.ctx].size

PInv ==
  /\ mem \in [Ctxs -> Images] /\ ctx \in Ctxs /\ bound \in Ctxs
  /\ Display /\ NoGap /\ ViewFits

\* What the getters give is a word or nothing.
LEMMA StackWord ==
  ASSUME NEW image \in Images, NEW sp \in 0 .. StackTop, NEW a \in StackAddrs
  PROVE  /\ StackContent(image, sp, a) \in Vals \cup {None}
         /\ image.size = StackStart =>
              StackContent(image, sp, a) =
                IF sp <= a /\ a >= StackTop - StackStart THEN image.stack[a] ELSE None
  BY PanesAssumption DEF StackContent, Images, StackAddrs

LEMMA DataWord ==
  ASSUME NEW image \in Images, NEW beyond \in Anything, NEW a \in DataAddrs
  PROVE  /\ DataContent(image, a, beyond) \in Vals \cup {None}
         /\ a < image.top => DataContent(image, a, beyond) = image.data[a]
  BY PanesAssumption DEF DataContent, Images, Anything

-----------------------------------------------------------------------------
(* A refresh *)

\* What a refresh makes of the data: no words but the segment's, all of those that are not
\* zero, each with its value and a mark where it changed.
LEMMA RefreshedData ==
  ASSUME NEW image \in Images, NEW beyond \in Anything, NEW old,
         \A a \in DOMAIN old : a \in DataAddrs /\ old[a] \in Cells /\ Sound(old[a])
  PROVE  LET new == DataPane(image, old, beyond)
         IN  /\ \A a \in DOMAIN new : a \in DataAddrs /\ new[a] \in Cells /\ Sound(new[a])
             /\ \A a \in 0 .. image.top - 1 :
                  IF a \in DOMAIN new THEN new[a].value = image.data[a] ELSE image.data[a] = 0
             /\ \A a \in DOMAIN new :
                  a < image.top =>
                    (new[a].highlight <=>
                       a \in DOMAIN old /\ old[a].value # None /\ old[a].value # new[a].value)
  <1> DEFINE new == DataPane(image, old, beyond)
             was(a) == IF a \in DOMAIN old THEN old[a] ELSE NewCell(DataContent(image, a, beyond))
  <1>1. 0 .. image.top - 1 \subseteq DataAddrs
    BY PanesAssumption DEF Images, DataAddrs
  <1>2. /\ DOMAIN new = DOMAIN old \cup Lines(image)
        /\ \A a \in DOMAIN new : new[a] = UpdateValue(was(a), DataContent(image, a, beyond))
    BY DEF DataPane, LinesNow
  <1>3. DOMAIN new \subseteq DataAddrs
    BY <1>1, <1>2 DEF Lines
  <1>4. ASSUME NEW a \in DOMAIN new
        PROVE  /\ new[a] \in Cells /\ Sound(new[a])
               /\ a < image.top =>
                    /\ new[a].value = image.data[a]
                    /\ new[a].highlight <=>
                         a \in DOMAIN old /\ old[a].value # None /\ old[a].value # new[a].value
    <2> DEFINE v == DataContent(image, a, beyond)
    <2>1. a \in DataAddrs
      BY <1>3
    <2>2. v \in Vals \cup {None} /\ (a < image.top => v = image.data[a] /\ v # None)
      <3>1. image.data[a] \in Vals
        BY <2>1 DEF Images
      <3>2. v \in Vals \cup {None} /\ (a < image.top => v = image.data[a])
        BY <2>1, DataWord
      <3> QED
        BY <3>1, <3>2, WordsShow
    <2>3. was(a) \in CellsOf(Vals) /\ Sound(was(a)) /\ (a \notin DOMAIN old => was(a).value = v)
      BY <2>2, Fresh DEF Cells, CellsOf
    <2>4. new[a] = UpdateValue(was(a), v)
      BY <1>2
    <2>5. new[a] \in Cells /\ Sound(new[a])
      BY <2>2, <2>3, <2>4, Updated DEF Cells, CellsOf
    <2>6. v # None => /\ new[a].value = v
                      /\ new[a].highlight <=> was(a).value # None /\ was(a).value # v
      BY <2>2, <2>3, <2>4, Updated
    <2> QED
      BY <2>2, <2>3, <2>5, <2>6
  <1>5. \A a \in 0 .. image.top - 1 :
          IF a \in DOMAIN new THEN new[a].value = image.data[a] ELSE image.data[a] = 0
    <2> SUFFICES ASSUME NEW a \in 0 .. image.top - 1, a \notin DOMAIN new => image.data[a] # 0
                 PROVE  a \in DOMAIN new /\ new[a].value = image.data[a]
      OBVIOUS
    <2>0. a < image.top
      BY PanesAssumption DEF Images
    <2>1. a \in DataAddrs /\ LineOf(a) = LineOf(a)
      BY <1>1
    <2>2. image.data[a] # 0 => a \in Lines(image)
      BY <2>1 DEF Lines
    <2> QED
      BY <1>2, <1>4, <2>0, <2>2
  <1>6. \A a \in DOMAIN new : a \in DataAddrs /\ new[a] \in Cells /\ Sound(new[a])
    BY <1>3, <1>4
  <1> QED
    BY <1>4, <1>5, <1>6

LEMMA StackRefresh ==
  ASSUME PInv, NEW stale \in Anything, NEW sp, sp = mem[bound].sp
  PROVE  LET image == mem[ctx]
             new == StackPane(image, ctx, sp, stale)
         IN  /\ \A a \in DOMAIN new : a \in StackAddrs /\ new[a] \in Cells /\ Sound(new[a])
             /\ DOMAIN stack \subseteq DOMAIN new
             /\ sp < bottom => {a \in StackAddrs : a >= LineOf(sp)} \subseteq DOMAIN new
             /\ bound = ctx /\ view.ctx = ctx /\ image.size = StackStart =>
                  \A a \in DOMAIN new :
                    IF a \notin InUse(image) THEN new[a].unused
                    ELSE /\ new[a].value = image.stack[a]
                         /\ new[a].highlight <=>
                              a \in DOMAIN stack /\ stack[a].value # None
                                /\ stack[a].value # new[a].value
                         /\ new[a].unused =>
                              a \in DOMAIN stack /\ stack[a].value # new[a].value
             /\ bound = ctx /\ image.size = StackStart =>
                  \A a \in DOMAIN new : a \in InUse(image) => new[a].value = image.stack[a]
  <1> DEFINE image == mem[ctx]
             new == StackPane(image, ctx, sp, stale)
             added == IF sp < bottom THEN NewWords(sp, bottom) ELSE {}
             v(a) == StackContent(image, sp, a)
             first(a) == IF view = [ctx |-> ctx, size |-> image.size] \/ sp > a THEN v(a) ELSE stale
             was(a) == IF a \in DOMAIN stack THEN stack[a] ELSE NewCell(first(a))
  <1>1. image \in Images /\ sp \in 0 .. StackTop /\ bottom \in {-1} \cup StackAddrs
    BY DEF PInv, Images, NoGap
  <1>2. /\ DOMAIN new = DOMAIN stack \cup added
        /\ \A a \in DOMAIN new : new[a] = UpdateValue(was(a), v(a))
    BY DEF StackPane
  <1>3. DOMAIN new \subseteq StackAddrs
    BY <1>2 DEF NewWords, PInv, Display
  <1>4. sp < bottom => {a \in StackAddrs : a >= LineOf(sp)} \subseteq DOMAIN new
    <2> SUFFICES ASSUME sp < bottom, NEW a \in StackAddrs, a >= LineOf(sp) PROVE a \in DOMAIN new
      OBVIOUS
    <2>1. CASE a < bottom
      BY <1>2, <2>1 DEF NewWords
    <2>2. CASE a >= bottom
      BY <1>1, <1>2, <2>2 DEF PInv, NoGap
    <2> QED
      BY <1>1, <2>1, <2>2 DEF StackAddrs
  <1>5. ASSUME NEW a \in DOMAIN new
        PROVE  /\ v(a) \in Vals \cup {None} /\ was(a) \in CellsOf(Vals) /\ Sound(was(a))
               /\ a \notin DOMAIN stack => was(a).value = first(a) /\ ~was(a).unused
               /\ new[a] = UpdateValue(was(a), v(a))
    <2>1. v(a) \in Vals \cup {None}
      BY <1>1, <1>3, StackWord
    <2>2. CASE a \in DOMAIN stack
      BY <1>2, <2>1, <2>2 DEF PInv, Display, Cells, CellsOf
    <2>3. CASE a \notin DOMAIN stack
      <3>1. first(a) \in Vals \cup {None}
        BY <2>1 DEF Anything
      <3>2. ~NewCell(first(a)).unused
        BY DEF NewCell
      <3> QED
        BY <1>2, <2>1, <2>3, <3>1, <3>2, Fresh
    <2> QED
      BY <2>2, <2>3
  <1>6. ASSUME NEW a \in DOMAIN new PROVE new[a] \in Cells /\ Sound(new[a])
    BY <1>5, Updated DEF Cells, CellsOf
  <1>7. ASSUME NEW a \in DOMAIN new, bound = ctx, image.size = StackStart
        PROVE  /\ a \in InUse(image) <=> v(a) # None
               /\ a \in InUse(image) => v(a) = image.stack[a]
    <2>1. a \in StackAddrs /\ image.sp = sp
      BY <1>3, <1>7
    <2>2. v(a) = IF sp <= a /\ a >= StackTop - StackStart THEN image.stack[a] ELSE None
      BY <1>1, <1>7, <2>1, StackWord
    <2>3. image.stack[a] # None
      <3>1. image.stack[a] \in Vals
        BY <1>1, <2>1 DEF Images
      <3> QED
        BY <3>1, WordsShow
    <2>4. a \in InUse(image) <=> sp <= a /\ a >= StackTop - StackStart
      BY <1>1, <2>1, PanesAssumption DEF InUse, StackAddrs
    <2> QED
      BY <2>2, <2>3, <2>4
  <1>8. ASSUME bound = ctx, view.ctx = ctx, image.size = StackStart
        PROVE  \A a : first(a) = v(a)
    <2>1. view.size = StackStart
      BY <1>8, PanesAssumption DEF PInv, ViewFits
    <2>2. view = [ctx |-> ctx, size |-> image.size]
      BY <1>8, <2>1 DEF PInv, ViewFits
    <2> QED
      BY <2>2
  <1>9. ASSUME bound = ctx, view.ctx = ctx, image.size = StackStart, NEW a \in DOMAIN new
        PROVE  IF a \notin InUse(image) THEN new[a].unused
               ELSE /\ new[a].value = image.stack[a]
                    /\ new[a].highlight <=>
                         a \in DOMAIN stack /\ stack[a].value # None
                           /\ stack[a].value # new[a].value
                    /\ new[a].unused =>
                         a \in DOMAIN stack /\ stack[a].value # new[a].value
    <2>1. CASE a \notin InUse(image)
      BY <1>5, <1>7, <1>9, <2>1, Updated
    <2>2. CASE a \in InUse(image)
      <3>1. v(a) # None /\ v(a) = image.stack[a]
        BY <1>7, <1>9, <2>2
      <3>2. /\ new[a].value = v(a)
            /\ new[a].highlight <=> was(a).value # None /\ was(a).value # v(a)
            /\ new[a].unused => was(a).value # v(a) /\ was(a).unused
        BY <1>5, <3>1, Updated
      <3>3. a \notin DOMAIN stack => was(a).value = v(a)
        BY <1>5, <1>8, <1>9
      <3> QED
        BY <2>2, <3>1, <3>2, <3>3
    <2> QED
      BY <2>1, <2>2
  <1>10. ASSUME bound = ctx, image.size = StackStart, NEW a \in DOMAIN new, a \in InUse(image)
         PROVE  new[a].value = image.stack[a]
    BY <1>5, <1>7, <1>10, Updated
  <1> QED
    BY <1>2, <1>3, <1>4, <1>6, <1>9, <1>10

-----------------------------------------------------------------------------
(* The invariant is inductive *)

\* What is true of a fresh page, for the part of it that TypeOK does not say.
DrawnWell ==
  LET image == mem[ctx]
  IN  /\ reg.value = image.sp
      /\ \A a \in 0 .. image.top - 1 :
           IF a \in DOMAIN data THEN data[a].value = image.data[a] ELSE image.data[a] = 0
      /\ StackFits => \A a \in InUse(image) : a \in DOMAIN stack /\ stack[a].value = image.stack[a]

\* The stack of a page that has been drawn anew.
LEMMA DrawnStack ==
  ASSUME NEW image \in Images,
         NEW new, new = [a \in NewWords(image.sp, StackTop) |->
                           NewCell(StackContent(image, image.sp, a))],
         NEW low, low = BottomOf(image.sp)
  PROVE  /\ \A a \in DOMAIN new : a \in StackAddrs /\ new[a] \in Cells /\ Sound(new[a])
         /\ low \in {-1} \cup StackAddrs
         /\ low >= 0 => {a \in StackAddrs : a >= low} \subseteq DOMAIN new
         /\ low >= 0 /\ image.size = StackStart =>
              \A a \in InUse(image) : a \in DOMAIN new /\ new[a].value = image.stack[a]
  <1> DEFINE sp == image.sp
  <1>1. sp \in 0 .. StackTop /\ sp \in Nat /\ StackTop \in Nat /\ StackStart \in Nat /\ StackStart <= StackTop
    BY PanesAssumption DEF Images
  <1>2. LineOf(sp) \in Nat /\ LineOf(sp) <= sp
    BY <1>1, LineBelow
  <1>3. low = IF sp >= StackTop THEN -1 ELSE LineOf(sp)
    BY DEF BottomOf
  <1>4. low \in {-1} \cup StackAddrs
    BY <1>1, <1>2, <1>3 DEF StackAddrs
  <1>5. low >= 0 => {a \in StackAddrs : a >= low} \subseteq DOMAIN new
    BY <1>1, <1>2, <1>3 DEF NewWords, StackAddrs
  <1>6. ASSUME NEW a \in DOMAIN new PROVE a \in StackAddrs /\ new[a] \in Cells /\ Sound(new[a])
    <2>1. a \in StackAddrs
      BY DEF NewWords
    <2>2. StackContent(image, sp, a) \in Vals \cup {None}
      BY <1>1, <2>1, StackWord
    <2> QED
      BY <2>1, <2>2, Fresh DEF Cells, CellsOf
  <1>7. ASSUME low >= 0, image.size = StackStart, NEW a \in InUse(image)
        PROVE  a \in DOMAIN new /\ new[a].value = image.stack[a]
    <2>1. a \in StackAddrs /\ a >= sp /\ a >= StackTop - StackStart
      BY <1>1 DEF InUse, StackAddrs
    <2>2. a >= low
      BY <1>1, <1>2, <1>3, <2>1 DEF StackAddrs
    <2>3. StackContent(image, sp, a) = image.stack[a]
      BY <1>1, <1>7, <2>1, StackWord
    <2>4. image.stack[a] \in Vals
      BY <2>1 DEF Images
    <2> QED
      BY <1>5, <1>7, <2>1, <2>2, <2>3, <2>4, Fresh
  <1> QED
    BY <1>4, <1>5, <1>6, <1>7

LEMMA DrawKeeps ==
  ASSUME NEW c \in Ctxs, mem' \in [Ctxs -> Images], Draw(c, mem'[c])
  PROVE  PInv' /\ DrawnWell'
  <1> DEFINE image == mem'[c]
  <1>1. image \in Images /\ ctx' = c /\ bound' = c
    BY DEF Draw
  <1>2. /\ reg' \in CellsOf(StackPointers) /\ reg'.value # None /\ ~reg'.unused
        /\ reg'.value = image.sp
    <2>1. image.sp \in 0 .. StackTop /\ reg' = NewCell(image.sp)
      BY <1>1 DEF Draw, Images
    <2>2. image.sp # None
      BY <2>1, PanesAssumption
    <2> QED
      BY <2>1, <2>2, Fresh DEF NewCell, StackPointers
  <1>3. PICK beyond \in Anything : data' = DataPane(image, <<>>, beyond)
    BY DEF Draw
  <1>4. /\ \A a \in DOMAIN data' : a \in DataAddrs /\ data'[a] \in Cells /\ Sound(data'[a])
        /\ \A a \in 0 .. image.top - 1 :
             IF a \in DOMAIN data' THEN data'[a].value = image.data[a] ELSE image.data[a] = 0
    <2>1. \A a \in DOMAIN <<>> : FALSE
      OBVIOUS
    <2> QED
      BY <1>1, <1>3, <2>1, RefreshedData
  <1>5. /\ stack' = [a \in NewWords(image.sp, StackTop) |->
                      NewCell(StackContent(image, image.sp, a))]
        /\ bottom' = BottomOf(image.sp) /\ view' = [ctx |-> c, size |-> image.size]
    BY DEF Draw
  <1>6. /\ \A a \in DOMAIN stack' : a \in StackAddrs /\ stack'[a] \in Cells /\ Sound(stack'[a])
        /\ NoGap'
        /\ bottom' >= 0 /\ image.size = StackStart =>
             \A a \in InUse(image) : a \in DOMAIN stack' /\ stack'[a].value = image.stack[a]
    BY <1>1, <1>5, DrawnStack DEF NoGap
  <1>7. ViewFits'
    BY <1>1, <1>5, PanesAssumption DEF ViewFits, Images
  <1>8. Display'
    BY <1>2, <1>4, <1>6 DEF Display
  <1> QED
    BY <1>1, <1>2, <1>4, <1>6, <1>7, <1>8 DEF PInv, DrawnWell, StackFits

LEMMA RefreshKeeps == ASSUME PInv, Refresh PROVE PInv' /\ DrawnWell'
  <1> DEFINE image == mem[ctx]
             sp == mem[bound].sp
  <1>1. /\ image \in Images /\ sp \in 0 .. StackTop /\ bottom \in {-1} \cup StackAddrs
        /\ mem' = mem /\ ctx' = ctx /\ bound' = bound
    BY DEF PInv, Images, NoGap, Refresh
  <1>2. /\ reg' \in CellsOf(StackPointers) /\ reg'.value # None /\ ~reg'.unused
        /\ reg'.value = image.sp
    <2>1. image.sp \in 0 .. StackTop /\ reg' = UpdateValue(reg, image.sp)
      BY <1>1 DEF Refresh, Images
    <2>2. image.sp # None
      BY <2>1, PanesAssumption
    <2>3. reg \in CellsOf(StackPointers) /\ Sound(reg) /\ ~reg.unused
      BY DEF PInv, Display, Sound
    <2>4. /\ UpdateValue(reg, image.sp) \in CellsOf(StackPointers)
          /\ image.sp # None => /\ UpdateValue(reg, image.sp).value = image.sp
                                /\ UpdateValue(reg, image.sp).unused => reg.unused
      <3>1. image.sp \in StackPointers
        BY <2>1 DEF StackPointers
      <3> QED
        BY <2>3, <3>1, Updated
    <2> QED
      BY <2>1, <2>2, <2>3, <2>4
  <1>3. PICK beyond \in Anything : data' = DataPane(image, data, beyond)
    BY DEF Refresh
  <1>4. /\ \A a \in DOMAIN data' : a \in DataAddrs /\ data'[a] \in Cells /\ Sound(data'[a])
        /\ \A a \in 0 .. image.top - 1 :
             IF a \in DOMAIN data' THEN data'[a].value = image.data[a] ELSE image.data[a] = 0
    BY <1>1, <1>3, RefreshedData DEF PInv, Display
  <1>5. PICK stale \in Anything : stack' = StackPane(image, ctx, sp, stale)
    BY DEF Refresh
  <1>6. /\ \A a \in DOMAIN stack' : a \in StackAddrs /\ stack'[a] \in Cells /\ Sound(stack'[a])
        /\ DOMAIN stack \subseteq DOMAIN stack'
        /\ sp < bottom => {a \in StackAddrs : a >= LineOf(sp)} \subseteq DOMAIN stack'
        /\ bound = ctx /\ image.size = StackStart =>
             \A a \in DOMAIN stack' : a \in InUse(image) => stack'[a].value = image.stack[a]
    BY <1>5, StackRefresh
  <1>7. bottom' = IF sp < bottom THEN BottomOf(sp) ELSE bottom
    BY DEF Refresh
  <1>8. LineOf(sp) \in Nat /\ LineOf(sp) <= sp
    BY <1>1, PanesAssumption, LineBelow
  <1>9. sp < bottom => BottomOf(sp) = LineOf(sp) /\ LineOf(sp) \in StackAddrs
    BY <1>1, <1>8, PanesAssumption DEF BottomOf, StackAddrs
  <1>10. NoGap'
    BY <1>1, <1>6, <1>7, <1>9 DEF NoGap, PInv
  <1>11. ASSUME StackFits', NEW a \in InUse(image)
         PROVE  a \in DOMAIN stack' /\ stack'[a].value = image.stack[a]
    <2>1. bound = ctx /\ image.size = StackStart /\ bottom' >= 0
      BY <1>1, <1>11 DEF StackFits
    <2>2. a \in StackAddrs /\ a >= sp
      BY <1>1, <2>1, PanesAssumption DEF InUse, StackAddrs
    <2>3. a >= bottom'
      BY <1>1, <1>7, <1>8, <1>9, <2>1, <2>2 DEF StackAddrs
    <2>4. a \in DOMAIN stack'
      BY <1>10, <2>1, <2>2, <2>3 DEF NoGap
    <2> QED
      BY <1>6, <2>1, <2>4, <1>11
  <1>12. ViewFits'
    <2>1. view' = [ctx |-> ctx, size |-> image.size]
      BY DEF Refresh
    <2> QED
      BY <1>1, <2>1, PanesAssumption DEF ViewFits, Images, PInv
  <1>13. Display'
    BY <1>2, <1>4, <1>6 DEF Display
  <1> QED
    BY <1>1, <1>2, <1>4, <1>10, <1>11, <1>12, <1>13 DEF PInv, DrawnWell

\* The programs leave the panes alone, and their stacks do not shrink.
LEMMA EditKeeps ==
  ASSUME PInv, NEW c \in Ctxs, NEW image \in Images, image.size >= mem[c].size, Edit(c, image)
  PROVE  PInv'
  <1>1. mem' = [mem EXCEPT ![c] = image] /\ UNCHANGED <<ctx, bound, view, reg, data, stack, bottom>>
    BY DEF Edit, panes
  <1>2. mem' \in [Ctxs -> Images]
    BY <1>1 DEF PInv
  <1>3. ViewFits'
    <2>1. view \in [ctx : Ctxs, size : StackStart .. StackTop] /\ view.size <= mem[view.ctx].size
      BY DEF PInv, ViewFits
    <2>2. mem'[view.ctx].size >= mem[view.ctx].size /\ view.ctx \in Ctxs
      BY <1>1, <2>1, PanesAssumption DEF PInv, Images
    <2>3. mem[view.ctx].size \in Int /\ mem'[view.ctx].size \in Int /\ view.size \in Int
      BY <1>2, <2>1, <2>2, PanesAssumption DEF PInv, Images
    <2> QED
      BY <1>1, <2>1, <2>2, <2>3 DEF ViewFits
  <1> QED
    BY <1>1, <1>2, <1>3 DEF PInv, Display, NoGap

LEMMA ProgramsKeep ==
  ASSUME PInv, NEW c \in Ctxs,
         StoreData(c) \/ StoreStack(c) \/ MoveSp(c) \/ Sbrk(c) \/ ExpandStack(c)
  PROVE  PInv'
  <1>0. mem[c] \in Images /\ mem[c].size \in Nat /\ mem[c].size >= mem[c].size
    BY PanesAssumption DEF PInv, Images
  <1>1. CASE StoreData(c)
    <2>1. PICK a \in DataAddrs, v \in Vals : Edit(c, [mem[c] EXCEPT !.data[a] = v])
      BY <1>1 DEF StoreData
    <2>2. /\ [mem[c] EXCEPT !.data[a] = v] \in Images
          /\ [mem[c] EXCEPT !.data[a] = v].size = mem[c].size
      BY <1>0 DEF Images
    <2> QED
      BY <1>0, <2>1, <2>2, EditKeeps
  <1>2. CASE StoreStack(c)
    <2>1. PICK a \in StackAddrs, v \in Vals : Edit(c, [mem[c] EXCEPT !.stack[a] = v])
      BY <1>2 DEF StoreStack
    <2>2. /\ [mem[c] EXCEPT !.stack[a] = v] \in Images
          /\ [mem[c] EXCEPT !.stack[a] = v].size = mem[c].size
      BY <1>0 DEF Images
    <2> QED
      BY <1>0, <2>1, <2>2, EditKeeps
  <1>3. CASE MoveSp(c)
    <2>1. PICK sp \in Sps : Edit(c, [mem[c] EXCEPT !.sp = sp])
      BY <1>3 DEF MoveSp
    <2>2. /\ [mem[c] EXCEPT !.sp = sp] \in Images
          /\ [mem[c] EXCEPT !.sp = sp].size = mem[c].size
      BY <1>0, PanesAssumption DEF Images
    <2> QED
      BY <1>0, <2>1, <2>2, EditKeeps
  <1>4. CASE Sbrk(c)
    <2>1. PICK top \in 0 .. DataWords :
            Edit(c, [mem[c] EXCEPT !.top = top,
                                   !.data = [a \in DataAddrs |-> IF a < mem[c].top /\ a < top
                                                                 THEN mem[c].data[a] ELSE 0]])
      BY <1>4 DEF Sbrk
    <2> DEFINE new == [a \in DataAddrs |-> IF a < mem[c].top /\ a < top THEN mem[c].data[a] ELSE 0]
    <2>2. new \in [DataAddrs -> Vals]
      BY <1>0, PanesAssumption DEF Images
    <2>3. [mem[c] EXCEPT !.top = top, !.data = new] \in Images
      BY <1>0, <2>2 DEF Images
    <2>4. [mem[c] EXCEPT !.top = top, !.data = new].size = mem[c].size
      BY <1>0 DEF Images
    <2> QED
      BY <1>0, <2>1, <2>3, <2>4, EditKeeps
  <1>5. CASE ExpandStack(c)
    <2>1. Edit(c, [mem[c] EXCEPT !.size = 2 * @]) /\ 2 * mem[c].size <= StackTop
      BY <1>5 DEF ExpandStack
    <2>2. [mem[c] EXCEPT !.size = 2 * @] \in Images
      BY <1>0, <2>1, PanesAssumption DEF Images
    <2>3. [mem[c] EXCEPT !.size = 2 * @].size >= mem[c].size
      BY <1>0 DEF Images
    <2> QED
      BY <2>1, <2>2, <2>3, EditKeeps
  <1> QED
    BY <1>1, <1>2, <1>3, <1>4, <1>5

LEMMA Inductive ==
  /\ Init => PInv /\ DrawnWell
  /\ PInv /\ [Next]_vars => PInv'
  /\ PInv /\ (fresh => DrawnWell) /\ [Next]_vars => (fresh => DrawnWell)'
  <1>0. NewImage \in Images
    BY PanesAssumption DEF NewImage, Images, DataAddrs, StackAddrs
  <1>1. ASSUME Init PROVE PInv /\ DrawnWell
    <2>1. mem \in [Ctxs -> Images] /\ ctx \in Ctxs /\ mem[ctx] = NewImage
      BY <1>0, <1>1 DEF Init
    <2>2. reg \in CellsOf(StackPointers) /\ reg.value # None /\ ~reg.unused /\ reg.value = NewImage.sp
      <3>1. NewImage.sp \in 0 .. StackTop /\ reg = NewCell(NewImage.sp)
        BY <1>0, <1>1 DEF Init, Images
      <3>2. NewImage.sp # None
        BY <3>1, PanesAssumption
      <3> QED
        BY <3>1, <3>2, Fresh DEF NewCell, StackPointers
    <2>3. /\ \A a \in DOMAIN stack : a \in StackAddrs /\ stack[a] \in Cells /\ Sound(stack[a])
          /\ NoGap
          /\ bottom >= 0 /\ NewImage.size = StackStart =>
               \A a \in InUse(NewImage) : a \in DOMAIN stack /\ stack[a].value = NewImage.stack[a]
      BY <1>0, <1>1, DrawnStack DEF Init, NoGap
    <2>4. /\ \A a \in DOMAIN data : FALSE
          /\ \A a \in 0 .. NewImage.top - 1 : NewImage.data[a] = 0
      BY <1>0, <1>1, PanesAssumption DEF Init, NewImage, DataAddrs
    <2>5. ViewFits
      BY <1>1, <2>1, PanesAssumption DEF Init, ViewFits, NewImage
    <2> QED
      BY <1>1, <2>1, <2>2, <2>3, <2>4, <2>5 DEF Init, PInv, Display, DrawnWell, StackFits
  <1>2. ASSUME PInv, [Next]_vars PROVE PInv' /\ ((fresh => DrawnWell) => (fresh => DrawnWell)')
    <2>1. ASSUME NEW c \in Ctxs,
                 StoreData(c) \/ StoreStack(c) \/ MoveSp(c) \/ Sbrk(c) \/ ExpandStack(c)
          PROVE  PInv' /\ ~fresh'
      BY <1>2, <2>1, ProgramsKeep DEF StoreData, StoreStack, MoveSp, Sbrk, ExpandStack, Edit
    <2>2. ASSUME NEW c \in Ctxs, Reset(c) \/ Switch(c) PROVE PInv' /\ DrawnWell'
      <3>1. mem' \in [Ctxs -> Images] /\ Draw(c, mem'[c])
        BY <1>0, <1>2, <2>2 DEF Reset, Switch, PInv
      <3> QED
        BY <3>1, DrawKeeps
    <2>3. ASSUME NEW c \in Ctxs, SwitchMiss(c) PROVE PInv' /\ ~fresh'
      BY <1>2, <2>3 DEF SwitchMiss, panes, PInv, Display, NoGap, ViewFits
    <2>4. CASE Refresh
      BY <1>2, <2>4, RefreshKeeps
    <2>5. CASE UNCHANGED vars
      BY <1>2, <2>5 DEF vars, panes, PInv, Display, NoGap, ViewFits, DrawnWell, StackFits
    <2> QED
      BY <1>2, <2>1, <2>2, <2>3, <2>4, <2>5 DEF Next
  <1> QED
    BY <1>1, <1>2

LEMMA Invariant == Spec => [](PInv /\ (fresh => DrawnWell))
  BY Inductive, PTL DEF Spec

-----------------------------------------------------------------------------
(* What holds of the panes *)

\* Everything on display is of its kind, and so is the memory behind it.
THEOREM PanesTypes == Spec => []TypeOK
  <1>1. ASSUME PInv PROVE TypeOK
    <2>1. StackStart .. StackTop \subseteq 0 .. StackTop
      BY PanesAssumption
    <2>2. reg \in [value : 0 .. StackTop, highlight : BOOLEAN, unused : {FALSE}]
      BY <1>1 DEF PInv, Display, CellsOf, StackPointers
    <2> QED
      BY <1>1, <2>1, <2>2 DEF PInv, Display, NoGap, ViewFits, TypeOK, Images
  <1> QED
    BY <1>1, Invariant, PTL

\* A fresh page shows the machine, whatever the programs did to memory and $sp before.
THEOREM PagesShowMemory == Spec => []ShownIsMemory
  <1>1. (fresh => DrawnWell) => ShownIsMemory
    BY DEF DrawnWell, ShownIsMemory
  <1> QED
    BY <1>1, Invariant, PTL

\* The marks of a refresh tell what it changed.
THEOREM RefreshMarksChanges == Spec => MarksTellChanges
  <1> DEFINE Marks ==
         LET changed(old, new, a) ==
               a \in DOMAIN old /\ old[a].value # None /\ old[a].value # new[a].value
         IN  /\ reg'.highlight <=> reg.value # reg'.value
             /\ \A a \in DOMAIN data' :
                  a < mem[ctx].top => (data'[a].highlight <=> changed(data, data', a))
             /\ StackFits =>
                  \A a \in DOMAIN stack' :
                    IF a \notin InUse(mem[ctx]) THEN stack'[a].unused
                    ELSE /\ stack'[a].highlight <=> changed(stack, stack', a)
                         /\ stack'[a].unused => a \in DOMAIN stack /\ stack[a].value # stack'[a].value
  <1>1. ASSUME PInv, Refresh PROVE Marks
    <2>1. mem[ctx] \in Images
      BY <1>1 DEF PInv
    <2>2. reg'.highlight <=> reg.value # reg'.value
      <3>1. mem[ctx].sp \in 0 .. StackTop /\ reg' = UpdateValue(reg, mem[ctx].sp)
        BY <1>1, <2>1 DEF Refresh, Images
      <3>2. mem[ctx].sp # None
        BY <3>1, PanesAssumption
      <3>3. reg \in CellsOf(StackPointers) /\ Sound(reg) /\ reg.value # None
        BY <1>1 DEF PInv, Display, Sound
      <3>4. mem[ctx].sp # None =>
              /\ UpdateValue(reg, mem[ctx].sp).value = mem[ctx].sp
              /\ UpdateValue(reg, mem[ctx].sp).highlight <=>
                   reg.value # None /\ reg.value # mem[ctx].sp
        <4>1. mem[ctx].sp \in StackPointers
          BY <3>1 DEF StackPointers
        <4> QED
          BY <3>3, <4>1, Updated
      <3> QED
        BY <3>1, <3>2, <3>3, <3>4
    <2>3. PICK beyond \in Anything : data' = DataPane(mem[ctx], data, beyond)
      BY <1>1 DEF Refresh
    <2>4. \A a \in DOMAIN data' :
            a < mem[ctx].top =>
              (data'[a].highlight <=>
                 a \in DOMAIN data /\ data[a].value # None /\ data[a].value # data'[a].value)
      BY <1>1, <2>1, <2>3, RefreshedData DEF PInv, Display
    <2>5. PICK stale \in Anything : stack' = StackPane(mem[ctx], ctx, mem[bound].sp, stale)
      BY <1>1 DEF Refresh
    <2>6. bound = ctx /\ view.ctx = ctx /\ mem[ctx].size = StackStart =>
            \A a \in DOMAIN stack' :
              IF a \notin InUse(mem[ctx]) THEN stack'[a].unused
              ELSE /\ stack'[a].highlight <=>
                        a \in DOMAIN stack /\ stack[a].value # None
                          /\ stack[a].value # stack'[a].value
                   /\ stack'[a].unused => a \in DOMAIN stack /\ stack[a].value # stack'[a].value
      BY <1>1, <2>5, StackRefresh
    <2> QED
      BY <2>2, <2>4, <2>6 DEF StackFits
  <1>2. PInv /\ (fresh => DrawnWell) /\ [Next]_vars => [Refresh => Marks]_vars
    BY <1>1
  <1> QED
    BY <1>2, Invariant, PTL DEF Spec, MarksTellChanges
=============================================================================
