--------------------------- MODULE AssemblerProofs ---------------------------
(***************************************************************************)
(* Proofs about the labels of Assembler, for every set of statements,      *)
(* every length of a program and every place of the segments.              *)
(***************************************************************************)
EXTENDS Assembler, SequenceTheorems, FiniteSetTheorems, TLAPS

-----------------------------------------------------------------------------
(* Folds over a sequence, one element after the other *)

\* A set of numbers has a least one: induction, in the form the provers can use.
LEMMA LeastOf ==
  ASSUME NEW T, T \subseteq Nat, T # {}
  PROVE  \E m \in T : \A k \in T : m <= k
  <1> DEFINE R == {p \in Nat \X Nat : p[1] < p[2]}
  <1>1. OpToRel(<, Nat) = R
    BY Zenon DEF OpToRel
  <1>2. IsWellFoundedOn(R, Nat)
    BY Zenon, <1>1, NatLessThanWellFounded
  <1> HIDE DEF R
  <1>3. \E x \in T : \A y \in T : ~(<<y, x>> \in R)
    BY Zenon, <1>2, WFMin
  <1>4. \A x \in T, y \in T : ~(<<y, x>> \in R) => x <= y
    BY DEF R
  <1> QED
    BY <1>3, <1>4

LEMMA MaxOfFirst ==
  ASSUME NEW m \in Nat, NEW t \in SUBSET (1 .. m), m \in t
  PROVE  Max(t) = m
  <1>1. \A y \in t : m >= y
    OBVIOUS
  <1>2. \A x \in t : (\A y \in t : x >= y) => x = m
    OBVIOUS
  <1> QED
    BY <1>1, <1>2 DEF Max

LEMMA OneToNothing == 1 .. 0 = {}
  OBVIOUS

\* The folds of resolve_label_uses and clear_labels as the functions that they are.
UsesFold(f, s, n, q, m) ==
  f = [t \in SUBSET (1 .. m) |->
         IF t = {} THEN s ELSE ResolveUse(f[t \ {Max(t)}], n, q[Max(t)])]

LabelsFold(f, s, q, m) ==
  f = [t \in SUBSET (1 .. m) |->
         IF t = {} THEN s ELSE ResolveUses(f[t \ {Max(t)}], q[Max(t)])]

UsesFolded(s, n, q) == FoldLeft(LAMBDA t, use : ResolveUse(t, n, use), s, q)
LabelsFolded(s, q) == FoldLeft(ResolveUses, s, q)

LEMMA UsesFoldExists ==
  ASSUME NEW s, NEW n, NEW q, NEW m \in Nat
  PROVE  \E f : UsesFold(f, s, n, q, m)
  <1> DEFINE T == {k \in Nat : ~ \E f : UsesFold(f, s, n, q, k)}
  <1> SUFFICES ASSUME T # {} PROVE FALSE
    OBVIOUS
  <1>1. PICK k \in T : \A l \in T : k <= l
    BY LeastOf
  <1>2. k # 0
    <2>1. UsesFold([t \in {{}} |-> s], s, n, q, 0)
      BY OneToNothing DEF UsesFold
    <2> QED
      BY <2>1
  <1>3. k - 1 \in Nat /\ k - 1 \notin T
    BY <1>1, <1>2
  <1>4. PICK f : UsesFold(f, s, n, q, k - 1)
    BY <1>3
  <1> DEFINE g == [t \in SUBSET (1 .. k) |->
                     IF k \in t THEN ResolveUse(f[t \ {k}], n, q[k]) ELSE f[t]]
  <1>5. ASSUME NEW t \in SUBSET (1 .. k)
        PROVE  g[t] = IF t = {} THEN s ELSE ResolveUse(g[t \ {Max(t)}], n, q[Max(t)])
    <2>1. CASE k \in t
      <3>1. Max(t) = k
        BY <2>1, MaxOfFirst
      <3>2. t \ {k} \in SUBSET (1 .. k) /\ k \notin t \ {k}
        OBVIOUS
      <3> QED
        BY <2>1, <3>1, <3>2
    <2>2. CASE k \notin t
      <3>1. t \in SUBSET (1 .. k - 1)
        BY <2>2
      <3>2. f[t] = IF t = {} THEN s ELSE ResolveUse(f[t \ {Max(t)}], n, q[Max(t)])
        BY <1>4, <3>1 DEF UsesFold
      <3>3. g[t \ {Max(t)}] = f[t \ {Max(t)}]
        BY <2>2
      <3> QED
        BY <2>2, <3>2, <3>3
    <2> QED
      BY <2>1, <2>2
  <1>6. UsesFold(g, s, n, q, k)
    BY <1>5 DEF UsesFold
  <1> QED
    BY <1>6

LEMMA LabelsFoldExists ==
  ASSUME NEW s, NEW q, NEW m \in Nat
  PROVE  \E f : LabelsFold(f, s, q, m)
  <1> DEFINE T == {k \in Nat : ~ \E f : LabelsFold(f, s, q, k)}
  <1> SUFFICES ASSUME T # {} PROVE FALSE
    OBVIOUS
  <1>1. PICK k \in T : \A l \in T : k <= l
    BY LeastOf
  <1>2. k # 0
    <2>1. LabelsFold([t \in {{}} |-> s], s, q, 0)
      BY OneToNothing DEF LabelsFold
    <2> QED
      BY <2>1
  <1>3. k - 1 \in Nat /\ k - 1 \notin T
    BY <1>1, <1>2
  <1>4. PICK f : LabelsFold(f, s, q, k - 1)
    BY <1>3
  <1> DEFINE g == [t \in SUBSET (1 .. k) |->
                     IF k \in t THEN ResolveUses(f[t \ {k}], q[k]) ELSE f[t]]
  <1>5. ASSUME NEW t \in SUBSET (1 .. k)
        PROVE  g[t] = IF t = {} THEN s ELSE ResolveUses(g[t \ {Max(t)}], q[Max(t)])
    <2>1. CASE k \in t
      <3>1. Max(t) = k
        BY <2>1, MaxOfFirst
      <3>2. t \ {k} \in SUBSET (1 .. k) /\ k \notin t \ {k}
        OBVIOUS
      <3> QED
        BY <2>1, <3>1, <3>2
    <2>2. CASE k \notin t
      <3>1. t \in SUBSET (1 .. k - 1)
        BY <2>2
      <3>2. f[t] = IF t = {} THEN s ELSE ResolveUses(f[t \ {Max(t)}], q[Max(t)])
        BY <1>4, <3>1 DEF LabelsFold
      <3>3. g[t \ {Max(t)}] = f[t \ {Max(t)}]
        BY <2>2
      <3> QED
        BY <2>2, <3>2, <3>3
    <2> QED
      BY <2>1, <2>2
  <1>6. LabelsFold(g, s, q, k)
    BY <1>5 DEF LabelsFold
  <1> QED
    BY <1>6

\* What is left of s when the first k uses have been resolved.
LEMMA UsesFoldSteps ==
  ASSUME NEW s, NEW n, NEW S, NEW q \in Seq(S)
  PROVE  \E h : /\ h[0] = s
                /\ \A k \in 1 .. Len(q) : h[k] = ResolveUse(h[k-1], n, q[k])
                /\ h[Len(q)] = UsesFolded(s, n, q)
  <1> DEFINE m == Len(q)
             f == CHOOSE f : UsesFold(f, s, n, q, m)
             h == [k \in 0 .. m |-> f[1 .. k]]
  <1>1. m \in Nat /\ DOMAIN q = 1 .. m
    OBVIOUS
  <1>2. UsesFold(f, s, n, q, m)
    BY <1>1, UsesFoldExists
  <1>3. UsesFolded(s, n, q) = f[1 .. m]
    BY Zenon, <1>1 DEF UsesFolded, FoldLeft, MapThenFoldSet, UsesFold
  <1> HIDE DEF f
  <1>4. f[1 .. 0] = s
    BY <1>1, <1>2, OneToNothing DEF UsesFold
  <1>5. ASSUME NEW k \in 1 .. m PROVE f[1 .. k] = ResolveUse(f[1 .. k-1], n, q[k])
    <2>1. Max(1 .. k) = k
      BY <1>1, MaxOfFirst
    <2>2. (1 .. k) \ {k} = 1 .. k-1
      BY <1>1
    <2>3. 1 .. k \in SUBSET (1 .. m) /\ 1 .. k # {}
      BY <1>1
    <2> QED
      BY <1>2, <2>1, <2>2, <2>3 DEF UsesFold
  <1>6. h[0] = s /\ h[m] = f[1 .. m] /\ \A k \in 1 .. m : h[k] = f[1 .. k] /\ h[k-1] = f[1 .. k-1]
    BY <1>1, <1>4
  <1> QED
    BY <1>3, <1>5, <1>6
\* And the first k labels.
LEMMA LabelsFoldSteps ==
  ASSUME NEW s, NEW S, NEW q \in Seq(S)
  PROVE  \E h : /\ h[0] = s
                /\ \A k \in 1 .. Len(q) : h[k] = ResolveUses(h[k-1], q[k])
                /\ h[Len(q)] = LabelsFolded(s, q)
  <1> DEFINE m == Len(q)
             f == CHOOSE f : LabelsFold(f, s, q, m)
             h == [k \in 0 .. m |-> f[1 .. k]]
  <1>1. m \in Nat /\ DOMAIN q = 1 .. m
    OBVIOUS
  <1>2. LabelsFold(f, s, q, m)
    BY <1>1, LabelsFoldExists
  <1>3. LabelsFolded(s, q) = f[1 .. m]
    BY Zenon, <1>1 DEF LabelsFolded, FoldLeft, MapThenFoldSet, LabelsFold
  <1> HIDE DEF f
  <1>4. f[1 .. 0] = s
    BY <1>1, <1>2, OneToNothing DEF LabelsFold
  <1>5. ASSUME NEW k \in 1 .. m PROVE f[1 .. k] = ResolveUses(f[1 .. k-1], q[k])
    <2>1. Max(1 .. k) = k
      BY <1>1, MaxOfFirst
    <2>2. (1 .. k) \ {k} = 1 .. k-1
      BY <1>1
    <2>3. 1 .. k \in SUBSET (1 .. m) /\ 1 .. k # {}
      BY <1>1
    <2> QED
      BY <1>2, <2>1, <2>2, <2>3 DEF LabelsFold
  <1>6. h[0] = s /\ h[m] = f[1 .. m] /\ \A k \in 1 .. m : h[k] = f[1 .. k] /\ h[k-1] = f[1 .. k-1]
    BY <1>1, <1>4
  <1> QED
    BY <1>3, <1>5, <1>6
-----------------------------------------------------------------------------
(* What the operators of SymbolTable do to the labels *)

Fields == {"table", "locals", "ring", "pending", "mem", "text", "errors",
           "dir", "kernel", "auto", "pc", "next_gp"}

\* The layout is in order, and so are the labels.
Laid(s) ==
  /\ s.dir \in {"data", "text"} /\ s.kernel \in BOOLEAN /\ s.auto \in BOOLEAN
  /\ s.pc \in [Segments -> Nat \ {0}] /\ s.next_gp \in GpBot .. GpEnd - 1

Shaped(s) ==
  /\ DOMAIN s = Fields
  /\ s.table \in [DOMAIN s.table -> Labels]
  /\ s.locals \in Seq(DOMAIN s.table) /\ s.pending \in Seq(DOMAIN s.table)
  /\ s.ring \in BOOLEAN
  /\ Laid(s)

SameLayout(s, t) ==
  /\ t.dir = s.dir /\ t.kernel = s.kernel /\ t.auto = s.auto
  /\ t.pc = s.pc /\ t.next_gp = s.next_gp

\* From s to t at most memory, text and errors change.
SameLabels(s, t) ==
  /\ DOMAIN t = Fields
  /\ t.table = s.table /\ t.locals = s.locals /\ t.ring = s.ring /\ t.pending = s.pending

\* The labels X have no patch left.
Cleared(table, X) ==
  [n \in DOMAIN table |-> IF n \in X THEN [table[n] EXCEPT !.uses = <<>>] ELSE table[n]]

\* From s to t the labels X are resolved.
Resolved(s, t, X) ==
  /\ DOMAIN t = Fields
  /\ t.table = Cleared(s.table, X)
  /\ t.locals = s.locals /\ t.ring = s.ring /\ t.pending = s.pending
  /\ SameLayout(s, t)

\* A patch changes memory or text.
LEMMA ResolveUseEffect ==
  ASSUME NEW s, NEW n, NEW use, DOMAIN s = Fields
  PROVE  SameLabels(s, ResolveUse(s, n, use)) /\ SameLayout(s, ResolveUse(s, n, use))
  <1>1. CASE use.inst
    BY <1>1 DEF ResolveUse, ResolveInst, Fields, SameLabels, SameLayout
  <1>2. CASE ~use.inst
    BY <1>2 DEF ResolveUse, SetMemWord, Fields, SameLabels, SameLayout
  <1> QED
    BY <1>1, <1>2

LEMMA ResolveUsesEffect ==
  ASSUME NEW s, NEW n, Shaped(s), n \in DOMAIN s.table
  PROVE  Resolved(s, ResolveUses(s, n), {n})
  <1> DEFINE q == s.table[n].uses
  <1>1. q \in Seq(Uses)
    BY DEF Shaped, Labels
  <1> HIDE DEF q
  <1>2. PICK h : /\ h[0] = s
                 /\ \A k \in 1 .. Len(q) : h[k] = ResolveUse(h[k-1], n, q[k])
                 /\ h[Len(q)] = UsesFolded(s, n, q)
    BY <1>1, UsesFoldSteps
  <1> DEFINE OK(k) == SameLabels(s, h[k]) /\ SameLayout(s, h[k])
             T == {k \in 0 .. Len(q) : ~OK(k)}
  <1>3. T = {}
    <2> SUFFICES ASSUME T # {} PROVE FALSE
      OBVIOUS
    <2>0. T \subseteq Nat
      BY <1>1
    <2> HIDE DEF T
    <2>1. PICK k \in T : \A l \in T : k <= l
      BY <2>0, LeastOf
    <2> USE DEF T
    <2>2. OK(0)
      BY <1>2 DEF Shaped, SameLabels, SameLayout
    <2>3. k \in 1 .. Len(q) /\ k - 1 \in 0 .. Len(q) /\ k - 1 \notin T
      BY <1>1, <2>1, <2>2
    <2>4. OK(k - 1) /\ DOMAIN h[k-1] = Fields
      BY <2>3 DEF SameLabels
    <2>5. h[k] = ResolveUse(h[k-1], n, q[k])
      BY <1>2, <2>3
    <2>6. SameLabels(h[k-1], h[k]) /\ SameLayout(h[k-1], h[k])
      BY <2>4, <2>5, ResolveUseEffect
    <2>7. OK(k)
      BY <2>4, <2>6 DEF SameLabels, SameLayout
    <2> QED
      BY <2>1, <2>7
  <1>4. OK(Len(q))
    BY <1>1, <1>3
  <1> DEFINE t == h[Len(q)]
  <1>5. ResolveUses(s, n) = [t EXCEPT !.table[n].uses = <<>>]
    <2>1. ResolveUses(s, n) = [UsesFolded(s, n, q) EXCEPT !.table[n].uses = <<>>]
      BY Zenon DEF ResolveUses, UsesFolded, q
    <2> QED
      BY <1>2, <2>1
  <1> HIDE DEF t
  <1>6. [t.table EXCEPT ![n].uses = <<>>] = Cleared(s.table, {n})
    BY <1>4 DEF Cleared, SameLabels, Shaped, t
  <1> QED
    BY <1>4, <1>5, <1>6 DEF Resolved, SameLabels, SameLayout, Fields, t

LEMMA ClearedFacts ==
  ASSUME NEW table, NEW D, table \in [D -> Labels], NEW X
  PROVE  /\ Cleared(table, X) \in [D -> Labels]
         /\ \A n \in D : /\ Cleared(table, X)[n].addr = table[n].addr
                         /\ Cleared(table, X)[n].global = table[n].global
                         /\ Cleared(table, X)[n].gp = table[n].gp
                         /\ n \in X => Cleared(table, X)[n].uses = <<>>
                         /\ n \notin X => Cleared(table, X)[n].uses = table[n].uses
  <1>1. ASSUME NEW n \in D
        PROVE  [table[n] EXCEPT !.uses = <<>>] \in Labels
    <2>1. table[n] \in Labels /\ <<>> \in Seq(Uses)
      OBVIOUS
    <2> QED
      BY <2>1 DEF Labels
  <1>2. ASSUME NEW n \in D
        PROVE  /\ [table[n] EXCEPT !.uses = <<>>].addr = table[n].addr
               /\ [table[n] EXCEPT !.uses = <<>>].global = table[n].global
               /\ [table[n] EXCEPT !.uses = <<>>].gp = table[n].gp
               /\ [table[n] EXCEPT !.uses = <<>>].uses = <<>>
    BY DEF Labels
  <1> QED
    BY <1>1, <1>2 DEF Cleared

LEMMA ClearedTwice ==
  ASSUME NEW table, NEW D, table \in [D -> Labels], NEW X, NEW Y
  PROVE  Cleared(Cleared(table, X), Y) = Cleared(table, X \cup Y)
  <1>1. ASSUME NEW n \in D
        PROVE  [[table[n] EXCEPT !.uses = <<>>] EXCEPT !.uses = <<>>] = [table[n] EXCEPT !.uses = <<>>]
    BY DEF Labels
  <1> QED
    BY <1>1 DEF Cleared

LEMMA ResolvedShaped ==
  ASSUME NEW s, NEW t, NEW X, Shaped(s), Resolved(s, t, X)
  PROVE  Shaped(t) /\ DOMAIN t.table = DOMAIN s.table
  <1>1. t.table \in [DOMAIN s.table -> Labels]
    BY ClearedFacts DEF Shaped, Resolved
  <1> QED
    BY <1>1 DEF Shaped, Resolved, SameLayout, Laid

\* clear_labels resolves the labels of the statement and forgets them.
LEMMA ClearLabelsEffect ==
  ASSUME NEW s, Shaped(s)
  PROVE  Resolved([s EXCEPT !.pending = <<>>], ClearLabels(s), ToSet(s.pending))
  <1> DEFINE q == s.pending
             First(k) == {q[i] : i \in 1 .. k}
  <1>1. q \in Seq(DOMAIN s.table) /\ Len(q) \in Nat
    BY DEF Shaped
  <1> HIDE DEF q
  <1>2. PICK h : /\ h[0] = s
                 /\ \A k \in 1 .. Len(q) : h[k] = ResolveUses(h[k-1], q[k])
                 /\ h[Len(q)] = LabelsFolded(s, q)
    BY <1>1, LabelsFoldSteps
  <1> DEFINE OK(k) == Resolved(s, h[k], First(k))
             T == {k \in 0 .. Len(q) : ~OK(k)}
  <1>3. T = {}
    <2> SUFFICES ASSUME T # {} PROVE FALSE
      OBVIOUS
    <2>0. T \subseteq Nat
      BY <1>1
    <2> HIDE DEF T
    <2>1. PICK k \in T : \A l \in T : k <= l
      BY <2>0, LeastOf
    <2> USE DEF T
    <2>2. OK(0)
      <3>1. First(0) = {}
        OBVIOUS
      <3>2. s.table = Cleared(s.table, {})
        BY DEF Shaped, Cleared
      <3> QED
        BY <1>2, <3>1, <3>2 DEF Shaped, Resolved, SameLayout
    <2> HIDE DEF OK
    <2>3. k \in 1 .. Len(q) /\ k - 1 \in 0 .. Len(q) /\ k - 1 \notin T
      BY <1>1, <2>1, <2>2
    <2>4. OK(k - 1)
      BY <2>3
    <2> USE DEF OK
    <2>5. Shaped(h[k-1]) /\ DOMAIN h[k-1].table = DOMAIN s.table
      BY <2>4, ResolvedShaped
    <2>6. q[k] \in DOMAIN s.table
      BY <1>1, <2>3
    <2>7. h[k] = ResolveUses(h[k-1], q[k])
      BY <1>2, <2>3
    <2>8. Resolved(h[k-1], h[k], {q[k]})
      BY <2>5, <2>6, <2>7, ResolveUsesEffect
    <2>9. First(k) = First(k-1) \cup {q[k]}
      BY <2>3
    <2>10. Cleared(Cleared(s.table, First(k-1)), {q[k]}) = Cleared(s.table, First(k))
      BY <2>9, ClearedTwice DEF Shaped
    <2> HIDE DEF First
    <2>11. OK(k)
      BY <2>4, <2>8, <2>10 DEF Resolved, SameLayout
    <2> QED
      BY <2>1, <2>11
  <1>4. OK(Len(q)) /\ First(Len(q)) = ToSet(q)
    <2>1. First(Len(q)) = ToSet(q)
      BY <1>1 DEF ToSet
    <2>2. Len(q) \in 0 .. Len(q)
      BY <1>1
    <2> HIDE DEF OK
    <2> QED
      BY <1>3, <2>1, <2>2
  <1>5. ClearLabels(s) = [h[Len(q)] EXCEPT !.pending = <<>>]
    <2>1. ClearLabels(s) = [LabelsFolded(s, q) EXCEPT !.pending = <<>>]
      BY Zenon DEF ClearLabels, LabelsFolded, q
    <2> QED
      BY <1>2, <2>1
  <1> DEFINE t == h[Len(q)]
  <1>6. Resolved(s, t, ToSet(q))
    BY <1>4
  <1> HIDE DEF t
  <1>7. Resolved([s EXCEPT !.pending = <<>>], [t EXCEPT !.pending = <<>>], ToSet(q))
    BY <1>6 DEF Resolved, SameLayout, Shaped, Fields
  <1> QED
    BY <1>5, <1>7 DEF t, q

-----------------------------------------------------------------------------
(* What holds of the labels while a file is read.  D are the names that    *)
(* the file has defined, Z those of them that it can define again without  *)
(* an error, and W the names that have been.                               *)

\* A name with an address, or in front of the statement that is read, is global or on the
\* list of local labels.
Listed(s) ==
  \A n \in DOMAIN s.table :
    s.table[n].addr # 0 \/ s.table[n].gp \/ n \in ToSet(s.pending) =>
      s.table[n].global \/ n \in ToSet(s.locals)

\* Only the labels X, and those off gp, can have an address and patches left.
Patched(s, X) ==
  \A n \in DOMAIN s.table :
    s.table[n].addr # 0 /\ ~s.table[n].gp /\ n \notin X => s.table[n].uses = <<>>

\* A name on the list was defined in this file, and will not be entered a second time
\* unless it is one of Z.
Behind(s, D, Z) ==
  \A n \in ToSet(s.locals) :
    /\ n \in D
    /\ s.table[n].global \/ (s.table[n].addr # 0 /\ ~s.table[n].gp) \/ n \in Z

Good(s, D, Z, W) ==
  /\ Shaped(s) /\ Listed(s) /\ Patched(s, ToSet(s.pending)) /\ Behind(s, D, Z)
  /\ s.ring => W # {}

LEMMA ToSetCons ==
  ASSUME NEW S, NEW q \in Seq(S), NEW n \in S
  PROVE  <<n>> \o q \in Seq(S) /\ ToSet(<<n>> \o q) = {n} \cup ToSet(q)
  <1> DEFINE w == <<n>> \o q
  <1>1. w \in Seq(S) /\ Len(w) = Len(q) + 1 /\ w[1] = n
    OBVIOUS
  <1>2. \A i \in 1 .. Len(q) : w[i+1] = q[i]
    OBVIOUS
  <1> HIDE DEF w
  <1>3. ToSet(w) \subseteq {n} \cup ToSet(q)
    <2> SUFFICES ASSUME NEW i \in 1 .. Len(w), i # 1 PROVE w[i] \in ToSet(q)
      BY <1>1 DEF ToSet
    <2>1. i - 1 \in 1 .. Len(q) /\ w[i] = q[i-1]
      BY <1>1, <1>2
    <2> QED
      BY <2>1 DEF ToSet
  <1>4. n \in ToSet(w)
    BY <1>1 DEF ToSet
  <1>5. ASSUME NEW i \in 1 .. Len(q) PROVE q[i] \in ToSet(w)
    <2>1. i + 1 \in 1 .. Len(w)
      BY <1>1
    <2> QED
      BY <1>1, <1>2, <2>1 DEF ToSet
  <1>6. ToSet(q) \subseteq ToSet(w)
    BY <1>5 DEF ToSet
  <1> QED
    BY <1>1, <1>3, <1>4, <1>6 DEF w

LEMMA ToSetEmpty == ToSet(<<>>) = {}
  BY DEF ToSet

LEMMA ToSetIn ==
  ASSUME NEW S, NEW q \in Seq(S)
  PROVE  ToSet(q) \subseteq S
  BY DEF ToSet

LEMMA SeqIn ==
  ASSUME NEW A, NEW B, A \subseteq B, NEW q \in Seq(A)
  PROVE  q \in Seq(B)
  OBVIOUS

LEMMA GoodGrows ==
  ASSUME NEW s, NEW D, NEW Z, NEW W, NEW D2, NEW Z2, NEW W2, Good(s, D, Z, W),
         D \subseteq D2, Z \subseteq Z2, W \subseteq W2
  PROVE  Good(s, D2, Z2, W2)
  BY DEF Good, Behind

\* Nothing is said of memory, text and errors.
LEMMA GoodKept ==
  ASSUME NEW s, NEW t, NEW D, NEW Z, NEW W, Good(s, D, Z, W), SameLabels(s, t), Laid(t)
  PROVE  Good(t, D, Z, W)
  <1>1. Shaped(t)
    BY DEF Good, Shaped, SameLabels
  <1> QED
    BY <1>1 DEF Good, SameLabels, Listed, Patched, Behind

\* From s to t no label but those of this statement moves, none is entered, and none changes
\* its kind.
Carried(s, t) ==
  /\ DOMAIN t.table = DOMAIN s.table
  /\ \A n \in DOMAIN s.table : /\ t.table[n].global = s.table[n].global
                               /\ t.table[n].gp = s.table[n].gp
                               /\ n \notin ToSet(s.pending) => t.table[n].addr = s.table[n].addr
  /\ t.locals = s.locals /\ t.ring = s.ring /\ t.pending = <<>>

LEMMA ClearLabelsGood ==
  ASSUME NEW s, NEW D, NEW Z, NEW W, Good(s, D, Z, W)
  PROVE  /\ Good(ClearLabels(s), D, Z, W)
         /\ SameLayout(s, ClearLabels(s)) /\ Carried(s, ClearLabels(s))
         /\ \A n \in DOMAIN s.table : ClearLabels(s).table[n].addr = s.table[n].addr
  <1> DEFINE t == ClearLabels(s)
             X == ToSet(s.pending)
  <1>1. Shaped(s) /\ DOMAIN s = Fields
    BY DEF Good, Shaped
  <1>2. Resolved([s EXCEPT !.pending = <<>>], t, X)
    BY <1>1, ClearLabelsEffect
  <1> HIDE DEF t, X
  <1>3. /\ DOMAIN t = Fields /\ t.table = Cleared(s.table, X)
        /\ t.locals = s.locals /\ t.ring = s.ring /\ t.pending = <<>> /\ SameLayout(s, t)
    BY <1>1, <1>2 DEF Resolved, SameLayout, Fields
  <1>4. /\ t.table \in [DOMAIN s.table -> Labels]
        /\ \A n \in DOMAIN s.table : /\ t.table[n].addr = s.table[n].addr
                                     /\ t.table[n].global = s.table[n].global
                                     /\ t.table[n].gp = s.table[n].gp
                                     /\ n \in X => t.table[n].uses = <<>>
                                     /\ n \notin X => t.table[n].uses = s.table[n].uses
    BY <1>1, <1>3, ClearedFacts DEF Shaped
  <1>5. Carried(s, t)
    BY <1>3, <1>4 DEF Carried
  <1>6. Shaped(t)
    BY <1>1, <1>3, <1>4 DEF Shaped, SameLayout, Laid
  <1>7. Listed(t) /\ Patched(t, ToSet(t.pending)) /\ Behind(t, D, Z)
    <2>1. ToSet(t.pending) = {}
      BY <1>3, ToSetEmpty
    <2>2. ToSet(s.locals) \subseteq DOMAIN s.table
      BY <1>1, ToSetIn DEF Shaped
    <2> QED
      BY <1>3, <1>4, <2>1, <2>2 DEF Good, Listed, Patched, Behind, X
  <1> QED
    BY <1>3, <1>4, <1>5, <1>6, <1>7 DEF Good, t

\* fix_current_label_address moves the labels of this statement.
LEMMA MoveLabelsGood ==
  ASSUME NEW s, NEW D, NEW Z, NEW W, Good(s, D, Z, W), NEW loc \in Nat \ {0}
  PROVE  /\ Good(MoveLabels(s, loc), D, Z, W)
         /\ SameLayout(s, MoveLabels(s, loc)) /\ Carried(s, MoveLabels(s, loc))
  <1> DEFINE X == ToSet(s.pending)
             table == [n \in DOMAIN s.table |->
                         IF n \in X THEN [s.table[n] EXCEPT !.addr = loc] ELSE s.table[n]]
             u == [s EXCEPT !.table = table]
  <1>1. Shaped(s) /\ DOMAIN s = Fields
    BY DEF Good, Shaped
  <1>2. ASSUME NEW n \in DOMAIN s.table
        PROVE  /\ table[n] \in Labels
               /\ table[n].global = s.table[n].global
               /\ table[n].gp = s.table[n].gp
               /\ table[n].uses = s.table[n].uses
               /\ table[n].addr = IF n \in X THEN loc ELSE s.table[n].addr
    <2>1. s.table[n] \in Labels
      BY <1>1 DEF Shaped
    <2> QED
      BY <2>1 DEF Labels
  <1>3. table \in [DOMAIN s.table -> Labels]
    BY <1>2
  <1>4. /\ DOMAIN u = Fields /\ u.table = table /\ DOMAIN u.table = DOMAIN s.table
        /\ u.locals = s.locals /\ u.ring = s.ring /\ u.pending = s.pending /\ SameLayout(s, u)
    BY <1>1 DEF Fields, SameLayout
  <1>5. MoveLabels(s, loc) = ClearLabels(u)
    BY DEF MoveLabels
  <1> HIDE DEF table, u, X
  <1>6. Shaped(u)
    BY <1>1, <1>3, <1>4 DEF Shaped, SameLayout, Laid
  <1>7. Good(u, D, Z, W)
    <2>1. ToSet(s.locals) \subseteq DOMAIN s.table
      BY <1>1, ToSetIn DEF Shaped
    <2> QED
      BY <1>2, <1>4, <1>6, <2>1 DEF Good, Listed, Patched, Behind, X
  <1>8. SameLayout(u, ClearLabels(u)) /\ Carried(u, ClearLabels(u)) /\ Good(ClearLabels(u), D, Z, W)
    BY <1>7, ClearLabelsGood
  <1> QED
    BY <1>2, <1>4, <1>5, <1>8 DEF SameLayout, Carried, X

LEMMA LookupGood ==
  ASSUME NEW s, NEW D, NEW Z, NEW W, Good(s, D, Z, W), NEW n
  PROVE  /\ Good(Lookup(s, n), D, Z, W) /\ SameLayout(s, Lookup(s, n))
         /\ Lookup(s, n).locals = s.locals /\ Lookup(s, n).pending = s.pending
         /\ Lookup(s, n).ring = s.ring
         /\ DOMAIN Lookup(s, n).table = DOMAIN s.table \cup {n}
         /\ \A m \in DOMAIN s.table : Lookup(s, n).table[m] = s.table[m]
         /\ n \notin DOMAIN s.table => Lookup(s, n).table[n] = NewLabel
  <1> DEFINE table == [m \in DOMAIN s.table \cup {n} |-> IF m \in DOMAIN s.table THEN s.table[m] ELSE NewLabel]
             t == [s EXCEPT !.table = table]
  <1>1. Shaped(s) /\ DOMAIN s = Fields /\ s.table \in [DOMAIN s.table -> Labels]
    BY DEF Good, Shaped
  <1>2. NewLabel \in Labels
    <2>1. <<>> \in Seq(Uses)
      OBVIOUS
    <2> QED
      BY <2>1 DEF NewLabel, Labels
  <1>3. /\ DOMAIN table = DOMAIN s.table \cup {n}
        /\ \A m \in DOMAIN s.table : table[m] = s.table[m]
        /\ n \notin DOMAIN s.table => table[n] = NewLabel
    OBVIOUS
  <1>4. table \in [DOMAIN table -> Labels]
    BY <1>1, <1>2
  <1>5. Lookup(s, n) = t
    BY <1>1 DEF Lookup, Fields
  <1>6. /\ DOMAIN t = Fields /\ t.table = table
        /\ t.locals = s.locals /\ t.ring = s.ring /\ t.pending = s.pending /\ SameLayout(s, t)
    BY <1>1 DEF Fields, SameLayout
  <1> HIDE DEF t, table
  <1>7. t.locals \in Seq(DOMAIN table) /\ t.pending \in Seq(DOMAIN table)
    BY <1>1, <1>3, <1>6, SeqIn DEF Shaped
  <1>8. Shaped(t)
    BY <1>1, <1>4, <1>6, <1>7 DEF Shaped, SameLayout, Laid
  <1>9. NewLabel.addr = 0 /\ ~NewLabel.gp
    BY DEF NewLabel
  <1>10. ToSet(s.locals) \subseteq DOMAIN s.table /\ ToSet(s.pending) \subseteq DOMAIN s.table
    BY <1>1, ToSetIn DEF Shaped
  <1>11. Good(t, D, Z, W)
    BY <1>3, <1>6, <1>8, <1>9, <1>10 DEF Good, Listed, Patched, Behind
  <1> QED
    BY <1>3, <1>5, <1>6, <1>11

\* A use is recorded only of a name without an address.
LEMMA RecordUseGood ==
  ASSUME NEW s, NEW D, NEW Z, NEW W, Good(s, D, Z, W), NEW n, ~IsDefined(s, n), NEW use \in Uses
  PROVE  /\ Good(RecordUse(s, n, use), D, Z, W) /\ SameLayout(s, RecordUse(s, n, use))
         /\ RecordUse(s, n, use).pending = s.pending
         /\ \A m : IsDefined(RecordUse(s, n, use), m) <=> IsDefined(s, m)
  <1> DEFINE u == Lookup(s, n)
             uses == <<use>> \o u.table[n].uses
             t == RecordUse(s, n, use)
  <1>1. /\ Good(u, D, Z, W) /\ SameLayout(s, u) /\ u.pending = s.pending
        /\ DOMAIN u.table = DOMAIN s.table \cup {n}
        /\ \A m \in DOMAIN s.table : u.table[m] = s.table[m]
        /\ n \notin DOMAIN s.table => u.table[n] = NewLabel
    BY LookupGood
  <1>3. u.table[n].addr = 0
    BY <1>1 DEF IsDefined, NewLabel
  <1> HIDE DEF u
  <1>4. Shaped(u) /\ DOMAIN u = Fields /\ u.table[n] \in Labels
    BY <1>1 DEF Good, Shaped
  <1>5. uses \in Seq(Uses)
    BY <1>4, ToSetCons DEF Labels
  <1> HIDE DEF uses
  <1>6. /\ DOMAIN t = Fields /\ t.table = [u.table EXCEPT ![n].uses = uses]
        /\ t.locals = u.locals /\ t.ring = u.ring /\ t.pending = u.pending /\ SameLayout(u, t)
    BY <1>4 DEF Fields, SameLayout, RecordUse, u, uses
  <1> HIDE DEF t
  <1>7. /\ DOMAIN t.table = DOMAIN u.table
        /\ \A m \in DOMAIN u.table : /\ t.table[m] \in Labels
                                     /\ t.table[m].addr = u.table[m].addr
                                     /\ t.table[m].global = u.table[m].global
                                     /\ t.table[m].gp = u.table[m].gp
                                     /\ m # n => t.table[m].uses = u.table[m].uses
    BY <1>4, <1>5, <1>6 DEF Shaped, Labels
  <1>8. t.table \in [DOMAIN t.table -> Labels]
    BY <1>4, <1>6, <1>7 DEF Shaped
  <1>9. Shaped(t)
    BY <1>4, <1>6, <1>7, <1>8 DEF Shaped, SameLayout, Laid
  <1>10. ToSet(u.locals) \subseteq DOMAIN u.table
    BY <1>4, ToSetIn DEF Shaped
  <1>11. Good(t, D, Z, W)
    BY <1>1, <1>3, <1>6, <1>7, <1>9, <1>10 DEF Good, Listed, Patched, Behind
  <1>12. \A m : IsDefined(t, m) <=> IsDefined(s, m)
    BY <1>1, <1>3, <1>7 DEF IsDefined
  <1> QED
    BY <1>1, <1>6, <1>11, <1>12 DEF SameLayout, t

LEMMA YyErrorGood ==
  ASSUME NEW s, NEW D, NEW Z, NEW W, Good(s, D, Z, W), NEW e
  PROVE  /\ Good(YyError(s, e), D, Z, W)
         /\ SameLayout(s, YyError(s, e)) /\ Carried(s, YyError(s, e))
         /\ \A n \in DOMAIN s.table : YyError(s, e).table[n].addr = s.table[n].addr
  <1> DEFINE u == ClearLabels(s)
             t == YyError(s, e)
  <1>1. /\ Good(u, D, Z, W) /\ SameLayout(s, u) /\ Carried(s, u)
        /\ \A n \in DOMAIN s.table : u.table[n].addr = s.table[n].addr
    BY ClearLabelsGood
  <1>2. t = [u EXCEPT !.errors = @ \cup {e}]
    BY DEF YyError
  <1> HIDE DEF u, t
  <1>3. DOMAIN u = Fields
    BY <1>1 DEF Good, Shaped
  <1>4. SameLabels(u, t) /\ SameLayout(u, t)
    BY <1>2, <1>3 DEF SameLabels, SameLayout, Fields
  <1>5. Laid(t)
    BY <1>1, <1>4 DEF Good, Shaped, Laid, SameLayout
  <1>6. Good(t, D, Z, W)
    BY <1>1, <1>4, <1>5, GoodKept
  <1>7. SameLayout(s, t) /\ Carried(s, t) /\ \A n \in DOMAIN s.table : t.table[n].addr = s.table[n].addr
    BY <1>1, <1>4 DEF SameLabels, SameLayout, Carried
  <1> QED
    BY <1>6, <1>7 DEF t

\* Good, but for the patches of the labels X.
Nearly(s, D, Z, W, X) ==
  /\ Shaped(s) /\ Listed(s) /\ Patched(s, ToSet(s.pending) \cup X) /\ Behind(s, D, Z)
  /\ s.ring => W # {}

LEMMA GoodIsNearly ==
  ASSUME NEW s, NEW D, NEW Z, NEW W, NEW X
  PROVE  /\ Good(s, D, Z, W) => Nearly(s, D, Z, W, X)
         /\ Nearly(s, D, Z, W, {}) => Good(s, D, Z, W)
  BY DEF Good, Nearly, Patched

\* From s to u the label n gets the address loc, and its patches with it.
Given(s, u, n, loc, resolve) ==
  /\ Shaped(u) /\ DOMAIN u.table = DOMAIN s.table /\ SameLayout(s, u)
  /\ u.locals = s.locals /\ u.pending = s.pending /\ u.ring = s.ring
  /\ \A m \in DOMAIN s.table : m # n => u.table[m] = s.table[m]
  /\ u.table[n].global = s.table[n].global /\ u.table[n].gp = s.table[n].gp
  /\ ~s.table[n].gp => u.table[n].addr = loc
  /\ resolve => u.table[n].uses = <<>>

LEMMA AddressGiven ==
  ASSUME NEW s, NEW D, NEW Z, NEW W, Good(s, D, Z, W), NEW n \in DOMAIN s.table,
         NEW loc \in Nat, NEW resolve \in BOOLEAN
  PROVE  LET t == IF s.table[n].gp THEN s ELSE [s EXCEPT !.table[n].addr = loc]
             u == IF resolve THEN ResolveUses(t, n) ELSE t
         IN  Given(s, u, n, loc, resolve)
  <1> DEFINE t == IF s.table[n].gp THEN s ELSE [s EXCEPT !.table[n].addr = loc]
             u == IF resolve THEN ResolveUses(t, n) ELSE t
  <1>1. Shaped(s) /\ DOMAIN s = Fields /\ s.table[n] \in Labels
    BY DEF Good, Shaped
  <1>2. /\ DOMAIN t = Fields /\ SameLayout(s, t)
        /\ t.locals = s.locals /\ t.pending = s.pending /\ t.ring = s.ring
        /\ DOMAIN t.table = DOMAIN s.table
        /\ \A m \in DOMAIN s.table : m # n => t.table[m] = s.table[m]
        /\ t.table[n] = IF s.table[n].gp THEN s.table[n] ELSE [s.table[n] EXCEPT !.addr = loc]
        /\ t.table = [m \in DOMAIN s.table |-> t.table[m]]
    BY <1>1 DEF Shaped, Fields, SameLayout
  <1> HIDE DEF t
  <1>3. /\ t.table[n] \in Labels
        /\ t.table[n].global = s.table[n].global /\ t.table[n].gp = s.table[n].gp
        /\ ~s.table[n].gp => t.table[n].addr = loc
    BY <1>1, <1>2 DEF Labels
  <1>4. t.table \in [DOMAIN t.table -> Labels]
    BY <1>1, <1>2, <1>3 DEF Shaped
  <1>5. Shaped(t)
    BY <1>1, <1>2, <1>4 DEF Shaped, SameLayout, Laid
  <1>6. ASSUME resolve PROVE Given(s, u, n, loc, resolve)
    <2>1. Resolved(t, u, {n})
      BY <1>2, <1>5, <1>6, ResolveUsesEffect
    <2> HIDE DEF u
    <2>2. Shaped(u) /\ DOMAIN u.table = DOMAIN t.table
      BY <1>5, <2>1, ResolvedShaped
    <2>3. \A m \in DOMAIN t.table : m # n => u.table[m] = t.table[m]
      BY <2>1 DEF Resolved, Cleared
    <2>4. /\ u.table[n].addr = t.table[n].addr /\ u.table[n].global = t.table[n].global
          /\ u.table[n].gp = t.table[n].gp /\ u.table[n].uses = <<>>
      <3>1. n \in DOMAIN t.table /\ n \in {n} /\ u.table = Cleared(t.table, {n})
        BY <1>2, <2>1 DEF Resolved
      <3> QED
        BY <1>4, <3>1, ClearedFacts
    <2>5. SameLayout(s, u) /\ u.locals = s.locals /\ u.pending = s.pending /\ u.ring = s.ring
      BY <1>2, <2>1 DEF Resolved, SameLayout
    <2> QED
      BY <1>2, <1>3, <2>2, <2>3, <2>4, <2>5 DEF Given
  <1>7. ASSUME ~resolve PROVE Given(s, u, n, loc, resolve)
    <2>1. u = t
      BY <1>7
    <2> HIDE DEF u
    <2> QED
      BY <1>2, <1>3, <1>5, <1>7, <2>1 DEF Given
  <1>8. Given(s, u, n, loc, resolve)
    BY <1>6, <1>7
  <1> QED
    BY <1>8 DEF t

\* record_label: whatever the state of the label, it is global or on the list afterwards, and
\* is entered a second time only when it is one of Z.
LEMMA RecordLabelGood ==
  ASSUME NEW s0, NEW D, NEW Z, NEW W, Good(s0, D, Z, W), NEW n,
         NEW loc \in Nat, NEW resolve \in BOOLEAN
  PROVE  LET t == RecordLabel(s0, n, loc, resolve)
         IN  /\ Nearly(t, D \cup {n}, IF loc = 0 THEN Z \cup {n} ELSE Z, W \cup ({n} \cap Z),
                       IF resolve THEN {} ELSE {n})
             /\ SameLayout(s0, t) /\ n \in DOMAIN t.table
             /\ t.table[n].global \/ n \in ToSet(t.locals)
  <1> DEFINE s == Lookup(s0, n)
             l == s.table[n]
             D1 == D \cup {n}
             Z1 == IF loc = 0 THEN Z \cup {n} ELSE Z
             W1 == W \cup ({n} \cap Z)
             X == IF resolve THEN {} ELSE {n}
             a == IF l.gp THEN s ELSE [s EXCEPT !.table[n].addr = loc]
             u == IF resolve THEN ResolveUses(a, n) ELSE a
             t == RecordLabel(s0, n, loc, resolve)
  <1> HIDE DEF D1, Z1, W1, X
  <1>1. Good(s, D, Z, W) /\ SameLayout(s0, s) /\ n \in DOMAIN s.table
    BY LookupGood
  <1>2. t = IF ~l.gp /\ l.addr # 0 THEN YyError(s, n) ELSE IF l.global THEN u ELSE PushLocal(u, n)
    BY DEF RecordLabel
  <1> HIDE DEF s, t
  <1>3. D \subseteq D1 /\ Z \subseteq Z1 /\ W \subseteq W1 /\ n \in D1
    BY DEF D1, Z1, W1
  <1>4. Shaped(s) /\ l \in Labels /\ ToSet(s.locals) \subseteq DOMAIN s.table /\ ToSet(s.pending) \subseteq DOMAIN s.table
    BY <1>1, ToSetIn DEF Good, Shaped
  <1>5. CASE ~l.gp /\ l.addr # 0
    <2>1. t = YyError(s, n)
      BY <1>2, <1>5
    <2>2. Good(t, D, Z, W) /\ SameLayout(s, t) /\ Carried(s, t)
      BY <1>1, <2>1, YyErrorGood
    <2>3. Nearly(t, D1, Z1, W1, X)
      BY <1>3, <2>2, GoodGrows, GoodIsNearly
    <2>4. l.global \/ n \in ToSet(s.locals)
      BY <1>1, <1>5 DEF Good, Listed
    <2>5. n \in DOMAIN t.table /\ (t.table[n].global \/ n \in ToSet(t.locals))
      BY <1>1, <2>2, <2>4 DEF Carried
    <2> QED
      BY <1>1, <2>2, <2>3, <2>5 DEF SameLayout, D1, Z1, W1, X, t
  <1>6. CASE l.gp \/ l.addr = 0
    <2>0. Given(s, u, n, loc, resolve)
      BY <1>1, AddressGiven
    <2> HIDE DEF u
    <2>1. /\ Shaped(u) /\ DOMAIN u.table = DOMAIN s.table /\ SameLayout(s, u)
          /\ u.locals = s.locals /\ u.pending = s.pending /\ u.ring = s.ring
          /\ \A m \in DOMAIN s.table : m # n => u.table[m] = s.table[m]
          /\ u.table[n].global = l.global /\ u.table[n].gp = l.gp
          /\ ~l.gp => u.table[n].addr = loc
          /\ resolve => u.table[n].uses = <<>>
      BY <2>0 DEF Given
    <2>2. Patched(u, ToSet(u.pending) \cup X)
      <3> DEFINE Q == ToSet(s.pending)
      <3>1. \A m \in DOMAIN s.table : s.table[m].addr # 0 /\ ~s.table[m].gp /\ m \notin Q => s.table[m].uses = <<>>
        BY <1>1 DEF Good, Patched
      <3>2. ToSet(u.pending) = Q
        BY <2>1
      <3> HIDE DEF Q
      <3>3. n \notin X => u.table[n].uses = <<>>
        BY <2>1 DEF X
      <3>4. ASSUME NEW m \in DOMAIN u.table, m # n, m \notin Q, u.table[m].addr # 0, ~u.table[m].gp
            PROVE  u.table[m].uses = <<>>
        BY <2>1, <3>1, <3>4
      <3> QED
        BY <3>2, <3>3, <3>4 DEF Patched
    <2>3. t = IF l.global THEN u ELSE PushLocal(u, n)
      BY <1>2, <1>6
    <2>4. CASE l.global
      <3>1. Listed(u) /\ Behind(u, D1, Z1) /\ (u.ring => W1 # {})
        BY <1>1, <1>3, <1>4, <2>1, <2>4 DEF Good, Listed, Behind
      <3>2. Nearly(u, D1, Z1, W1, X)
        BY <2>1, <2>2, <3>1 DEF Nearly
      <3> QED
        BY <1>1, <2>1, <2>3, <2>4, <3>2 DEF SameLayout, D1, Z1, W1, X, t
    <2>5. CASE ~l.global /\ n \in ToSet(s.locals)
      <3>1. t = [u EXCEPT !.ring = TRUE]
        BY <2>1, <2>3, <2>5 DEF PushLocal
      <3>2. /\ DOMAIN t = Fields /\ t.table = u.table /\ t.locals = u.locals
            /\ t.pending = u.pending /\ t.ring = TRUE /\ SameLayout(u, t)
        BY <2>1, <3>1 DEF Shaped, Fields, SameLayout
      <3>3. n \in Z /\ W1 # {}
        BY <1>1, <1>6, <2>5 DEF Good, Behind, W1
      <3>4. Shaped(t)
        BY <2>1, <3>2 DEF Shaped, SameLayout, Laid
      <3>5. Listed(t) /\ Behind(t, D1, Z1)
        BY <1>1, <1>3, <1>4, <2>1, <2>5, <3>2, <3>3 DEF Good, Listed, Behind
      <3>6. Nearly(t, D1, Z1, W1, X)
        BY <2>2, <3>2, <3>3, <3>4, <3>5 DEF Nearly, Patched
      <3> QED
        BY <1>1, <2>1, <2>5, <3>2, <3>6 DEF SameLayout, D1, Z1, W1, X, t
    <2>6. CASE ~l.global /\ n \notin ToSet(s.locals)
      <3>1. t = [u EXCEPT !.locals = <<n>> \o @]
        BY <2>1, <2>3, <2>6 DEF PushLocal
      <3>2. /\ DOMAIN t = Fields /\ t.table = u.table /\ t.locals = <<n>> \o u.locals
            /\ t.pending = u.pending /\ t.ring = u.ring /\ SameLayout(u, t)
        BY <2>1, <3>1 DEF Shaped, Fields, SameLayout
      <3>3. t.locals \in Seq(DOMAIN u.table) /\ ToSet(t.locals) = {n} \cup ToSet(u.locals)
        <4>1. u.locals \in Seq(DOMAIN u.table) /\ n \in DOMAIN u.table
          BY <1>1, <2>1 DEF Shaped
        <4> DEFINE q == u.locals
                   S == DOMAIN u.table
        <4> HIDE DEF q, S
        <4>2. q \in Seq(S) /\ n \in S
          BY <4>1 DEF q, S
        <4>3. <<n>> \o q \in Seq(S) /\ ToSet(<<n>> \o q) = {n} \cup ToSet(q)
          BY <4>2, ToSetCons
        <4> QED
          BY <3>2, <4>3 DEF q, S
      <3>4. ~l.gp
        BY <1>1, <2>6 DEF Good, Listed
      <3>5. u.table[n].addr # 0 \/ n \in Z1
        BY <2>1, <3>4 DEF Z1
      <3>6. Shaped(t)
        BY <2>1, <3>2, <3>3 DEF Shaped, SameLayout, Laid
      <3>7. Listed(t)
        BY <1>1, <2>1, <3>2, <3>3 DEF Good, Listed
      <3>8. Behind(t, D1, Z1)
        BY <1>1, <1>3, <1>4, <2>1, <3>2, <3>3, <3>4, <3>5 DEF Good, Behind
      <3>9. Nearly(t, D1, Z1, W1, X)
        BY <1>1, <1>3, <2>1, <2>2, <3>2, <3>6, <3>7, <3>8 DEF Good, Nearly, Patched
      <3> QED
        BY <1>1, <2>1, <3>2, <3>3, <3>9 DEF SameLayout, D1, Z1, W1, X, t
    <2> QED
      BY <2>4, <2>5, <2>6
  <1> QED
    BY <1>4, <1>5, <1>6 DEF Labels

\* A name is made global: nothing more is known of it, but that the flush keeps it.
LEMMA MakeGlobalGood ==
  ASSUME NEW s, NEW D, NEW Z, NEW W, Good(s, D, Z, W), NEW n
  PROVE  LET t == MakeGlobal(s, n)
         IN  /\ Good(t, D, Z, W) /\ SameLayout(s, t) /\ t.pending = s.pending /\ t.locals = s.locals
             /\ n \in DOMAIN t.table /\ t.table[n].global
  <1> DEFINE u == Lookup(s, n)
             t == MakeGlobal(s, n)
  <1>1. /\ Good(u, D, Z, W) /\ SameLayout(s, u) /\ n \in DOMAIN u.table
        /\ u.pending = s.pending /\ u.locals = s.locals
    BY LookupGood
  <1>2. t = [u EXCEPT !.table[n].global = TRUE]
    BY DEF MakeGlobal
  <1> HIDE DEF u, t
  <1>3. Shaped(u) /\ DOMAIN u = Fields
    BY <1>1 DEF Good, Shaped
  <1>4. /\ DOMAIN t = Fields /\ t.table = [u.table EXCEPT ![n].global = TRUE]
        /\ t.locals = u.locals /\ t.ring = u.ring /\ t.pending = u.pending /\ SameLayout(u, t)
    BY <1>2, <1>3 DEF Fields, SameLayout
  <1>5. /\ DOMAIN t.table = DOMAIN u.table /\ t.table \in [DOMAIN t.table -> Labels]
        /\ \A m \in DOMAIN u.table : m # n => t.table[m] = u.table[m]
        /\ t.table[n].addr = u.table[n].addr /\ t.table[n].gp = u.table[n].gp
        /\ t.table[n].uses = u.table[n].uses /\ t.table[n].global
    BY <1>1, <1>3, <1>4 DEF Shaped, Labels
  <1>6. Shaped(t)
    BY <1>3, <1>4, <1>5 DEF Shaped, SameLayout, Laid
  <1>7. ToSet(u.locals) \subseteq DOMAIN u.table
    BY <1>3, ToSetIn DEF Shaped
  <1>8. Good(t, D, Z, W)
    BY <1>1, <1>4, <1>5, <1>6, <1>7 DEF Good, Listed, Patched, Behind
  <1> QED
    BY <1>1, <1>4, <1>5, <1>8 DEF SameLayout, t

-----------------------------------------------------------------------------
(* Where things go *)

LEMMA Places ==
  ASSUME NEW s, Laid(s)
  PROVE  /\ DataSeg(s) \in Segments /\ TextSeg(s) \in Segments
         /\ DataPc(s) \in Nat \ {0} /\ TextPc(s) \in Nat \ {0} /\ Here(s) \in Nat \ {0}
  BY DEF Laid, DataSeg, TextSeg, DataPc, TextPc, Here, Segments

LEMMA GoodPlaces ==
  ASSUME NEW s, NEW D, NEW Z, NEW W, Good(s, D, Z, W)
  PROVE  /\ DOMAIN s = Fields /\ Laid(s) /\ s.pc \in [Segments -> Nat \ {0}]
         /\ DataSeg(s) \in Segments /\ TextSeg(s) \in Segments
         /\ DataPc(s) \in Nat \ {0} /\ TextPc(s) \in Nat \ {0} /\ Here(s) \in Nat \ {0}
  BY Places DEF Good, Shaped, Laid

LEMMA RoundUpIn ==
  ASSUME NEW loc \in Nat \ {0}, NEW k \in 0 .. 30
  PROVE  RoundUp(loc, k) \in Nat \ {0}
  <1> DEFINE p == 2^k
             d == (loc + p - 1) \div p
  <1>1. p \in Nat \ {0}
    BY AssemblerAssumption
  <1> HIDE DEF p
  <1>2. d \in Nat /\ d >= 1
    BY <1>1
  <1> HIDE DEF d
  <1>3. d * p \in Nat /\ d * p # 0
    BY <1>1, <1>2
  <1> QED
    BY <1>3 DEF RoundUp, d, p

\* At most memory, text and the place in a segment change.
LEMMA PlaceMoves ==
  ASSUME NEW s, NEW D, NEW Z, NEW W, Good(s, D, Z, W), NEW t,
         DOMAIN t = Fields, t.table = s.table, t.locals = s.locals, t.ring = s.ring, t.pending = s.pending,
         t.dir = s.dir, t.kernel = s.kernel, t.auto = s.auto, t.next_gp = s.next_gp,
         NEW seg \in Segments, NEW loc \in Nat \ {0}, t.pc = [s.pc EXCEPT ![seg] = loc]
  PROVE  Good(t, D, Z, W)
  <1>1. Laid(t)
    BY GoodPlaces DEF Good, Shaped, Laid
  <1> QED
    BY <1>1, GoodKept DEF SameLabels

LEMMA IncrementGood ==
  ASSUME NEW s, NEW D, NEW Z, NEW W, Good(s, D, Z, W), NEW d \in Nat
  PROVE  Good(IncrementDataPc(s, d), D, Z, W)
  <1> DEFINE t == IncrementDataPc(s, d)
             loc == s.pc[DataSeg(s)] + d
  <1>1. DOMAIN s = Fields /\ s.pc \in [Segments -> Nat \ {0}] /\ DataSeg(s) \in Segments /\ loc \in Nat \ {0}
    BY GoodPlaces
  <1>2. /\ DOMAIN t = Fields /\ t.table = s.table /\ t.locals = s.locals /\ t.ring = s.ring
        /\ t.pending = s.pending /\ t.dir = s.dir /\ t.kernel = s.kernel /\ t.auto = s.auto
        /\ t.next_gp = s.next_gp /\ t.pc = [s.pc EXCEPT ![DataSeg(s)] = loc]
    BY <1>1 DEF IncrementDataPc, Fields
  <1> HIDE DEF t, loc
  <1>3. Good(t, D, Z, W)
    BY <1>1, <1>2, PlaceMoves
  <1> QED
    BY <1>3 DEF t

LEMMA BytesGood ==
  ASSUME NEW s, NEW D, NEW Z, NEW W, Good(s, D, Z, W), NEW m, NEW size \in Nat
  PROVE  Good(IncrementDataPc([s EXCEPT !.mem = m], size), D, Z, W)
  <1> DEFINE u == [s EXCEPT !.mem = m]
  <1>1. DOMAIN s = Fields /\ Laid(s)
    BY GoodPlaces
  <1>2. SameLabels(s, u) /\ SameLayout(s, u)
    BY <1>1 DEF SameLabels, SameLayout, Fields
  <1> HIDE DEF u
  <1>3. Laid(u)
    BY <1>1, <1>2 DEF Laid, SameLayout
  <1>4. Good(u, D, Z, W)
    BY <1>2, <1>3, GoodKept
  <1>5. Good(IncrementDataPc(u, size), D, Z, W)
    BY <1>4, IncrementGood
  <1> QED
    BY <1>5 DEF u

LEMMA StoreGood ==
  ASSUME NEW s, NEW D, NEW Z, NEW W, Good(s, D, Z, W), NEW v, NEW size \in Nat
  PROVE  Good(Store(s, v, size), D, Z, W) /\ Good(StoreZeros(s, size), D, Z, W)
  BY BytesGood DEF Store, StoreZeros

\* align_data
LEMMA AlignDataGood ==
  ASSUME NEW s, NEW D, NEW Z, NEW W, Good(s, D, Z, W), NEW k \in 0 .. 30
  PROVE  /\ Good(AlignData(s, k), D, Z, W)
         /\ AlignData(s, k).dir = s.dir /\ AlignData(s, k).kernel = s.kernel
         /\ AlignData(s, k).next_gp = s.next_gp
  <1>1. DOMAIN s = Fields /\ Laid(s) /\ DataSeg(s) \in Segments
    BY GoodPlaces
  <1>2. CASE k = 0
    <2> DEFINE t == [s EXCEPT !.auto = FALSE]
    <2>1. AlignData(s, k) = t
      BY <1>2 DEF AlignData
    <2>2. SameLabels(s, t) /\ Laid(t) /\ t.dir = s.dir /\ t.kernel = s.kernel /\ t.next_gp = s.next_gp
      BY <1>1 DEF SameLabels, Laid, Fields
    <2>3. Good(t, D, Z, W)
      BY <2>2, GoodKept
    <2> QED
      BY <2>1, <2>2, <2>3
  <1>3. CASE k # 0
    <2> DEFINE loc == RoundUp(DataPc(s), k)
               u == [s EXCEPT !.pc[DataSeg(s)] = loc]
               t == MoveLabels(u, loc)
    <2>1. AlignData(s, k) = t
      BY <1>3 DEF AlignData
    <2>2. loc \in Nat \ {0}
      BY GoodPlaces, RoundUpIn
    <2> HIDE DEF loc
    <2>3. /\ DOMAIN u = Fields /\ u.table = s.table /\ u.locals = s.locals /\ u.ring = s.ring
          /\ u.pending = s.pending /\ u.dir = s.dir /\ u.kernel = s.kernel /\ u.auto = s.auto
          /\ u.next_gp = s.next_gp /\ u.pc = [s.pc EXCEPT ![DataSeg(s)] = loc]
      BY <1>1 DEF Fields
    <2> HIDE DEF u
    <2>4. Good(u, D, Z, W)
      BY <1>1, <2>2, <2>3, PlaceMoves
    <2>5. Good(t, D, Z, W) /\ SameLayout(u, t)
      BY <2>2, <2>4, MoveLabelsGood
    <2> QED
      BY <2>1, <2>3, <2>5 DEF SameLayout
  <1> QED
    BY <1>2, <1>3

LEMMA SetDataAlignmentGood ==
  ASSUME NEW s, NEW D, NEW Z, NEW W, Good(s, D, Z, W), NEW k \in 0 .. 30
  PROVE  Good(SetDataAlignment(s, k), D, Z, W)
  BY AlignDataGood DEF SetDataAlignment

LEMMA ExprGood ==
  ASSUME NEW s, NEW D, NEW Z, NEW W, Good(s, D, Z, W), NEW st
  PROVE  Good(Expr(s, st), D, Z, W) /\ SameLayout(s, Expr(s, st))
  <1>1. DataUse(DataPc(s)) \in Uses
    BY GoodPlaces DEF DataUse, Uses
  <1>2. CASE st.sym = NoName \/ IsDefined(s, st.sym)
    BY <1>2 DEF Expr, SameLayout
  <1>3. CASE ~(st.sym = NoName \/ IsDefined(s, st.sym))
    BY <1>1, <1>3, RecordUseGood DEF Expr
  <1> QED
    BY <1>2, <1>3

LEMMA ValueIn ==
  ASSUME NEW s, NEW D, NEW Z, NEW W, Good(s, D, Z, W), NEW st, st.n \in Nat
  PROVE  Value(s, st) \in Nat /\ (Value(s, st) = 0 => st.n = 0)
  <1>1. Address(s, st.sym) \in Nat
    BY DEF Address, IsDefined, Good, Shaped, Labels
  <1> QED
    BY <1>1 DEF Value

LEMMA NotInTextGood ==
  ASSUME NEW s, NEW D, NEW Z, NEW W, Good(s, D, Z, W), NEW st
  PROVE  Good(NotInText(s, st), D, Z, W)
  BY YyErrorGood DEF NotInText

-----------------------------------------------------------------------------
(* Instructions leave the labels good, with or without a use of a name *)

LEMMA EmitGood ==
  ASSUME NEW s, NEW D, NEW Z, NEW W, Good(s, D, Z, W), NEW i
  PROVE  Good(Emit(s, i), D, Z, W)
  <1> DEFINE text == PutInst(s.text, TextPc(s), i)
             loc == s.pc[TextSeg(s)] + 4
             t == [s EXCEPT !.text = text, !.pc[TextSeg(s)] = loc]
  <1>1. DOMAIN s = Fields /\ s.pc \in [Segments -> Nat \ {0}] /\ TextSeg(s) \in Segments
        /\ loc \in Nat \ {0}
    BY GoodPlaces
  <1>2. Emit(s, i) = s \/ Emit(s, i) = t
    BY <1>1 DEF Emit, Fields
  <1> HIDE DEF text, loc
  <1>3. /\ DOMAIN t = Fields /\ t.table = s.table /\ t.locals = s.locals /\ t.ring = s.ring
        /\ t.pending = s.pending /\ t.dir = s.dir /\ t.kernel = s.kernel /\ t.auto = s.auto
        /\ t.next_gp = s.next_gp /\ t.pc = [s.pc EXCEPT ![TextSeg(s)] = loc]
    BY <1>1 DEF Fields
  <1> HIDE DEF t
  <1>4. Good(t, D, Z, W)
    BY <1>1, <1>3, PlaceMoves
  <1> QED
    BY <1>2, <1>4

LEMMA ResolveInstGood ==
  ASSUME NEW s, NEW D, NEW Z, NEW W, Good(s, D, Z, W), NEW pc
  PROVE  Good(ResolveInst(s, pc), D, Z, W)
  <1> DEFINE t == ResolveUse(s, NoName, InstUse(pc))
  <1>1. DOMAIN s = Fields /\ Laid(s)
    BY GoodPlaces
  <1>2. ResolveInst(s, pc) = t
    BY DEF ResolveUse, InstUse
  <1>3. SameLabels(s, t) /\ SameLayout(s, t)
    BY <1>1, ResolveUseEffect
  <1> HIDE DEF t
  <1>4. Laid(t)
    BY <1>1, <1>3 DEF Laid, SameLayout
  <1> QED
    BY <1>2, <1>3, <1>4, GoodKept

LEMMA EmitImmGood ==
  ASSUME NEW s, NEW D, NEW Z, NEW W, Good(s, D, Z, W), NEW i
  PROVE  Good(EmitImm(s, i), D, Z, W)
  <1>1. CASE i.sym = NoName \/ IsDefined(s, i.sym)
    BY <1>1, EmitGood, ResolveInstGood DEF EmitImm
  <1>2. CASE ~(i.sym = NoName \/ IsDefined(s, i.sym))
    <2>1. InstUse(TextPc(s)) \in Uses
      BY GoodPlaces DEF InstUse, Uses
    <2>2. Good(RecordUse(s, i.sym, InstUse(TextPc(s))), D, Z, W)
      BY <1>2, <2>1, RecordUseGood
    <2> QED
      BY <1>2, <2>2, EmitGood DEF EmitImm
  <1> QED
    BY <1>1, <1>2

LEMMA LoadWideGood ==
  ASSUME NEW s, NEW D, NEW Z, NEW W, Good(s, D, Z, W), NEW st, NEW upper, NEW lower
  PROVE  Good(LoadWide(s, st, upper, lower), D, Z, W)
  <1>1. Good(EmitImm(s, upper), D, Z, W)
    BY EmitImmGood
  <1>2. Good(Index(EmitImm(s, upper), st), D, Z, W)
    BY <1>1, EmitGood DEF Index
  <1> QED
    BY <1>2, EmitImmGood DEF LoadWide

LEMMA InstructionsGood ==
  ASSUME NEW s, NEW D, NEW Z, NEW W, Good(s, D, Z, W), NEW st
  PROVE  /\ Good(Branch(s, st), D, Z, W) /\ Good(Jump(s, st), D, Z, W)
         /\ Good(Load(s, st), D, Z, W) /\ Good(LoadAddress(s, st), D, Z, W)
  <1>1. Good(Branch(s, st), D, Z, W)
    BY EmitImmGood DEF Branch
  <1>2. Good(Jump(s, st), D, Z, W)
    BY EmitImmGood DEF Jump
  <1>3. Good(Load(s, st), D, Z, W)
    <2> DEFINE offset == GpOffset(s, st)
    <2>1. \A v : Good(LoadValue(s, st, v), D, Z, W)
      BY LoadWideGood DEF LoadValue
    <2>2. \A i : Good(EmitImm(s, i), D, Z, W)
      BY EmitImmGood
    <2>3. Good(LoadWide(s, st, Inst("lui", st.sym, st.n, 1), Inst("load", st.sym, st.n, -1)), D, Z, W)
      BY LoadWideGood
    <2> QED
      BY Zenon, <2>1, <2>2, <2>3 DEF Load
  <1>4. \A sym, n, known, v : Good(ProduceImmediate(s, sym, n, known, v), D, Z, W)
    <2> TAKE sym, n, known, v
    <2> DEFINE upper == EmitImm(s, Inst("lui", sym, n, 1))
               lower == Inst("ori", sym, n, -1)
    <2>1. Good(upper, D, Z, W) /\ Good(EmitImm(s, lower), D, Z, W)
      BY EmitImmGood
    <2>2. Good(EmitImm(upper, lower), D, Z, W)
      BY <2>1, EmitImmGood
    <2> QED
      BY Zenon, <2>1, <2>2 DEF ProduceImmediate
  <1>5. Good(LoadAddress(s, st), D, Z, W)
    <2> DEFINE offset == GpOffset(s, st)
               far == Emit(ProduceImmediate(s, NoName, offset, TRUE, offset),
                           FromGp(Inst("add", NoName, 0, 0)))
    <2>1. \A i : Good(EmitImm(s, i), D, Z, W)
      BY EmitImmGood
    <2>2. Good(far, D, Z, W)
      BY <1>4, EmitGood
    <2> QED
      BY Zenon, <1>4, <2>1, <2>2 DEF LoadAddress
  <1> QED
    BY <1>1, <1>2, <1>3, <1>5

-----------------------------------------------------------------------------
(* Directives.  A statement st adds Adds(st) to the names that are defined,  *)
(* and Again(st) to those that the file can define again without an error.   *)

Named(st) == IF st.op = "assign" THEN st.of ELSE st.sym
Adds(st) == IF st.op \in DefOps THEN {Named(st)} ELSE {}
DefinesAgain(st) ==
  \/ st.op = "lcomm" /\ st.n \in 1 .. SmallDataSegMaxSize
  \/ st.op = "assign" /\ st.n = 0
Again(st) == IF DefinesAgain(st) THEN {Named(st)} ELSE {}

\* The labels after st.
GoodAfter(t, D, Z, W, st) == Good(t, D \cup Adds(st), Z \cup Again(st), W \cup (Adds(st) \cap Z))

LEMMA StillGood ==
  ASSUME NEW t, NEW D, NEW Z, NEW W, NEW st, Good(t, D, Z, W)
  PROVE  GoodAfter(t, D, Z, W, st)
  BY GoodGrows DEF GoodAfter

LEMMA WordGood ==
  ASSUME NEW s, NEW D, NEW Z, NEW W, Good(s, D, Z, W), NEW st
  PROVE  Good(Word(s, st), D, Z, W)
  <1> DEFINE t == IF s.dir = "data" THEN SetDataAlignment(s, 2) ELSE s
             v == Value(t, st)
  <1>1. Good(t, D, Z, W)
    BY SetDataAlignmentGood
  <1> HIDE DEF t
  <1>2. Good(Expr(t, st), D, Z, W)
    BY <1>1, ExprGood
  <1>3. Good(Store(Expr(t, st), v, 4), D, Z, W)
    BY <1>2, StoreGood
  <1>4. Good(Emit(Expr(t, st), [Inst("word", NoName, v, 0) EXCEPT !.imm = v]), D, Z, W)
    BY <1>2, EmitGood
  <1> QED
    BY Zenon, <1>3, <1>4 DEF Word, t

LEMMA HalfGood ==
  ASSUME NEW s, NEW D, NEW Z, NEW W, Good(s, D, Z, W), NEW st
  PROVE  Good(Half(s, st), D, Z, W)
  <1> DEFINE t == IF s.dir = "data" THEN SetDataAlignment(s, 1) ELSE s
  <1>1. Good(t, D, Z, W)
    BY SetDataAlignmentGood
  <1> HIDE DEF t
  <1>2. Good(Store(Expr(t, st), Value(t, st), 2), D, Z, W)
    BY <1>1, ExprGood, StoreGood
  <1> QED
    BY <1>2, NotInTextGood DEF Half, t

LEMMA ByteGood ==
  ASSUME NEW s, NEW D, NEW Z, NEW W, Good(s, D, Z, W), NEW st
  PROVE  Good(Byte(s, st), D, Z, W)
  <1>1. Good(Store(Expr(s, st), Value(s, st), 1), D, Z, W)
    BY ExprGood, StoreGood
  <1> QED
    BY <1>1, NotInTextGood DEF Byte

LEMMA SpaceGood ==
  ASSUME NEW s, NEW D, NEW Z, NEW W, Good(s, D, Z, W), NEW st, st.n \in Nat
  PROVE  Good(Space(s, st), D, Z, W)
  <1>1. CASE s.dir = "data"
    BY <1>1, IncrementGood DEF Space
  <1>2. CASE s.dir # "data"
    <2> DEFINE loc == s.pc[TextSeg(s)] + st.n
               t == [s EXCEPT !.pc[TextSeg(s)] = loc]
    <2>1. DOMAIN s = Fields /\ s.pc \in [Segments -> Nat \ {0}] /\ TextSeg(s) \in Segments
          /\ loc \in Nat \ {0}
      BY GoodPlaces
    <2>2. Space(s, st) = t
      BY <1>2, <2>1 DEF Space, Fields
    <2> HIDE DEF loc
    <2>3. /\ DOMAIN t = Fields /\ t.table = s.table /\ t.locals = s.locals /\ t.ring = s.ring
          /\ t.pending = s.pending /\ t.dir = s.dir /\ t.kernel = s.kernel /\ t.auto = s.auto
          /\ t.next_gp = s.next_gp /\ t.pc = [s.pc EXCEPT ![TextSeg(s)] = loc]
      BY <2>1 DEF Fields
    <2> HIDE DEF t
    <2> QED
      BY <2>1, <2>2, <2>3, PlaceMoves
  <1> QED
    BY <1>1, <1>2

LEMMA SegmentGood ==
  ASSUME NEW s, NEW D, NEW Z, NEW W, Good(s, D, Z, W), NEW st, st.n \in Nat, st.sym \in Segments
  PROVE  Good(Segment(s, st), D, Z, W)
  <1> DEFINE t == [s EXCEPT !.kernel = st.sym \in {"kdata", "ktext"},
                            !.dir = IF st.sym \in {"data", "kdata"} THEN "data" ELSE "text",
                            !.auto = TRUE]
             u == [t EXCEPT !.pc[st.sym] = st.n]
  <1>1. DOMAIN s = Fields /\ Laid(s)
    BY GoodPlaces
  <1>2. DOMAIN t = Fields /\ SameLabels(s, t) /\ Laid(t)
    BY <1>1 DEF SameLabels, Laid, Fields
  <1> HIDE DEF t
  <1>3. Good(t, D, Z, W)
    BY <1>2, GoodKept
  <1>4. CASE st.n = 0
    BY <1>3, <1>4 DEF Segment, t
  <1>5. CASE st.n # 0
    <2>1. /\ DOMAIN u = Fields /\ u.table = t.table /\ u.locals = t.locals /\ u.ring = t.ring
          /\ u.pending = t.pending /\ u.dir = t.dir /\ u.kernel = t.kernel /\ u.auto = t.auto
          /\ u.next_gp = t.next_gp /\ u.pc = [t.pc EXCEPT ![st.sym] = st.n]
      BY <1>2 DEF Fields
    <2>2. Segment(s, st) = u
      BY <1>5 DEF Segment, t
    <2> HIDE DEF u
    <2> QED
      BY <1>3, <1>5, <2>1, <2>2, PlaceMoves
  <1> QED
    BY <1>4, <1>5

\* Off gp, a name is one that the file can define again, if it is not global.
LEMMA OffGp ==
  ASSUME NEW s, NEW D, NEW Z, NEW W, Good(s, D, Z, W), NEW n \in DOMAIN s.table,
         s.table[n].global \/ (n \in Z /\ n \in ToSet(s.locals)),
         NEW addr \in Nat, NEW next_gp \in GpBot .. GpEnd - 1, NEW t,
         DOMAIN t = Fields, t.locals = s.locals, t.ring = s.ring, t.pending = s.pending,
         t.dir = s.dir, t.kernel = s.kernel, t.auto = s.auto, t.pc = s.pc, t.next_gp = next_gp,
         t.table = [s.table EXCEPT ![n] = [s.table[n] EXCEPT !.gp = TRUE, !.addr = addr]]
  PROVE  Good(t, D, Z, W)
  <1>1. Shaped(s) /\ s.table[n] \in Labels /\ ToSet(s.locals) \subseteq DOMAIN s.table
    BY ToSetIn DEF Good, Shaped
  <1>2. /\ DOMAIN t.table = DOMAIN s.table /\ t.table \in [DOMAIN t.table -> Labels]
        /\ \A m \in DOMAIN s.table : m # n => t.table[m] = s.table[m]
        /\ t.table[n].gp /\ t.table[n].global = s.table[n].global
    <2>1. DOMAIN t.table = DOMAIN s.table /\ \A m \in DOMAIN s.table : m # n => t.table[m] = s.table[m]
      OBVIOUS
    <2>2. t.table[n] = [s.table[n] EXCEPT !.gp = TRUE, !.addr = addr]
      OBVIOUS
    <2>3. t.table[n] \in Labels /\ t.table[n].gp /\ t.table[n].global = s.table[n].global
      BY <1>1, <2>2 DEF Labels
    <2>4. t.table \in [DOMAIN s.table -> Labels]
      BY <1>1, <2>3 DEF Shaped
    <2> QED
      BY <2>1, <2>3, <2>4
  <1>3. Shaped(t)
    BY <1>1, <1>2 DEF Shaped, Laid
  <1>4. Listed(t) /\ Patched(t, ToSet(t.pending))
    <2> DEFINE Q == ToSet(s.pending)
               V == ToSet(s.locals)
    <2>1. ToSet(t.pending) = Q /\ ToSet(t.locals) = V
      OBVIOUS
    <2>2. Listed(s) /\ Patched(s, Q)
      BY DEF Good
    <2>3. \A m \in DOMAIN s.table : s.table[m].addr # 0 \/ s.table[m].gp \/ m \in Q => s.table[m].global \/ m \in V
      BY <2>2 DEF Listed
    <2> HIDE DEF Q, V
    <2>4. Patched(t, Q)
      BY <1>2, <2>2 DEF Patched
    <2>5. Listed(t)
      BY <1>2, <2>1, <2>3 DEF Listed
    <2> QED
      BY <2>1, <2>4, <2>5
  <1>5. Behind(t, D, Z) /\ (t.ring => W # {})
    BY <1>1, <1>2 DEF Good, Behind
  <1> QED
    BY <1>3, <1>4, <1>5 DEF Good

LEMMA ExternGood ==
  ASSUME NEW s0, NEW D, NEW Z, NEW W, Good(s0, D, Z, W), NEW st, st.n \in Nat
  PROVE  Good(Extern(s0, st), D, Z, W)
  <1> DEFINE s == MakeGlobal(s0, st.sym)
             n == st.sym
             t == [s EXCEPT !.table[st.sym].gp = TRUE, !.table[st.sym].addr = s.next_gp,
                            !.next_gp = @ + st.n]
  <1>1. Good(s, D, Z, W) /\ n \in DOMAIN s.table /\ s.table[n].global
    BY MakeGlobalGood
  <1>2. Extern(s0, st) = IF s.table[n].gp \/ ~FitsGp(s, st.n) THEN s ELSE t
    BY Zenon DEF Extern
  <1> HIDE DEF s
  <1>3. CASE s.table[n].gp \/ ~FitsGp(s, st.n)
    BY <1>1, <1>2, <1>3
  <1>4. CASE ~(s.table[n].gp \/ ~FitsGp(s, st.n))
    <2>1. DOMAIN s = Fields /\ s.next_gp \in GpBot .. GpEnd - 1
      BY <1>1 DEF Good, Shaped, Laid
    <2>2. s.next_gp \in Nat /\ s.next_gp + st.n \in GpBot .. GpEnd - 1
      BY <1>4, <2>1, AssemblerAssumption DEF FitsGp
    <2>3. s.table[n] \in Labels
      BY <1>1 DEF Good, Shaped
    <2>4. /\ DOMAIN t = Fields /\ t.locals = s.locals /\ t.ring = s.ring /\ t.pending = s.pending
          /\ t.dir = s.dir /\ t.kernel = s.kernel /\ t.auto = s.auto /\ t.pc = s.pc
          /\ t.next_gp = s.next_gp + st.n
          /\ t.table = [s.table EXCEPT ![n] = [s.table[n] EXCEPT !.gp = TRUE, !.addr = s.next_gp]]
      BY <1>1, <2>1, <2>3 DEF Fields
    <2> HIDE DEF t
    <2>5. Good(t, D, Z, W)
      BY <1>1, <2>2, <2>4, OffGp
    <2> QED
      BY <1>2, <1>4, <2>5
  <1> QED
    BY <1>3, <1>4

LEMMA LCommGood ==
  ASSUME NEW s, NEW D, NEW Z, NEW W, Good(s, D, Z, W), NEW st, st.n \in Nat, st.op = "lcomm"
  PROVE  GoodAfter(LComm(s, st), D, Z, W, st)
  <1> DEFINE n == st.sym
             D1 == D \cup Adds(st)
             Z1 == Z \cup Again(st)
             W1 == W \cup (Adds(st) \cap Z)
             u(loc) == RecordLabel(s, n, loc, TRUE)
             t == [u(s.next_gp) EXCEPT !.table[st.sym].gp = TRUE, !.next_gp = @ + st.n]
  <1>1. Adds(st) = {n}
    BY DEF Adds, Named, DefOps
  <1>2. Laid(s) /\ s.next_gp \in Nat /\ s.pc["data"] \in Nat \ {0}
    BY GoodPlaces, AssemblerAssumption DEF Laid, Segments
  <1>3. ASSUME NEW loc \in Nat, loc # 0 \/ n \in Z1
        PROVE  /\ Good(u(loc), D1, Z1, W1) /\ SameLayout(s, u(loc)) /\ n \in DOMAIN u(loc).table
               /\ u(loc).table[n].global \/ n \in ToSet(u(loc).locals)
    <2>1. /\ Nearly(u(loc), D \cup {n}, IF loc = 0 THEN Z \cup {n} ELSE Z, W \cup ({n} \cap Z), {})
          /\ SameLayout(s, u(loc)) /\ n \in DOMAIN u(loc).table
          /\ u(loc).table[n].global \/ n \in ToSet(u(loc).locals)
      BY RecordLabelGood
    <2> HIDE DEF u
    <2>2. Good(u(loc), D1, IF loc = 0 THEN Z \cup {n} ELSE Z, W1)
      BY <1>1, <2>1, GoodIsNearly
    <2>3. (IF loc = 0 THEN Z \cup {n} ELSE Z) \subseteq Z1
      BY <1>3
    <2> QED
      BY <2>1, <2>2, <2>3, GoodGrows
  <1>4. LComm(s, st) = IF FitsGp(s, st.n) THEN t ELSE StoreZeros(u(s.pc["data"]), st.n)
    BY Zenon DEF LComm
  <1>5. CASE FitsGp(s, st.n)
    <2>1. n \in Again(st) /\ s.next_gp + st.n \in GpBot .. GpEnd - 1
      BY <1>2, <1>5, AssemblerAssumption DEF Again, DefinesAgain, Named, FitsGp, Laid, SmallDataSegMaxSize
    <2> DEFINE v == u(s.next_gp)
    <2>2. n \in Z1
      BY <2>1
    <2>3. /\ Good(v, D1, Z1, W1) /\ SameLayout(s, v) /\ n \in DOMAIN v.table
          /\ v.table[n].global \/ n \in ToSet(v.locals)
      BY <1>2, <1>3, <2>2
    <2> HIDE DEF v, u, D1, W1, Z1
    <2>4. DOMAIN v = Fields /\ v.table[n] \in Labels /\ v.next_gp = s.next_gp
      BY <2>3 DEF Good, Shaped, SameLayout
    <2>5. v.table[n].addr \in Nat
      BY <2>4 DEF Labels
    <2>6. /\ DOMAIN t = Fields /\ t.locals = v.locals /\ t.ring = v.ring /\ t.pending = v.pending
          /\ t.dir = v.dir /\ t.kernel = v.kernel /\ t.auto = v.auto /\ t.pc = v.pc
          /\ t.next_gp = s.next_gp + st.n
      BY <2>3, <2>4 DEF Fields, v
    <2>7. [v.table[n] EXCEPT !.gp = TRUE] = [v.table[n] EXCEPT !.gp = TRUE, !.addr = v.table[n].addr]
      BY <2>4 DEF Labels
    <2>8. t.table = [v.table EXCEPT ![n] = [v.table[n] EXCEPT !.gp = TRUE]]
      BY <2>3, <2>4 DEF Fields, v
    <2> HIDE DEF t
    <2> DEFINE addr == v.table[n].addr
               next_gp == s.next_gp + st.n
    <2>9. t.table = [v.table EXCEPT ![n] = [v.table[n] EXCEPT !.gp = TRUE, !.addr = addr]]
      BY <2>7, <2>8
    <2>10. addr \in Nat /\ next_gp \in GpBot .. GpEnd - 1 /\ t.next_gp = next_gp
      BY <2>1, <2>5, <2>6
    <2>11. v.table[n].global \/ (n \in Z1 /\ n \in ToSet(v.locals))
      BY <2>2, <2>3
    <2> HIDE DEF addr, next_gp
    <2>12. Good(t, D1, Z1, W1)
      BY <2>3, <2>6, <2>9, <2>10, <2>11, OffGp
    <2> QED
      BY <1>4, <1>5, <2>12 DEF GoodAfter, D1, Z1, W1
  <1>6. CASE ~FitsGp(s, st.n)
    <2>1. Good(u(s.pc["data"]), D1, Z1, W1)
      BY <1>2, <1>3
    <2> HIDE DEF u, D1, W1, Z1
    <2>2. Good(StoreZeros(u(s.pc["data"]), st.n), D1, Z1, W1)
      BY <2>1, StoreGood
    <2> QED
      BY <1>4, <1>6, <2>2 DEF GoodAfter, D1, Z1, W1
  <1> QED
    BY <1>5, <1>6

\* A definition whose address is final, 0 only when st can be repeated without an error.
LEMMA DefinitionGood ==
  ASSUME NEW s, NEW D, NEW Z, NEW W, Good(s, D, Z, W), NEW st, st.op \in DefOps,
         NEW loc \in Nat, loc # 0 \/ DefinesAgain(st)
  PROVE  LET t == RecordLabel(s, Named(st), loc, TRUE)
         IN  GoodAfter(t, D, Z, W, st) /\ SameLayout(s, t) /\ Named(st) \in DOMAIN t.table
  <1> DEFINE n == Named(st)
             t == RecordLabel(s, n, loc, TRUE)
             Z1 == IF loc = 0 THEN Z \cup {n} ELSE Z
  <1>1. Nearly(t, D \cup {n}, Z1, W \cup ({n} \cap Z), {}) /\ SameLayout(s, t) /\ n \in DOMAIN t.table
    BY RecordLabelGood
  <1>2. Adds(st) = {n} /\ Z1 \subseteq Z \cup Again(st)
    BY DEF Adds, Again
  <1> HIDE DEF t, Z1, n
  <1>3. Good(t, D \cup {n}, Z1, W \cup ({n} \cap Z))
    BY <1>1, GoodIsNearly
  <1>4. GoodAfter(t, D, Z, W, st)
    BY <1>2, <1>3, GoodGrows DEF GoodAfter
  <1> QED
    BY <1>1, <1>4 DEF t, n

LEMMA LabelDirGood ==
  ASSUME NEW s, NEW D, NEW Z, NEW W, Good(s, D, Z, W), NEW st, st.op = "labeldir"
  PROVE  GoodAfter(LabelDir(s, st), D, Z, W, st)
  <1>1. st.op \in DefOps /\ Named(st) = st.sym
    BY DEF DefOps, Named
  <1>2. Here(s) \in Nat /\ Here(s) # 0
    BY GoodPlaces
  <1> QED
    BY <1>1, <1>2, DefinitionGood DEF LabelDir

LEMMA CommGood ==
  ASSUME NEW s, NEW D, NEW Z, NEW W, Good(s, D, Z, W), NEW st, st.op = "comm", st.n \in Nat
  PROVE  GoodAfter(Comm(s, st), D, Z, W, st)
  <1> DEFINE t == AlignData(s, 2)
             u == IF IsDefined(t, st.sym) THEN t ELSE RecordLabel(t, st.sym, DataPc(t), TRUE)
  <1>1. Good(t, D, Z, W)
    BY AlignDataGood
  <1> HIDE DEF t
  <1>2. st.op \in DefOps /\ Named(st) = st.sym
    BY DEF DefOps, Named
  <1>3. DataPc(t) \in Nat /\ DataPc(t) # 0
    BY <1>1, GoodPlaces
  <1>4. GoodAfter(RecordLabel(t, st.sym, DataPc(t), TRUE), D, Z, W, st)
    BY <1>1, <1>2, <1>3, DefinitionGood
  <1>5. GoodAfter(u, D, Z, W, st)
    BY <1>1, <1>4, StillGood
  <1> HIDE DEF u
  <1>6. GoodAfter(IncrementDataPc(u, st.n), D, Z, W, st)
    BY <1>5, IncrementGood DEF GoodAfter
  <1> QED
    BY <1>6 DEF Comm, t, u

LEMMA AssignGood ==
  ASSUME NEW s, NEW D, NEW Z, NEW W, Good(s, D, Z, W), NEW st, st.op = "assign", st.n \in Nat
  PROVE  GoodAfter(Assign(s, st), D, Z, W, st)
  <1> DEFINE t == RecordLabel(Expr(s, st), st.of, Value(s, st), TRUE)
             u == [t EXCEPT !.table[st.of].const = TRUE]
             n == st.of
  <1>1. st.op \in DefOps /\ Named(st) = st.of
    BY DEF DefOps, Named
  <1>2. Value(s, st) \in Nat /\ (Value(s, st) # 0 \/ DefinesAgain(st))
    BY ValueIn DEF DefinesAgain
  <1>3. Good(Expr(s, st), D, Z, W)
    BY ExprGood
  <1>4. GoodAfter(t, D, Z, W, st) /\ n \in DOMAIN t.table
    BY <1>1, <1>2, <1>3, DefinitionGood
  <1>5. Assign(s, st) = u
    BY DEF Assign
  <1> DEFINE D1 == D \cup Adds(st)
             Z1 == Z \cup Again(st)
             W1 == W \cup (Adds(st) \cap Z)
  <1> HIDE DEF t, D1, Z1, W1
  <1>6. Good(t, D1, Z1, W1)
    BY <1>4 DEF GoodAfter, D1, Z1, W1
  <1>7. Shaped(t) /\ DOMAIN t = Fields /\ t.table[n] \in Labels /\ ToSet(t.locals) \subseteq DOMAIN t.table
    BY <1>4, <1>6, ToSetIn DEF Good, Shaped
  <1>8. /\ DOMAIN u = Fields /\ u.locals = t.locals /\ u.ring = t.ring /\ u.pending = t.pending
        /\ u.table = [t.table EXCEPT ![n].const = TRUE] /\ SameLayout(t, u)
    BY <1>7 DEF Fields, SameLayout
  <1> HIDE DEF u
  <1>9. /\ DOMAIN u.table = DOMAIN t.table /\ u.table \in [DOMAIN u.table -> Labels]
        /\ \A m \in DOMAIN t.table : m # n => u.table[m] = t.table[m]
        /\ u.table[n].addr = t.table[n].addr /\ u.table[n].gp = t.table[n].gp
        /\ u.table[n].uses = t.table[n].uses /\ u.table[n].global = t.table[n].global
    <2>1. u.table[n] = [t.table[n] EXCEPT !.const = TRUE]
      BY <1>4, <1>8
    <2>2. u.table[n] \in Labels
      BY <1>7, <2>1 DEF Labels
    <2>3. /\ DOMAIN u.table = DOMAIN t.table
          /\ \A m \in DOMAIN t.table : m # n => u.table[m] = t.table[m]
      BY <1>4, <1>8
    <2>4. t.table \in [DOMAIN t.table -> Labels]
      BY <1>7 DEF Shaped
    <2>5. u.table \in [DOMAIN u.table -> Labels]
      BY <1>8, <2>2, <2>3, <2>4
    <2>6. /\ u.table[n].addr = t.table[n].addr /\ u.table[n].gp = t.table[n].gp
          /\ u.table[n].uses = t.table[n].uses /\ u.table[n].global = t.table[n].global
      BY <1>7, <2>1 DEF Labels
    <2> QED
      BY <2>3, <2>5, <2>6
  <1>10. Shaped(u)
    BY <1>7, <1>8, <1>9 DEF Shaped, SameLayout, Laid
  <1>11. ASSUME NEW m \in DOMAIN t.table
         PROVE  /\ u.table[m].addr = t.table[m].addr /\ u.table[m].gp = t.table[m].gp
                /\ u.table[m].uses = t.table[m].uses /\ u.table[m].global = t.table[m].global
    BY <1>9
  <1>12. Listed(u) /\ Patched(u, ToSet(u.pending))
    <2> DEFINE Q == ToSet(t.pending)
               V == ToSet(t.locals)
    <2>1. ToSet(u.pending) = Q /\ ToSet(u.locals) = V
      BY <1>8
    <2>2. Listed(t) /\ Patched(t, Q)
      BY <1>6 DEF Good
    <2>3. \A m \in DOMAIN t.table : t.table[m].addr # 0 \/ t.table[m].gp \/ m \in Q => t.table[m].global \/ m \in V
      BY <2>2 DEF Listed
    <2>4. DOMAIN u.table = DOMAIN t.table
      BY <1>9
    <2> HIDE DEF Q, V
    <2>5. Patched(u, Q)
      BY <1>11, <2>2, <2>4 DEF Patched
    <2>6. Listed(u)
      BY <1>11, <2>1, <2>3, <2>4 DEF Listed
    <2> QED
      BY <2>1, <2>5, <2>6
  <1>13. Behind(u, D1, Z1) /\ (u.ring => W1 # {})
    BY <1>6, <1>7, <1>8, <1>11 DEF Good, Behind
  <1>14. Good(u, D1, Z1, W1)
    BY <1>10, <1>12, <1>13 DEF Good
  <1> QED
    BY <1>5, <1>14 DEF GoodAfter, D1, Z1, W1

\* The label at the head of a line is pending; its patches are made with its address final.
LEMMA LabelGood ==
  ASSUME NEW s, NEW D, NEW Z, NEW W, Good(s, D, Z, W), NEW st, st.op = "label"
  PROVE  GoodAfter(Label(s, st), D, Z, W, st)
  <1> DEFINE n == st.sym
             t == RecordLabel(s, n, Here(s), FALSE)
             u == [t EXCEPT !.pending = <<st.sym>> \o @]
             D1 == D \cup {n}
             W1 == W \cup ({n} \cap Z)
  <1>1. Adds(st) = {n} /\ Again(st) = {}
    BY DEF Adds, Again, DefinesAgain, Named, DefOps
  <1>2. Here(s) \in Nat /\ Here(s) # 0
    BY GoodPlaces
  <1>3. /\ Nearly(t, D1, Z, W1, {n}) /\ n \in DOMAIN t.table
        /\ t.table[n].global \/ n \in ToSet(t.locals)
    BY <1>2, RecordLabelGood
  <1>4. Label(s, st) = u
    BY DEF Label
  <1> HIDE DEF t, D1, W1
  <1>5. Shaped(t) /\ DOMAIN t = Fields
    BY <1>3 DEF Nearly, Shaped
  <1>6. /\ DOMAIN u = Fields /\ u.table = t.table /\ u.locals = t.locals /\ u.ring = t.ring
        /\ u.pending = <<n>> \o t.pending /\ SameLayout(t, u)
    BY <1>5 DEF Fields, SameLayout
  <1> HIDE DEF u
  <1>7. u.pending \in Seq(DOMAIN t.table) /\ ToSet(u.pending) = {n} \cup ToSet(t.pending)
    <2> DEFINE q == t.pending
               S == DOMAIN t.table
    <2>1. q \in Seq(S) /\ n \in S
      BY <1>3, <1>5 DEF Shaped
    <2> HIDE DEF q, S
    <2>2. <<n>> \o q \in Seq(S) /\ ToSet(<<n>> \o q) = {n} \cup ToSet(q)
      BY <2>1, ToSetCons
    <2> QED
      BY <1>6, <2>2 DEF q, S
  <1>8. Shaped(u)
    BY <1>5, <1>6, <1>7 DEF Shaped, SameLayout, Laid
  <1>9. Good(u, D1, Z, W1)
    BY <1>3, <1>6, <1>7, <1>8 DEF Nearly, Good, Listed, Patched, Behind
  <1> QED
    BY <1>1, <1>4, <1>9 DEF GoodAfter, D1, W1

LEMMA ClearedAfter ==
  ASSUME NEW t, NEW D, NEW Z, NEW W, NEW st, GoodAfter(t, D, Z, W, st)
  PROVE  GoodAfter(ClearLabels(t), D, Z, W, st)
  BY ClearLabelsGood DEF GoodAfter

-----------------------------------------------------------------------------
(* The end of a file *)

LEMMA FlushGood ==
  ASSUME NEW s, NEW D, NEW Z, NEW W, Good(s, D, Z, W), s.pending = <<>>
  PROVE  /\ Good(FlushLocals(s), {}, {}, W)
         /\ FlushLocals(s).locals = <<>> /\ FlushLocals(s).pending = <<>>
  <1> DEFINE L == ToSet(s.locals)
             table == [n \in DOMAIN s.table \ L |-> s.table[n]]
             t == FlushLocals(s)
  <1>1. Shaped(s) /\ DOMAIN s = Fields
    BY DEF Good, Shaped
  <1>2. /\ DOMAIN table = DOMAIN s.table \ L /\ table \in [DOMAIN table -> Labels]
        /\ \A n \in DOMAIN table : table[n] = s.table[n]
    BY <1>1 DEF Shaped
  <1>3. /\ DOMAIN t = Fields /\ t.table = table /\ t.locals = <<>> /\ t.ring = s.ring
        /\ t.pending = <<>> /\ SameLayout(s, t)
    BY <1>1 DEF FlushLocals, Fields, SameLayout
  <1> HIDE DEF t, table, L
  <1>4. <<>> \in Seq(DOMAIN table) /\ ToSet(<<>>) = {}
    BY ToSetEmpty
  <1>5. Shaped(t)
    BY <1>1, <1>2, <1>3, <1>4 DEF Shaped, SameLayout, Laid
  <1>6. Listed(t) /\ Patched(t, {}) /\ Behind(t, {}, {})
    BY <1>2, <1>3, <1>4 DEF Good, Listed, Patched, Behind, L
  <1> QED
    BY <1>3, <1>4, <1>5, <1>6 DEF Good, t

\* Main is recorded as global, and with no address to give.
LEMMA RecordGlobalGood ==
  ASSUME NEW s0, NEW D, NEW Z, NEW W, Good(s0, D, Z, W), NEW n \in DOMAIN s0.table, s0.table[n].global,
         s0.pending = <<>>
  PROVE  LET t == RecordLabel(s0, n, 0, FALSE)
         IN  Good(t, D, Z, W) /\ t.locals = s0.locals /\ t.pending = <<>>
  <1> DEFINE s == Lookup(s0, n)
             l == s.table[n]
             u == [s EXCEPT !.table[n].addr = 0]
             t == RecordLabel(s0, n, 0, FALSE)
  <1>1. /\ Good(s, D, Z, W) /\ n \in DOMAIN s.table /\ l.global
        /\ s.locals = s0.locals /\ s.pending = <<>>
    BY LookupGood
  <1>2. t = IF ~l.gp /\ l.addr # 0 THEN YyError(s, n) ELSE IF l.gp THEN s ELSE u
    BY <1>1 DEF RecordLabel
  <1> HIDE DEF s, t
  <1>3. CASE ~l.gp /\ l.addr # 0
    <2>1. t = YyError(s, n)
      BY <1>2, <1>3
    <2>2. Good(t, D, Z, W) /\ Carried(s, t)
      BY <1>1, <2>1, YyErrorGood
    <2> QED
      BY <1>1, <2>2 DEF Carried, t
  <1>4. CASE l.gp
    BY <1>1, <1>2, <1>4 DEF t
  <1>5. CASE ~l.gp /\ l.addr = 0
    <2>1. Shaped(s) /\ DOMAIN s = Fields /\ l \in Labels /\ ToSet(s.locals) \subseteq DOMAIN s.table
      BY <1>1, ToSetIn DEF Good, Shaped
    <2>2. /\ DOMAIN u = Fields /\ u.table = [s.table EXCEPT ![n].addr = 0]
          /\ u.locals = s.locals /\ u.ring = s.ring /\ u.pending = s.pending /\ SameLayout(s, u)
      BY <2>1 DEF Fields, SameLayout
    <2> HIDE DEF u
    <2>3. /\ DOMAIN u.table = DOMAIN s.table /\ u.table \in [DOMAIN u.table -> Labels]
          /\ \A m \in DOMAIN s.table : m # n => u.table[m] = s.table[m]
          /\ u.table[n].global /\ u.table[n].addr = 0
      <3>1. u.table[n] = [l EXCEPT !.addr = 0]
        BY <1>1, <2>2
      <3>2. u.table[n] \in Labels /\ u.table[n].global = l.global /\ u.table[n].addr = 0
        BY <2>1, <3>1 DEF Labels
      <3>3. s.table \in [DOMAIN s.table -> Labels]
        BY <2>1 DEF Shaped
      <3> QED
        BY <1>1, <2>2, <3>2, <3>3
    <2>4. Shaped(u)
      BY <2>1, <2>2, <2>3 DEF Shaped, SameLayout, Laid
    <2>5. Good(u, D, Z, W)
      BY <1>1, <2>1, <2>2, <2>3, <2>4 DEF Good, Listed, Patched, Behind
    <2> QED
      BY <1>1, <1>2, <1>5, <2>2, <2>5 DEF t
  <1> QED
    BY <1>3, <1>4, <1>5

-----------------------------------------------------------------------------
(* The invariant *)

\* The names that file f of the lines ls has defined, those of them that it can define again
\* without an error, and the names that such a definition has come to.
DefinedOf(ls, f) == UNION {Adds(ls[i].st) : i \in {j \in DOMAIN ls : ls[j].file = f}}
AgainOf(ls, f) == UNION {Again(ls[i].st) : i \in {j \in DOMAIN ls : ls[j].file = f}}
RedefinedOf(ls) ==
  {n \in UNION {Adds(ls[j].st) : j \in DOMAIN ls} :
     \E i, j \in DOMAIN ls : /\ i < j /\ ls[i].file = ls[j].file
                             /\ n \in Again(ls[i].st) /\ n \in Adds(ls[j].st)}

LabelsGood == Good(asm, DefinedOf(lines, file), AgainOf(lines, file), RedefinedOf(lines))
FilesInOrder == \A i \in DOMAIN lines : lines[i].file <= file
NoneBetweenFiles ==
  phase = "done" \/ (file = 2 /\ \A i \in DOMAIN lines : lines[i].file = 1) => asm.locals = <<>>
NoStatementAtEnd == phase # "reading" => asm.pending = <<>>

AInv == ATypeOK /\ LabelsGood /\ FilesInOrder /\ NoneBetweenFiles /\ NoStatementAtEnd

LEMMA TypesSplit ==
  ASSUME DOMAIN asm = Fields
  PROVE  ATypeOK <=> /\ Shaped(asm)
                     /\ lines \in Seq([st : UNION Families, file : 1 .. 2])
                     /\ file \in 1 .. 2 /\ phase \in {"reading", "flushing", "done"}
  BY DEF ATypeOK, Shaped, Laid

\* The lines ls2 have one more line, st of file f, and what it defines.
Grown(ls, ls2, st, f) ==
  /\ DefinedOf(ls, f) \cup Adds(st) \subseteq DefinedOf(ls2, f)
  /\ AgainOf(ls, f) \cup Again(st) \subseteq AgainOf(ls2, f)
  /\ RedefinedOf(ls) \cup (Adds(st) \cap AgainOf(ls, f)) \subseteq RedefinedOf(ls2)

LEMMA LinesGrow ==
  ASSUME NEW ls, NEW ls2, NEW st, NEW f, NEW m \in Nat \ {0},
         DOMAIN ls = 1 .. m - 1, DOMAIN ls2 = 1 .. m, \A i \in DOMAIN ls : ls2[i] = ls[i],
         ls2[m].st = st, ls2[m].file = f
  PROVE  Grown(ls, ls2, st, f)
  <1>1. DOMAIN ls \subseteq DOMAIN ls2 /\ m \in DOMAIN ls2 /\ \A i \in DOMAIN ls : i < m
    OBVIOUS
  <1>2. DefinedOf(ls, f) \cup Adds(st) \subseteq DefinedOf(ls2, f)
    BY <1>1 DEF DefinedOf
  <1>3. AgainOf(ls, f) \cup Again(st) \subseteq AgainOf(ls2, f)
    BY <1>1 DEF AgainOf
  <1>4. RedefinedOf(ls) \subseteq RedefinedOf(ls2)
    BY <1>1 DEF RedefinedOf
  <1>5. Adds(st) \cap AgainOf(ls, f) \subseteq RedefinedOf(ls2)
    <2> SUFFICES ASSUME NEW n \in Adds(st), n \in AgainOf(ls, f) PROVE n \in RedefinedOf(ls2)
      OBVIOUS
    <2>1. PICK i \in DOMAIN ls : ls[i].file = f /\ n \in Again(ls[i].st)
      BY DEF AgainOf
    <2> QED
      BY <1>1, <2>1 DEF RedefinedOf
  <1> QED
    BY <1>2, <1>3, <1>4, <1>5 DEF Grown

\* A statement that leaves the labels good keeps the invariant.
LEMMA StatementKeeps ==
  ASSUME AInv, NEW st \in UNION Families, phase = "reading", UNCHANGED <<file, phase>>,
         lines' = Append(lines, [st |-> st, file |-> file]),
         GoodAfter(asm', DefinedOf(lines, file), AgainOf(lines, file), RedefinedOf(lines), st)
  PROVE  AInv'
  <1>1. lines \in Seq([st : UNION Families, file : 1 .. 2]) /\ file \in 1 .. 2
    BY DEF AInv, ATypeOK
  <1>2. lines' \in Seq([st : UNION Families, file : 1 .. 2])
    BY <1>1
  <1>3. Good(asm', DefinedOf(lines', file), AgainOf(lines', file), RedefinedOf(lines'))
    <2> DEFINE ls2 == lines'
               D2 == DefinedOf(lines, file) \cup Adds(st)
               Z2 == AgainOf(lines, file) \cup Again(st)
               W2 == RedefinedOf(lines) \cup (Adds(st) \cap AgainOf(lines, file))
    <2> DEFINE m == Len(lines) + 1
    <2>1. /\ m \in Nat \ {0} /\ DOMAIN lines = 1 .. m - 1 /\ DOMAIN ls2 = 1 .. m
          /\ \A i \in DOMAIN lines : ls2[i] = lines[i]
          /\ ls2[m].st = st /\ ls2[m].file = file
      BY <1>1
    <2> HIDE DEF ls2, m
    <2>2. D2 \subseteq DefinedOf(ls2, file) /\ Z2 \subseteq AgainOf(ls2, file) /\ W2 \subseteq RedefinedOf(ls2)
      <3>1. Grown(lines, ls2, st, file)
        BY <2>1, LinesGrow
      <3> QED
        BY <3>1 DEF Grown
    <2>3. Good(asm', D2, Z2, W2)
      BY DEF GoodAfter
    <2> HIDE DEF D2, Z2, W2
    <2>4. Good(asm', DefinedOf(ls2, file), AgainOf(ls2, file), RedefinedOf(ls2))
      BY <2>2, <2>3, GoodGrows
    <2> QED
      BY <2>4 DEF ls2
  <1>4. Shaped(asm') /\ DOMAIN asm' = Fields
    BY <1>3 DEF Good, Shaped
  <1>5. ATypeOK'
    BY <1>1, <1>2, <1>4 DEF AInv, ATypeOK, Shaped, Laid
  <1>6. /\ Len(lines) + 1 \in DOMAIN lines' /\ lines'[Len(lines) + 1].file = file
        /\ \A i \in DOMAIN lines' : i \in DOMAIN lines \/ i = Len(lines) + 1
        /\ \A i \in DOMAIN lines : lines'[i] = lines[i]
    BY <1>1
  <1>7. FilesInOrder'
    BY <1>1, <1>6 DEF AInv, FilesInOrder
  <1>8. NoneBetweenFiles' /\ NoStatementAtEnd'
    BY <1>6 DEF NoneBetweenFiles, NoStatementAtEnd
  <1> QED
    BY <1>3, <1>5, <1>7, <1>8 DEF AInv, LabelsGood

LEMMA StatementsIn == Statements \subseteq UNION Families
  BY DEF Statements

\* What every action that reads a statement has in common: the statement, of one of the kinds
\* ops, and the labels after it.
ReadOf(st, ops) ==
  /\ st \in UNION Families /\ st.op \in ops
  /\ phase = "reading" /\ UNCHANGED <<file, phase>>
  /\ lines' = Append(lines, [st |-> st, file |-> file])

LEMMA StatementFacts ==
  ASSUME NEW st \in UNION Families
  PROVE  /\ st.n \in Nat
         /\ st.op = "segment" => st.sym \in Segments
         /\ st.op = "align" => st.n \in 0 .. 30
  BY AssemblerAssumption

LEMMA ReadsKeep ==
  ASSUME AInv,
         \/ ReadLabel \/ ReadAssign \/ ReadWord \/ ReadHalf \/ ReadByte \/ ReadSpace
         \/ ReadAlign \/ ReadGlobl \/ ReadExtern \/ ReadLComm \/ ReadComm \/ ReadLabelDir
         \/ ReadSegment \/ ReadBranch \/ ReadJump \/ ReadLoad \/ ReadLa
  PROVE  AInv'
  <1> DEFINE D == DefinedOf(lines, file)
             Z == AgainOf(lines, file)
             W == RedefinedOf(lines)
  <1>1. Good(asm, D, Z, W)
    BY DEF AInv, LabelsGood
  <1>2. ASSUME NEW st, NEW ops, ReadOf(st, ops), GoodAfter(asm', D, Z, W, st)
        PROVE  AInv'
    BY <1>2, StatementKeeps DEF ReadOf
  <1>3. ASSUME NEW st, NEW ops, NEW t, ReadOf(st, ops), GoodAfter(t, D, Z, W, st), asm' = ClearLabels(t)
        PROVE  AInv'
    BY <1>2, <1>3, ClearedAfter
  <1>4. ASSUME NEW st, NEW ops, NEW t, ReadOf(st, ops), Good(t, D, Z, W), asm' = ClearLabels(t)
        PROVE  AInv'
    BY <1>3, <1>4, StillGood
  <1> HIDE DEF D, Z, W
  <1>5. CASE ReadLabel
    <2>1. PICK st : ReadOf(st, {"label"}) /\ asm' = Label(asm, st)
      BY <1>5, StatementsIn DEF ReadLabel, Read, ReadOf
    <2>2. GoodAfter(asm', D, Z, W, st)
      BY <1>1, <2>1, LabelGood DEF ReadOf
    <2> QED
      BY <1>2, <2>1, <2>2
  <1>6. CASE ReadAssign
    <2>1. PICK st : ReadOf(st, {"assign"}) /\ asm' = ClearLabels(Assign(asm, st))
      BY <1>6, StatementsIn DEF ReadAssign, Directive, Read, ReadOf
    <2>2. GoodAfter(Assign(asm, st), D, Z, W, st)
      BY <1>1, <2>1, StatementFacts, AssignGood DEF ReadOf
    <2> QED
      BY <1>3, <2>1, <2>2
  <1>7. CASE ReadWord
    <2>1. PICK st : ReadOf(st, {"word"}) /\ asm' = ClearLabels(Word(asm, st))
      BY <1>7, StatementsIn DEF ReadWord, Directive, Read, ReadOf
    <2> QED
      BY <1>1, <1>4, <2>1, WordGood
  <1>8. CASE ReadHalf
    <2>1. PICK st : ReadOf(st, {"half"}) /\ asm' = ClearLabels(Half(asm, st))
      BY <1>8, StatementsIn DEF ReadHalf, Directive, Read, ReadOf
    <2> QED
      BY <1>1, <1>4, <2>1, HalfGood
  <1>9. CASE ReadByte
    <2>1. PICK st : ReadOf(st, {"byte"}) /\ asm' = ClearLabels(Byte(asm, st))
      BY <1>9, StatementsIn DEF ReadByte, Directive, Read, ReadOf
    <2> QED
      BY <1>1, <1>4, <2>1, ByteGood
  <1>10. CASE ReadSpace
    <2>1. PICK st : ReadOf(st, {"space"}) /\ asm' = ClearLabels(Space(asm, st))
      BY <1>10, StatementsIn DEF ReadSpace, Directive, Read, ReadOf
    <2>2. Good(Space(asm, st), D, Z, W)
      BY <1>1, <2>1, StatementFacts, SpaceGood DEF ReadOf
    <2> QED
      BY <1>4, <2>1, <2>2
  <1>11. CASE ReadAlign
    <2>1. PICK st : ReadOf(st, {"align"}) /\ asm' = ClearLabels(Align(asm, st))
      BY <1>11, StatementsIn DEF ReadAlign, Directive, Read, ReadOf
    <2>2. Good(Align(asm, st), D, Z, W)
      BY <1>1, <2>1, StatementFacts, AlignDataGood DEF ReadOf, Align
    <2> QED
      BY <1>4, <2>1, <2>2
  <1>12. CASE ReadGlobl
    <2>1. PICK st : ReadOf(st, {"globl"}) /\ asm' = ClearLabels(Globl(asm, st))
      BY <1>12, StatementsIn DEF ReadGlobl, Directive, Read, ReadOf
    <2>2. Good(Globl(asm, st), D, Z, W)
      BY <1>1, MakeGlobalGood DEF Globl
    <2> QED
      BY <1>4, <2>1, <2>2
  <1>13. CASE ReadExtern
    <2>1. PICK st : ReadOf(st, {"extern"}) /\ asm' = ClearLabels(Extern(asm, st))
      BY <1>13, StatementsIn DEF ReadExtern, Directive, Read, ReadOf
    <2>2. Good(Extern(asm, st), D, Z, W)
      BY <1>1, <2>1, StatementFacts, ExternGood DEF ReadOf
    <2> QED
      BY <1>4, <2>1, <2>2
  <1>14. CASE ReadLComm
    <2>1. PICK st : ReadOf(st, {"lcomm"}) /\ asm' = ClearLabels(LComm(asm, st))
      BY <1>14, StatementsIn DEF ReadLComm, Directive, Read, ReadOf
    <2>2. GoodAfter(LComm(asm, st), D, Z, W, st)
      BY <1>1, <2>1, StatementFacts, LCommGood DEF ReadOf
    <2> QED
      BY <1>3, <2>1, <2>2
  <1>15. CASE ReadComm
    <2>1. PICK st : ReadOf(st, {"comm"}) /\ asm' = ClearLabels(Comm(asm, st))
      BY <1>15, StatementsIn DEF ReadComm, Directive, Read, ReadOf
    <2>2. GoodAfter(Comm(asm, st), D, Z, W, st)
      BY <1>1, <2>1, StatementFacts, CommGood DEF ReadOf
    <2> QED
      BY <1>3, <2>1, <2>2
  <1>16. CASE ReadLabelDir
    <2>1. PICK st : ReadOf(st, {"labeldir"}) /\ asm' = ClearLabels(LabelDir(asm, st))
      BY <1>16, StatementsIn DEF ReadLabelDir, Directive, Read, ReadOf
    <2>2. GoodAfter(LabelDir(asm, st), D, Z, W, st)
      BY <1>1, <2>1, LabelDirGood DEF ReadOf
    <2> QED
      BY <1>3, <2>1, <2>2
  <1>17. CASE ReadSegment
    <2>1. PICK st : ReadOf(st, {"segment"}) /\ asm' = ClearLabels(Segment(asm, st))
      BY <1>17, StatementsIn DEF ReadSegment, Directive, Read, ReadOf
    <2>2. Good(Segment(asm, st), D, Z, W)
      BY <1>1, <2>1, StatementFacts, SegmentGood DEF ReadOf
    <2> QED
      BY <1>4, <2>1, <2>2
  <1>18. CASE ReadBranch
    <2>1. PICK st : ReadOf(st, {"branch"}) /\ asm' = ClearLabels(Branch(asm, st))
      BY <1>18, StatementsIn DEF ReadBranch, Instruction, Read, ReadOf
    <2> QED
      BY <1>1, <1>4, <2>1, InstructionsGood
  <1>19. CASE ReadJump
    <2>1. PICK st : ReadOf(st, {"jump"}) /\ asm' = ClearLabels(Jump(asm, st))
      BY <1>19, StatementsIn DEF ReadJump, Instruction, Read, ReadOf
    <2> QED
      BY <1>1, <1>4, <2>1, InstructionsGood
  <1>20. CASE ReadLoad
    <2>1. PICK st : ReadOf(st, {"load", "loadx"}) /\ asm' = ClearLabels(Load(asm, st))
      BY <1>20, StatementsIn DEF ReadLoad, Instruction, Read, ReadOf
    <2> QED
      BY <1>1, <1>4, <2>1, InstructionsGood
  <1>21. CASE ReadLa
    <2>1. PICK st : ReadOf(st, {"la"}) /\ asm' = ClearLabels(LoadAddress(asm, st))
      BY <1>21, StatementsIn DEF ReadLa, Instruction, Read, ReadOf
    <2> QED
      BY <1>1, <1>4, <2>1, InstructionsGood
  <1> QED
    BY <1>5, <1>6, <1>7, <1>8, <1>9, <1>10, <1>11, <1>12, <1>13, <1>14, <1>15, <1>16, <1>17,
       <1>18, <1>19, <1>20, <1>21

LEMMA EndOfFileKeeps ==
  ASSUME AInv, EndOfFile
  PROVE  AInv'
  <1> DEFINE D == DefinedOf(lines, file)
             Z == AgainOf(lines, file)
             W == RedefinedOf(lines)
  <1>1. Good(asm, D, Z, W)
    BY DEF AInv, LabelsGood
  <1>2. asm' = ClearLabels(asm) /\ phase = "reading" /\ phase' = "flushing" /\ UNCHANGED <<lines, file>>
    BY DEF EndOfFile
  <1> HIDE DEF D, Z, W
  <1>3. Good(asm', D, Z, W) /\ Carried(asm, asm')
    BY <1>1, <1>2, ClearLabelsGood
  <1>4. asm'.pending = <<>> /\ asm'.locals = asm.locals
    BY <1>3 DEF Carried
  <1>5. ATypeOK'
    BY <1>2, <1>3 DEF AInv, ATypeOK, Good, Shaped, Laid
  <1>6. LabelsGood' /\ FilesInOrder'
    BY <1>2, <1>3 DEF AInv, LabelsGood, FilesInOrder, D, Z, W
  <1>7. NoneBetweenFiles' /\ NoStatementAtEnd'
    BY <1>2, <1>4 DEF AInv, NoneBetweenFiles, NoStatementAtEnd
  <1> QED
    BY <1>5, <1>6, <1>7 DEF AInv

LEMMA FlushKeeps ==
  ASSUME AInv, Flush
  PROVE  AInv'
  <1> DEFINE W == RedefinedOf(lines)
             u == FlushLocals(asm)
             s == [u EXCEPT !.kernel = FALSE, !.auto = TRUE, !.dir = "text"]
             g == MakeGlobal(s, Main)
             t == RecordLabel(g, Main, 0, FALSE)
  <1>1. Good(asm, DefinedOf(lines, file), AgainOf(lines, file), W) /\ asm.pending = <<>>
    BY DEF AInv, LabelsGood, NoStatementAtEnd, Flush
  <1>2. Good(u, {}, {}, W) /\ u.locals = <<>> /\ u.pending = <<>>
    BY <1>1, FlushGood
  <1>3. /\ asm' = IF file = 1 THEN t ELSE s
        /\ UNCHANGED lines
        /\ IF file = 1 THEN file' = 2 /\ phase' = "reading" ELSE phase' = "done" /\ file' = file
    BY DEF Flush
  <1> HIDE DEF W, u
  <1>4. Good(s, {}, {}, W) /\ s.locals = <<>> /\ s.pending = <<>>
    <2>1. DOMAIN u = Fields /\ Laid(u)
      BY <1>2, GoodPlaces
    <2>2. SameLabels(u, s) /\ Laid(s)
      BY <2>1 DEF SameLabels, Laid, Fields
    <2>3. s.locals = u.locals /\ s.pending = u.pending
      BY <2>2 DEF SameLabels
    <2> HIDE DEF s
    <2> QED
      BY <1>2, <2>2, <2>3, GoodKept
  <1> HIDE DEF s
  <1>5. /\ Good(g, {}, {}, W) /\ g.locals = <<>> /\ g.pending = <<>>
        /\ Main \in DOMAIN g.table /\ g.table[Main].global
    BY <1>4, MakeGlobalGood
  <1> HIDE DEF g
  <1>6. Good(t, {}, {}, W) /\ t.locals = <<>> /\ t.pending = <<>>
    BY <1>5, RecordGlobalGood
  <1> HIDE DEF t
  <1>7. Good(asm', {}, {}, W) /\ asm'.locals = <<>> /\ asm'.pending = <<>>
    BY <1>3, <1>4, <1>6
  <1>8. /\ lines \in Seq([st : UNION Families, file : 1 .. 2]) /\ file \in 1 .. 2
        /\ file' \in 1 .. 2 /\ file <= file' /\ phase' \in {"reading", "flushing", "done"}
    BY <1>3 DEF AInv, ATypeOK
  <1>9. ATypeOK'
    BY <1>3, <1>7, <1>8 DEF ATypeOK, Good, Shaped, Laid
  <1>10. LabelsGood'
    BY <1>3, <1>7, GoodGrows DEF LabelsGood, W
  <1>11. FilesInOrder'
    <2>1. ASSUME NEW i \in DOMAIN lines PROVE lines[i].file <= file'
      <3>1. lines[i] \in [st : UNION Families, file : 1 .. 2]
        <4> DEFINE R == [st : UNION Families, file : 1 .. 2]
        <4>1. lines \in Seq(R)
          BY <1>8
        <4> HIDE DEF R
        <4>2. lines[i] \in R
          BY <4>1
        <4> QED
          BY <4>2 DEF R
      <3>2. lines[i].file \in Nat
        BY <3>1
      <3>3. lines[i].file <= file
        BY DEF AInv, FilesInOrder
      <3> QED
        BY <1>8, <3>2, <3>3
    <2>2. \A i \in DOMAIN lines : lines[i].file <= file'
      BY <2>1
    <2> QED
      BY <1>3, <2>2 DEF FilesInOrder
  <1>12. NoneBetweenFiles' /\ NoStatementAtEnd'
    BY <1>7 DEF NoneBetweenFiles, NoStatementAtEnd
  <1> QED
    BY <1>9, <1>10, <1>11, <1>12 DEF AInv

LEMMA InitGood == AInit => AInv
  <1> SUFFICES ASSUME AInit PROVE AInv
    OBVIOUS
  <1>1. /\ DOMAIN asm = Fields /\ asm.table = <<>> /\ asm.locals = <<>> /\ asm.ring = FALSE
        /\ asm.pending = <<>> /\ asm.dir = "text" /\ asm.kernel = FALSE /\ asm.auto = TRUE
        /\ asm.pc = Bot /\ asm.next_gp = GpBot
    BY DEF AInit, Fields
  <1>2. DOMAIN asm.table = {} /\ asm.table \in [{} -> Labels]
    BY <1>1
  <1>3. <<>> \in Seq({}) /\ ToSet(<<>>) = {}
    BY ToSetEmpty
  <1>4. Laid(asm)
    <2>1. Bot \in [Segments -> Nat \ {0}]
      BY AssemblerAssumption
    <2>2. GpBot \in GpBot .. GpEnd - 1
      BY AssemblerAssumption
    <2>3. asm.dir \in {"data", "text"} /\ asm.kernel \in BOOLEAN /\ asm.auto \in BOOLEAN
      BY <1>1
    <2> QED
      BY <1>1, <2>1, <2>2, <2>3 DEF Laid
  <1>5. Shaped(asm)
    BY <1>1, <1>2, <1>3, <1>4 DEF Shaped
  <1>6. lines = <<>> /\ file = 1 /\ phase = "reading"
    BY DEF AInit
  <1>7. LabelsGood
    BY <1>1, <1>2, <1>3, <1>5 DEF LabelsGood, Good, Listed, Patched, Behind
  <1>8. ATypeOK
    BY <1>1, <1>5, <1>6, TypesSplit
  <1> QED
    BY <1>1, <1>6, <1>7, <1>8 DEF AInv, FilesInOrder, NoneBetweenFiles, NoStatementAtEnd

LEMMA NextKeeps == AInv /\ [ANext]_avars => AInv'
  <1> SUFFICES ASSUME AInv, [ANext]_avars PROVE AInv'
    OBVIOUS
  <1>1. CASE UNCHANGED avars
    BY <1>1 DEF AInv, ATypeOK, LabelsGood, FilesInOrder, NoneBetweenFiles, NoStatementAtEnd, avars
  <1>2. CASE ANext
    <2>1. CASE FlushOn
      BY <1>1, <2>1 DEF FlushOn, AInv, ATypeOK, LabelsGood, FilesInOrder, NoneBetweenFiles, NoStatementAtEnd, avars
    <2> QED
      BY <1>2, <2>1, ReadsKeep, EndOfFileKeeps, FlushKeeps DEF ANext
  <1> QED
    BY <1>1, <1>2

LEMMA AssemblerInvariant == ASpec => []AInv
  BY InitGood, NextKeeps, PTL DEF ASpec

-----------------------------------------------------------------------------
(* Theorems *)

\* Table, list, layout and lines are of their kinds after every statement.
THEOREM AssemblerTypes == ASpec => []ATypeOK
  <1>1. AInv => ATypeOK
    BY DEF AInv
  <1> QED
    BY <1>1, AssemblerInvariant, PTL

\* clear_labels and record_label leave no patch behind: in every program, a label with a final
\* address has been resolved wherever it was used.
THEOREM PatchesAreMade == ASpec => []NoPatchOwed
  <1>1. AInv => NoPatchOwed
    BY DEF AInv, LabelsGood, Good, Patched, NoPatchOwed, IsDefined
  <1> QED
    BY <1>1, AssemblerInvariant, PTL

\* flush_local_labels takes every name with an address that is not global out of the table.
THEOREM FilesAreForgotten == ASpec => []LocalsForgotten
  <1>1. ASSUME AInv PROVE LocalsForgotten
    <2>1. Listed(asm) /\ NoneBetweenFiles
      BY <1>1 DEF AInv, LabelsGood, Good
    <2>2. ToSet(<<>>) = {}
      BY ToSetEmpty
    <2> QED
      BY <2>1, <2>2 DEF LocalsForgotten, Listed, NoneBetweenFiles, IsDefined, Lines, InFile
  <1> QED
    BY <1>1, AssemblerInvariant, PTL

\* The list of local labels becomes a ring only in programs that define a name a second time
\* without the error that record_label has for it.
THEOREM RingsAreRedefinitions == ASpec => []RingsFromRedefinition
  <1>1. ASSUME AInv, asm.ring PROVE RingsFromRedefinition
    <2>1. RedefinedOf(lines) # {}
      BY <1>1 DEF AInv, LabelsGood, Good
    <2>2. PICK n : n \in RedefinedOf(lines)
      BY <2>1
    <2>3. \E i, j \in DOMAIN lines : /\ i < j /\ lines[i].file = lines[j].file
                                    /\ n \in Again(lines[i].st) /\ n \in Adds(lines[j].st)
      BY <2>2 DEF RedefinedOf
    <2>4. PICK i \in DOMAIN lines, j \in DOMAIN lines :
            /\ i < j /\ lines[i].file = lines[j].file
            /\ n \in Again(lines[i].st) /\ n \in Adds(lines[j].st)
      BY <2>3
    <2>5. n = NameOf(i) /\ n = NameOf(j) /\ Op(j) \in DefOps
      BY <2>4 DEF Again, Adds, Named, NameOf, Op, St
    <2>6. /\ Op(i) \in DefOps
          /\ \/ Op(i) = "lcomm" /\ St(i).n \in 1 .. SmallDataSegMaxSize
             \/ Op(i) = "assign" /\ St(i).n = 0
      BY <2>4 DEF Again, DefinesAgain, DefOps, Op, St
    <2> QED
      BY <2>4, <2>5, <2>6 DEF RingsFromRedefinition, Lines, InFile
  <1>2. AInv => RingsFromRedefinition
    BY <1>1 DEF RingsFromRedefinition
  <1> QED
    BY <1>2, AssemblerInvariant, PTL
=============================================================================
