----------------------------- MODULE ConsoleProofs -----------------------------
(***************************************************************************)
(* Proofs about Console, for every size of the buffers, all contexts and   *)
(* any number of characters.                                               *)
(***************************************************************************)
EXTENDS Console, SequenceTheorems, FiniteSetTheorems, TLAPS

-----------------------------------------------------------------------------
(* Sequences *)

\* A set of numbers has a least one: induction, in the form the provers can use.
LEMMA Least ==
  ASSUME NEW T, T \subseteq Nat, T # {}
  PROVE  \E m \in T : \A k \in T : m <= k
  <1> DEFINE R == {p \in Nat \X Nat : p[1] < p[2]}
  <1>1. OpToRel(<, Nat) = R
    BY Zenon DEF OpToRel
  <1>2. IsWellFoundedOn(R, Nat)
    BY Zenon, <1>1, NatLessThanWellFounded
  <1> HIDE DEF R
  <1>3. \E x \in T : \A y \in T : ~(<<y, x>> \in R)
    BY Zenon, <1>2, WFMin
  <1>4. \A x \in T, y \in T : ~(<<y, x>> \in R) => x <= y
    BY DEF R
  <1> QED
    BY <1>3, <1>4

LEMMA Associative ==
  \A S : \A u, v, w \in Seq(S) : u \o (v \o w) = (u \o v) \o w
  OBVIOUS

\* f[i] is what the first i sequences make when they are joined.
JoinsFirst(f, seqs, n, S) ==
  /\ f \in [1 .. n -> Seq(S)]
  /\ \A i \in 1 .. n : f[i] = IF i = 1 THEN seqs[i] ELSE f[i-1] \o seqs[i]

LEMMA JoinsExist ==
  ASSUME NEW S, NEW seqs \in Seq(Seq(S)), NEW n \in 0 .. Len(seqs)
  PROVE  \E f : JoinsFirst(f, seqs, n, S)
  <1> DEFINE T == {k \in 0 .. Len(seqs) : ~ \E f : JoinsFirst(f, seqs, k, S)}
  <1>0. Len(seqs) \in Nat /\ T \subseteq Nat
    <2>1. Len(seqs) \in Nat
      BY LenProperties
    <2> QED
      BY <2>1
  <1>1. SUFFICES ASSUME T # {} PROVE FALSE
    OBVIOUS
  <1>2. PICK m \in T : \A k \in T : m <= k
    <2> HIDE DEF T
    <2> QED
      BY <1>0, <1>1, Least
  <1>3. m # 0
    <2>1. JoinsFirst([i \in 1 .. 0 |-> <<>>], seqs, 0, S)
      BY DEF JoinsFirst
    <2> QED
      BY <2>1
  <1>4. m \in 1 .. Len(seqs) /\ m - 1 \in 0 .. Len(seqs) /\ m - 1 \notin T /\ Len(seqs) \in Nat
    <2>1. m \in 1 .. Len(seqs) /\ m - 1 \in 0 .. Len(seqs)
      BY <1>0, <1>3
    <2>2. ~(m <= m - 1)
      BY <2>1
    <2> HIDE DEF T
    <2> QED
      BY <1>0, <1>2, <2>1, <2>2
  <1>5. PICK f : JoinsFirst(f, seqs, m - 1, S)
    BY <1>4
  <1> DEFINE last == IF m = 1 THEN seqs[m] ELSE f[m - 1] \o seqs[m]
             g == [i \in 1 .. m |-> IF i = m THEN last ELSE f[i]]
  <1>6. seqs[m] \in Seq(S) /\ (m # 1 => f[m - 1] \in Seq(S))
    BY <1>4, <1>5, ElementOfSeq DEF JoinsFirst
  <1>7. last \in Seq(S)
    BY <1>6, ConcatProperties
  <1>8. \A i \in 1 .. m : i # m => i \in 1 .. m - 1 /\ (i # 1 => i - 1 \in 1 .. m - 1 /\ i - 1 # m)
    BY <1>4
  <1>9. JoinsFirst(g, seqs, m, S)
    <2> HIDE DEF last
    <2>1. g \in [1 .. m -> Seq(S)]
      BY <1>5, <1>7, <1>8 DEF JoinsFirst
    <2>2. ASSUME NEW i \in 1 .. m
          PROVE  g[i] = IF i = 1 THEN seqs[i] ELSE g[i-1] \o seqs[i]
      <3>1. CASE i = m
        <4>1. i # 1 => g[i - 1] = f[i - 1]
          BY <1>4, <3>1
        <4>2. g[i] = last
          BY <3>1
        <4> QED
          BY <3>1, <4>1, <4>2 DEF last
      <3>2. CASE i # m
        <4>1. g[i] = f[i] /\ (i # 1 => g[i - 1] = f[i - 1])
          BY <1>4, <1>8, <3>2
        <4> QED
          BY <1>5, <1>8, <3>2, <4>1 DEF JoinsFirst
      <3> QED
        BY <3>1, <3>2
    <2> QED
      BY <2>1, <2>2 DEF JoinsFirst
  <1> QED
    BY <1>2, <1>9

LEMMA FlattenIs ==
  ASSUME NEW S, NEW seqs \in Seq(Seq(S)), Len(seqs) # 0,
         NEW f, JoinsFirst(f, seqs, Len(seqs), S)
  PROVE  FlattenSeq(seqs) = f[Len(seqs)]
  <1> DEFINE n == Len(seqs)
             Is(h) == h = [i \in 1 .. n |-> IF i = 1 THEN seqs[i] ELSE h[i-1] \o seqs[i]]
             g == CHOOSE h : Is(h)
  <1>1. FlattenSeq(seqs) = g[n]
    BY DEF FlattenSeq
  <1>2. Is(f)
    BY DEF JoinsFirst
  <1>3. Is(g)
    BY <1>2
  <1>4. n \in Nat \ {0}
    BY LenProperties
  <1> HIDE DEF g
  <1> DEFINE T == {i \in 1 .. n : g[i] # f[i]}
  <1>5. ASSUME T # {} PROVE FALSE
    <2>0. T \subseteq Nat
      BY <1>4
    <2>1. PICK m \in T : \A k \in T : m <= k
      <3> HIDE DEF T
      <3> QED
        BY <1>5, <2>0, Least
    <2>2. m \in 1 .. n /\ g[m] # f[m]
      OBVIOUS
    <2>3. ASSUME m # 1 PROVE g[m - 1] = f[m - 1]
      <3>1. m - 1 \in 1 .. n /\ ~(m <= m - 1)
        BY <1>4, <2>2, <2>3
      <3> QED
        BY <2>1, <3>1
    <2>4. /\ g[m] = IF m = 1 THEN seqs[m] ELSE g[m-1] \o seqs[m]
          /\ f[m] = IF m = 1 THEN seqs[m] ELSE f[m-1] \o seqs[m]
      <3> HIDE DEF n
      <3>1. \A h : Is(h) => h[m] = IF m = 1 THEN seqs[m] ELSE h[m-1] \o seqs[m]
        BY <2>2
      <3> QED
        BY <1>2, <1>3, <3>1
    <2> QED
      BY <2>2, <2>3, <2>4
  <1> QED
    BY <1>1, <1>4, <1>5

LEMMA FlattenType ==
  ASSUME NEW S, NEW seqs \in Seq(Seq(S))
  PROVE  FlattenSeq(seqs) \in Seq(S)
  <1>1. Len(seqs) \in Nat
    BY LenProperties
  <1>2. CASE Len(seqs) = 0
    <2>1. seqs = <<>>
      BY <1>2, EmptySeq
    <2> QED
      BY <1>2, <2>1, EmptySeq DEF FlattenSeq
  <1>3. CASE Len(seqs) # 0
    <2>1. PICK f : JoinsFirst(f, seqs, Len(seqs), S)
      BY <1>1, JoinsExist
    <2>2. FlattenSeq(seqs) = f[Len(seqs)]
      BY <1>3, <2>1, FlattenIs
    <2>3. Len(seqs) \in 1 .. Len(seqs)
      BY <1>1, <1>3
    <2> QED
      BY <2>1, <2>2, <2>3 DEF JoinsFirst
  <1> QED
    BY <1>2, <1>3

\* One more sequence at the end, or the first one.
LEMMA FlattenAppend ==
  ASSUME NEW S, NEW seqs \in Seq(Seq(S)), NEW x \in Seq(S)
  PROVE  FlattenSeq(Append(seqs, x)) = FlattenSeq(seqs) \o x
  <1> DEFINE n == Len(seqs)
             more == Append(seqs, x)
  <1>1. /\ n \in Nat /\ more \in Seq(Seq(S)) /\ Len(more) = n + 1
        /\ more[n + 1] = x /\ \A i \in 1 .. n : more[i] = seqs[i]
    BY AppendProperties, LenProperties
  <1> HIDE DEF more
  <1>2. PICK f : JoinsFirst(f, more, n + 1, S)
    <2>1. Len(more) \in 0 .. Len(more)
      BY <1>1
    <2> QED
      BY <1>1, <2>1, JoinsExist
  <1>3. FlattenSeq(more) = f[n + 1]
    BY <1>1, <1>2, FlattenIs
  <1>4. CASE n = 0
    <2>1. FlattenSeq(seqs) = <<>>
      BY <1>4, EmptySeq DEF FlattenSeq
    <2>2. f[n + 1] = x
      BY <1>1, <1>2, <1>4 DEF JoinsFirst
    <2> QED
      BY <1>3, <2>1, <2>2, ConcatEmptySeq DEF more
  <1>5. CASE n # 0
    <2> DEFINE g == [i \in 1 .. n |-> f[i]]
    <2>1. JoinsFirst(g, seqs, n, S)
      <3>1. \A i \in 1 .. n : i \in 1 .. n + 1 /\ (i # 1 => i - 1 \in 1 .. n)
        BY <1>1
      <3> QED
        BY <1>1, <1>2, <3>1 DEF JoinsFirst
    <2>2. FlattenSeq(seqs) = f[n]
      <3>1. FlattenSeq(seqs) = g[n]
        BY <1>5, <2>1, FlattenIs
      <3> QED
        BY <1>1, <1>5, <3>1
    <2>3. f[n + 1] = f[n] \o more[n + 1]
      <3>1. n + 1 \in 1 .. n + 1 /\ n + 1 # 1 /\ (n + 1) - 1 = n
        BY <1>1, <1>5
      <3> QED
        BY <1>2, <3>1 DEF JoinsFirst
    <2> QED
      BY <1>1, <1>3, <2>2, <2>3 DEF more
  <1> QED
    BY <1>4, <1>5

LEMMA FlattenHead ==
  ASSUME NEW S, NEW seqs \in Seq(Seq(S))
  PROVE  Len(seqs) # 0 => FlattenSeq(seqs) = Head(seqs) \o FlattenSeq(Tail(seqs))
  <1>0. HAVE Len(seqs) # 0
  <1> DEFINE n == Len(seqs)
             rest == Tail(seqs)
  <1>1. /\ n \in Nat \ {0} /\ rest \in Seq(Seq(S)) /\ Len(rest) = n - 1
        /\ \A i \in 1 .. n - 1 : rest[i] = seqs[i + 1]
        /\ Head(seqs) = seqs[1] /\ seqs[1] \in Seq(S)
    BY <1>0, HeadTailProperties, EmptySeq, ElementOfSeq
  <1> HIDE DEF rest
  <1>2. CASE n = 1
    <2>1. FlattenSeq(rest) = <<>>
      BY <1>1, <1>2, EmptySeq DEF FlattenSeq
    <2>2. JoinsFirst([i \in 1 .. n |-> seqs[1]], seqs, n, S)
      BY <1>1, <1>2 DEF JoinsFirst
    <2>3. FlattenSeq(seqs) = seqs[1]
      <3> DEFINE g == [i \in 1 .. n |-> seqs[1]]
      <3>1. g[n] = seqs[1]
        BY <1>1
      <3> HIDE DEF g
      <3> QED
        BY <1>1, <2>2, <3>1, FlattenIs DEF g
    <2> QED
      BY <1>1, <2>1, <2>3, ConcatEmptySeq DEF rest
  <1>3. CASE n # 1
    <2>1. PICK f : JoinsFirst(f, rest, n - 1, S)
      <3>1. n - 1 \in 0 .. Len(rest)
        BY <1>1
      <3> QED
        BY <1>1, <3>1, JoinsExist
    <2>2. FlattenSeq(rest) = f[n - 1]
      BY <1>1, <1>3, <2>1, FlattenIs
    <2> DEFINE g == [i \in 1 .. n |-> IF i = 1 THEN seqs[1] ELSE seqs[1] \o f[i - 1]]
    <2>3. \A i \in 1 .. n : i # 1 => i - 1 \in 1 .. n - 1 /\ (i # 2 => i - 2 \in 1 .. n - 1)
      BY <1>1
    <2>4. \A i \in 1 .. n - 1 : f[i] \in Seq(S)
      BY <2>1 DEF JoinsFirst
    <2>5. g \in [1 .. n -> Seq(S)]
      BY <1>1, <2>3, <2>4, ConcatProperties
    <2>6. ASSUME NEW i \in 1 .. n
          PROVE  g[i] = IF i = 1 THEN seqs[i] ELSE g[i-1] \o seqs[i]
      <3>1. CASE i = 1
        BY <3>1
      <3>2. CASE i = 2
        <4>1. 1 \in 1 .. n /\ 2 \in 1 .. n /\ 1 \in 1 .. n - 1 /\ 2 - 1 = 1 /\ 1 + 1 = 2 /\ 2 # 1
          BY <1>1, <3>2
        <4>2. g[2] = seqs[1] \o f[1] /\ g[1] = seqs[1]
          BY <4>1
        <4>3. f[1] = rest[1] /\ rest[1] = seqs[2]
          BY <1>1, <2>1, <4>1 DEF JoinsFirst
        <4> HIDE DEF g
        <4> QED
          BY <3>2, <4>1, <4>2, <4>3
      <3>3. CASE i # 1 /\ i # 2
        <4>1. /\ i - 1 \in 1 .. n /\ i - 1 # 1 /\ i - 1 \in 1 .. n - 1 /\ i - 2 \in 1 .. n - 1
              /\ (i - 1) - 1 = i - 2 /\ (i - 1) + 1 = i
          BY <1>1, <3>3
        <4>2. g[i] = seqs[1] \o f[i - 1] /\ g[i - 1] = seqs[1] \o f[i - 2]
          BY <3>3, <4>1
        <4>3. f[i - 1] = f[i - 2] \o rest[i - 1] /\ rest[i - 1] = seqs[i]
          BY <1>1, <2>1, <4>1 DEF JoinsFirst
        <4>4. f[i - 2] \in Seq(S) /\ seqs[i] \in Seq(S)
          BY <2>4, <4>1, ElementOfSeq
        <4>5. seqs[1] \o (f[i - 2] \o seqs[i]) = (seqs[1] \o f[i - 2]) \o seqs[i]
          <5> DEFINE a == seqs[1]
                     b == f[i - 2]
                     c == seqs[i]
          <5>1. a \in Seq(S) /\ b \in Seq(S) /\ c \in Seq(S)
            BY <1>1, <4>4
          <5> HIDE DEF a, b, c, g, n
          <5>2. a \o (b \o c) = (a \o b) \o c
            BY ONLY <5>1, Associative
          <5> QED
            BY Zenon, <5>2 DEF a, b, c
        <4> HIDE DEF g
        <4> QED
          BY <3>3, <4>2, <4>3, <4>5
      <3> QED
        BY <3>1, <3>2, <3>3
    <2>8. g[n] = seqs[1] \o f[n - 1]
      <3>1. n \in 1 .. n /\ n # 1
        BY <1>1, <1>3
      <3> HIDE DEF n
      <3> QED
        BY Zenon, <3>1
    <2>7. FlattenSeq(seqs) = g[n]
      <3>1. JoinsFirst(g, seqs, n, S)
        <4> HIDE DEF g
        <4> QED
          BY <2>5, <2>6 DEF JoinsFirst
      <3> HIDE DEF g
      <3> QED
        BY <1>1, <3>1, FlattenIs
    <2> HIDE DEF g
    <2> QED
      BY <1>1, <2>2, <2>7, <2>8 DEF rest
  <1> QED
    BY <1>2, <1>3

\* What is in one of the sequences is in the whole.
LEMMA FlattenHolds ==
  ASSUME NEW S, NEW seqs \in Seq(Seq(S)), NEW i \in 1 .. Len(seqs), NEW j \in 1 .. Len(seqs[i])
  PROVE  \E k \in 1 .. Len(FlattenSeq(seqs)) : FlattenSeq(seqs)[k] = seqs[i][j]
  <1> DEFINE n == Len(seqs)
             x == seqs[i][j]
  <1>1. n \in Nat /\ n # 0 /\ \A m \in 1 .. n : seqs[m] \in Seq(S) /\ Len(seqs[m]) \in Nat
    BY LenProperties, ElementOfSeq
  <1>2. PICK f : JoinsFirst(f, seqs, n, S)
    BY <1>1, JoinsExist
  <1> DEFINE In(m) == \E k \in 1 .. Len(f[m]) : f[m][k] = x
             T == {m \in i .. n : ~In(m)}
  <1>3. ASSUME NEW m \in T, \A k \in T : m <= k PROVE FALSE
    <2>1. m \in 1 .. n /\ m \in i .. n /\ ~In(m)
      BY <1>1
    <2>2. CASE m = 1
      <3>1. i = 1 /\ f[1] = seqs[1]
        <4>1. i = 1
          BY <1>1, <2>2
        <4> QED
          BY <1>2, <2>1, <2>2, <4>1 DEF JoinsFirst
      <3> QED
        BY <2>2, <3>1
    <2>3. CASE m # 1
      <3> DEFINE u == f[m - 1]
                 v == seqs[m]
      <3>1. f[m] = u \o v /\ u \in Seq(S) /\ v \in Seq(S) /\ m - 1 \in 1 .. n
        <4>1. m - 1 \in 1 .. n
          BY <1>1, <2>1, <2>3
        <4>2. f[m] = u \o v
          BY <1>2, <2>1, <2>3 DEF JoinsFirst
        <4>3. u \in Seq(S) /\ v \in Seq(S)
          BY <1>1, <1>2, <2>1, <4>1 DEF JoinsFirst
        <4> QED
          BY <4>1, <4>2, <4>3
      <3>2. /\ Len(u) \in Nat /\ Len(v) \in Nat /\ Len(u \o v) = Len(u) + Len(v)
            /\ \A k \in 1 .. Len(u) + Len(v) :
                 (u \o v)[k] = IF k <= Len(u) THEN u[k] ELSE v[k - Len(u)]
        BY <3>1, ConcatProperties, LenProperties
      <3>3. CASE m = i
        <4>0. j \in 1 .. Len(v) /\ v[j] = x
          BY <3>3
        <4>1. Len(u) + j \in 1 .. Len(u) + Len(v) /\ ~(Len(u) + j <= Len(u)) /\ (Len(u) + j) - Len(u) = j
          <5> HIDE DEF u, v
          <5> QED
            BY <3>2, <4>0
        <4>2. (u \o v)[Len(u) + j] = x
          BY <3>2, <4>0, <4>1
        <4> QED
          BY <2>1, <3>1, <3>2, <4>1, <4>2
      <3>4. CASE m # i
        <4>1. m - 1 \in i .. n /\ ~(m <= m - 1)
          BY <1>1, <2>1, <3>4
        <4>5. In(m - 1)
          BY <1>3, <4>1
        <4>2. PICK k \in 1 .. Len(u) : u[k] = x
          BY <4>5
        <4>3. k \in 1 .. Len(u) + Len(v) /\ k <= Len(u)
          <5> HIDE DEF u, v
          <5> QED
            BY <3>2
        <4>4. (u \o v)[k] = x
          BY <3>2, <4>2, <4>3
        <4> QED
          BY <2>1, <3>1, <3>2, <4>3, <4>4
      <3> QED
        BY <3>3, <3>4
    <2> QED
      BY <2>2, <2>3
  <1>4. T = {}
    <2>1. T \subseteq Nat
      BY <1>1
    <2> QED
      BY <1>3, <2>1, Least
  <1>5. In(n)
    <2>1. n \in i .. n
      BY <1>1
    <2> QED
      BY <1>4, <2>1
  <1>6. FlattenSeq(seqs) = f[n]
    BY <1>1, <1>2, FlattenIs
  <1> QED
    BY <1>5, <1>6

LEMMA Parts ==
  ASSUME NEW S, NEW u \in Seq(S), NEW n \in 0 .. Len(u)
  PROVE  /\ SubSeq(u, 1, n) \in Seq(S) /\ Len(SubSeq(u, 1, n)) = n
         /\ \A i \in 1 .. n : SubSeq(u, 1, n)[i] = u[i]
  <1>1. Len(u) \in Nat /\ \A i \in 1 .. n : u[i] \in S
    BY LenProperties, ElementOfSeq
  <1> QED
    BY <1>1, SubSeqProperties

\* What is cut off behind a place is not in what lies before it.
LEMMA CutTwice ==
  ASSUME NEW S, NEW u \in Seq(S), NEW n \in 0 .. Len(u)
  PROVE  SubSeq(SubSeq(u, 1, n), 1, n) = SubSeq(u, 1, n)
  <1> DEFINE v == SubSeq(u, 1, n)
  <1>1. v \in Seq(S) /\ Len(v) = n
    BY Parts
  <1> HIDE DEF v
  <1>2. SubSeq(v, 1, Len(v)) = v
    BY <1>1, SubSeqFull
  <1> QED
    BY <1>1, <1>2 DEF v

LEMMA Glued ==
  ASSUME NEW S, NEW a \in Seq(S), NEW x \in S, NEW c \in Seq(S)
  PROVE  /\ a \o <<x>> \o c \in Seq(S)
         /\ Len(a \o <<x>> \o c) = Len(a) + 1 + Len(c) /\ Len(a) \in Nat /\ Len(c) \in Nat
         /\ \A i \in 1 .. Len(a) : (a \o <<x>> \o c)[i] = a[i]
         /\ (a \o <<x>> \o c)[Len(a) + 1] = x
  <1> DEFINE b == Append(a, x)
  <1>1. /\ b \in Seq(S) /\ Len(b) = Len(a) + 1 /\ Len(a) \in Nat /\ Len(c) \in Nat
        /\ \A i \in 1 .. Len(a) : b[i] = a[i]
        /\ b[Len(a) + 1] = x
    BY AppendProperties, LenProperties
  <1>2. a \o <<x>> = b
    BY AppendIsConcat
  <1> HIDE DEF b
  <1>3. /\ b \o c \in Seq(S) /\ Len(b \o c) = Len(b) + Len(c)
        /\ \A i \in 1 .. Len(b) + Len(c) : (b \o c)[i] = IF i <= Len(b) THEN b[i] ELSE c[i - Len(b)]
    BY <1>1, ConcatProperties
  <1>4. /\ b \o c \in Seq(S) /\ Len(b \o c) = Len(a) + 1 + Len(c)
        /\ \A i \in 1 .. Len(a) : (b \o c)[i] = a[i]
        /\ (b \o c)[Len(a) + 1] = x
    BY <1>1, <1>3
  <1> QED
    BY Zenon, <1>1, <1>2, <1>4

\* A character is stored at the place p of an array.
StoreAt(u, p, x) == SubSeq(u, 1, p - 1) \o <<x>> \o SubSeq(u, p + 1, Len(u))

LEMMA Stored ==
  ASSUME NEW S, NEW u \in Seq(S), NEW p \in 1 .. Len(u) + 1, NEW x \in S
  PROVE  /\ StoreAt(u, p, x) \in Seq(S)
         /\ p <= Len(StoreAt(u, p, x)) /\ Len(u) <= Len(StoreAt(u, p, x))
         /\ \A i \in 1 .. p - 1 : StoreAt(u, p, x)[i] = u[i]
         /\ StoreAt(u, p, x)[p] = x
  <1> DEFINE a == SubSeq(u, 1, p - 1)
             c == SubSeq(u, p + 1, Len(u))
             v == StoreAt(u, p, x)
  <1>0. Len(u) \in Nat /\ p \in Nat \ {0} /\ p - 1 \in 0 .. Len(u)
    BY LenProperties
  <1>1. a \in Seq(S) /\ Len(a) = p - 1 /\ \A i \in 1 .. p - 1 : a[i] = u[i]
    BY <1>0, Parts
  <1>2. c \in Seq(S) /\ Len(c) = IF p + 1 <= Len(u) THEN Len(u) - (p + 1) + 1 ELSE 0
    <2>1. \A i \in p + 1 .. Len(u) : u[i] \in S
      BY <1>0, ElementOfSeq
    <2> QED
      BY <1>0, <2>1, SubSeqProperties
  <1>3. v = a \o <<x>> \o c
    BY Zenon DEF StoreAt
  <1> HIDE DEF a, c, v
  <1>4. /\ v \in Seq(S) /\ Len(v) = Len(a) + 1 + Len(c) /\ Len(c) \in Nat
        /\ \A i \in 1 .. Len(a) : v[i] = a[i]
        /\ v[Len(a) + 1] = x
    <2>1. a \in Seq(S) /\ c \in Seq(S)
      BY <1>1, <1>2
    <2> QED
      BY ONLY <2>1, <1>3, x \in S, Glued
  <1>5. Len(a) + 1 = p /\ p <= Len(v) /\ Len(u) <= Len(v)
    BY <1>0, <1>1, <1>2, <1>4
  <1>6. v[p] = x /\ \A i \in 1 .. p - 1 : v[i] = u[i]
    BY <1>0, <1>1, <1>4, <1>5
  <1> QED
    BY Zenon, <1>4, <1>5, <1>6 DEF a, v

LEMMA StoredEnd ==
  ASSUME NEW S, NEW u \in Seq(S), NEW p \in 1 .. Len(u) + 1, NEW x \in S
  PROVE  SubSeq(StoreAt(u, p, x), 1, p) = Append(SubSeq(u, 1, p - 1), x)
  <1> DEFINE a == SubSeq(u, 1, p - 1)
             v == StoreAt(u, p, x)
             d == SubSeq(v, 1, p)
             e == Append(a, x)
  <1>0. Len(u) \in Nat /\ p \in Nat \ {0} /\ p - 1 \in 0 .. Len(u)
    BY LenProperties
  <1>1. a \in Seq(S) /\ Len(a) = p - 1 /\ \A i \in 1 .. p - 1 : a[i] = u[i]
    BY <1>0, Parts
  <1>2. /\ v \in Seq(S) /\ p <= Len(v) /\ Len(v) \in Nat
        /\ v[p] = x /\ \A i \in 1 .. p - 1 : v[i] = u[i]
    <2>1. /\ v \in Seq(S) /\ p <= Len(v)
          /\ v[p] = x /\ \A i \in 1 .. p - 1 : v[i] = u[i]
      BY Stored
    <2> HIDE DEF v
    <2> QED
      BY <2>1, LenProperties
  <1> HIDE DEF a, v
  <1>3. d \in Seq(S) /\ Len(d) = p /\ \A i \in 1 .. p : d[i] = v[i]
    <2>1. p \in 0 .. Len(v)
      BY <1>0, <1>2
    <2> QED
      BY <1>2, <2>1, Parts
  <1>4. e \in Seq(S) /\ Len(e) = p /\ (\A i \in 1 .. p - 1 : e[i] = a[i]) /\ e[p] = x
    BY <1>0, <1>1, AppendProperties
  <1> HIDE DEF d, e
  <1>5. \A i \in 1 .. p : d[i] = e[i]
    BY <1>0, <1>1, <1>2, <1>3, <1>4
  <1>6. d = e
    BY ONLY <1>3, <1>4, <1>5, SeqEqual
  <1> QED
    BY Zenon, <1>6 DEF d, e, a, v

LEMMA InConcat ==
  ASSUME NEW S, NEW u \in Seq(S), NEW v \in Seq(S)
  PROVE  ToSet(u \o v) = ToSet(u) \cup ToSet(v)
  <1> DEFINE w == u \o v
  <1>1. /\ Len(u) \in Nat /\ Len(v) \in Nat /\ w \in Seq(S) /\ Len(w) = Len(u) + Len(v)
        /\ \A i \in 1 .. Len(u) + Len(v) : w[i] = IF i <= Len(u) THEN u[i] ELSE v[i - Len(u)]
    BY ConcatProperties, LenProperties
  <1> HIDE DEF w
  <1>2. DOMAIN u = 1 .. Len(u) /\ DOMAIN v = 1 .. Len(v) /\ DOMAIN w = 1 .. Len(u) + Len(v)
    BY <1>1, LenProperties
  <1>3. ASSUME NEW i \in 1 .. Len(u) + Len(v) PROVE w[i] \in ToSet(u) \cup ToSet(v)
    <2>1. i <= Len(u) => i \in 1 .. Len(u)
      BY <1>1
    <2>2. ~(i <= Len(u)) => i - Len(u) \in 1 .. Len(v)
      BY <1>1
    <2> QED
      BY <1>1, <1>2, <2>1, <2>2 DEF ToSet
  <1>4. ASSUME NEW i \in 1 .. Len(u) PROVE u[i] \in ToSet(w)
    <2>1. i \in 1 .. Len(u) + Len(v) /\ i <= Len(u)
      BY <1>1
    <2> QED
      BY <1>1, <1>2, <2>1 DEF ToSet
  <1>5. ASSUME NEW i \in 1 .. Len(v) PROVE v[i] \in ToSet(w)
    <2>1. Len(u) + i \in 1 .. Len(u) + Len(v) /\ ~(Len(u) + i <= Len(u)) /\ (Len(u) + i) - Len(u) = i
      BY <1>1
    <2>2. w[Len(u) + i] = v[i]
      BY <1>1, <2>1
    <2> QED
      BY <1>2, <2>1, <2>2 DEF ToSet
  <1> QED
    BY <1>2, <1>3, <1>4, <1>5 DEF ToSet, w

-----------------------------------------------------------------------------
(* The calls a thread is given *)

Out(c) == <<c, "out">>
Err(c) == <<c, "err">>

\* Messages, the calls that print other things, and flushes.
Lines ==
  {c \in Calls : c.s[2] = "err" /\ c.kind = IF c.op = "put" THEN "newline" ELSE "char"}
Prints == {c \in Calls : c.op = "put" /\ (c.s[2] = "err" => c.kind = "char")}
Syncs == {Sync(s) : s \in Streams}

AllSynced(cs) == \A s \in Streams : \E i \in 1 .. Len(cs) : cs[i] = Sync(s)

LEMMA CallTypes == Lines \subseteq Calls /\ Prints \subseteq Calls /\ Syncs \subseteq Calls
  BY DEF Lines, Prints, Syncs, Calls, Streams, Sinks, Kinds, Put, Sync, Out, Err

LEMMA SetToSeqIs ==
  ASSUME NEW D, IsFiniteSet(D)
  PROVE  /\ Cardinality(D) \in Nat /\ SetToSeq(D) \in [1 .. Cardinality(D) -> D]
         /\ \A x \in D : \E i \in 1 .. Cardinality(D) : SetToSeq(D)[i] = x
  <1> DEFINE n == Cardinality(D)
             Is(f) == f \in [1 .. n -> D] /\ IsInjective(f)
             g == SetToSeq(D)
  <1>1. n \in Nat /\ \E f : f \in Bijection(1 .. n, D)
    BY FS_CardinalityType DEF ExistsBijection
  <1>2. \E f : Is(f)
    BY <1>1 DEF Bijection, Injection
  <1>3. g = CHOOSE f \in [1 .. n -> D] : IsInjective(f)
    BY DEF SetToSeq
  <1>4. Is(g)
    <2> HIDE DEF g, n
    <2> QED
      BY <1>2, <1>3
  <1>5. g \in Injection(1 .. n, D)
    BY <1>4 DEF Injection
  <1>6. IsFiniteSet(1 .. n) /\ Cardinality(1 .. n) = n
    BY <1>1, FS_Interval
  <1>7. g \in Surjection(1 .. n, D)
    BY <1>5, <1>6, FS_Injection
  <1> QED
    BY <1>1, <1>4, <1>7 DEF Surjection

LEMMA ErrorIsLines == \A c \in Ctxs : Error(c) \in Seq(Lines)
  <1>1. \A c \in Ctxs : Put(Err(c), "newline") \in Lines /\ Sync(Err(c)) \in Lines
    BY DEF Lines, Calls, Put, Sync, Err, Streams, Sinks, Kinds
  <1>2. \A x, y \in Lines : <<x, y>> \in Seq(Lines)
    OBVIOUS
  <1> QED
    BY Zenon, <1>1, <1>2 DEF Error, Err

LEMMA ErrorsAreLines ==
  ASSUME NEW D, D \subseteq Ctxs
  PROVE  Errors(D) \in Seq(Lines)
  <1> DEFINE n == Cardinality(D)
             seqs == [i \in 1 .. n |-> Error(SetToSeq(D)[i])]
  <1>1. IsFiniteSet(D)
    BY ConsoleAssumption, FS_Subset DEF ConsoleAssumption
  <1>2. n \in Nat /\ \A i \in 1 .. n : SetToSeq(D)[i] \in Ctxs
    BY <1>1, SetToSeqIs
  <1>3. \A c \in Ctxs : Error(c) \in Seq(Lines)
    BY ErrorIsLines
  <1>4. seqs \in Seq(Seq(Lines))
    BY <1>2, <1>3
  <1> HIDE DEF seqs
  <1>5. FlattenSeq(seqs) \in Seq(Lines)
    BY <1>4, FlattenType
  <1> QED
    BY Zenon, <1>5 DEF Errors, seqs

LEMMA SyncAllIs ==
  ASSUME NEW kinds \in {<<"out", "err">>, <<"err", "out">>}
  PROVE  SyncAll(kinds) \in Seq(Syncs) /\ AllSynced(SyncAll(kinds))
  <1> DEFINE n == Cardinality(Ctxs)
             C == SetToSeq(Ctxs)
             seqs == [i \in 1 .. n |-> [j \in 1 .. Len(kinds) |-> Sync(<<C[i], kinds[j]>>)]]
  <1>1. /\ n \in Nat /\ \A i \in 1 .. n : C[i] \in Ctxs
        /\ \A c \in Ctxs : \E i \in 1 .. n : C[i] = c
    BY ConsoleAssumption, SetToSeqIs DEF ConsoleAssumption
  <1>2. /\ Len(kinds) = 2 /\ \A j \in 1 .. 2 : kinds[j] \in Sinks
        /\ \A k \in Sinks : \E j \in 1 .. 2 : kinds[j] = k
    <2>1. CASE kinds = <<"out", "err">>
      BY <2>1 DEF Sinks
    <2>2. CASE kinds = <<"err", "out">>
      BY <2>2 DEF Sinks
    <2> QED
      BY <2>1, <2>2
  <1> HIDE DEF n, C
  <1>3. \A i \in 1 .. n : seqs[i] = [j \in 1 .. 2 |-> Sync(<<C[i], kinds[j]>>)]
    BY <1>2
  <1>4. \A i \in 1 .. n : \A j \in 1 .. 2 : Sync(<<C[i], kinds[j]>>) \in Syncs
    BY <1>1, <1>2 DEF Syncs, Streams
  <1>5. seqs \in Seq(Seq(Syncs)) /\ Len(seqs) = n
    BY <1>1, <1>2, <1>4
  <1>6. SyncAll(kinds) = FlattenSeq(seqs)
    BY Zenon DEF SyncAll, n, C
  <1> HIDE DEF seqs
  <1>7. FlattenSeq(seqs) \in Seq(Syncs)
    BY <1>5, FlattenType
  <1>8. ASSUME NEW s \in Streams
        PROVE  \E k \in 1 .. Len(FlattenSeq(seqs)) : FlattenSeq(seqs)[k] = Sync(s)
    <2>1. PICK c \in Ctxs, k \in Sinks : s = <<c, k>>
      BY DEF Streams
    <2>2. PICK i \in 1 .. n, j \in 1 .. 2 : C[i] = c /\ kinds[j] = k
      BY <1>1, <1>2
    <2>3. Len(seqs[i]) = 2 /\ seqs[i][j] = Sync(s)
      <3> DEFINE row == [m \in 1 .. 2 |-> Sync(<<C[i], kinds[m]>>)]
      <3>1. row[j] = Sync(s)
        BY <2>1, <2>2
      <3>2. Len(row) = 2
        OBVIOUS
      <3>3. seqs[i] = row
        BY <1>3
      <3> QED
        BY Zenon, <3>1, <3>2, <3>3
    <2>4. i \in 1 .. Len(seqs) /\ j \in 1 .. Len(seqs[i])
      BY <1>5, <2>3
    <2>5. \E m \in 1 .. Len(FlattenSeq(seqs)) : FlattenSeq(seqs)[m] = seqs[i][j]
      BY <1>5, <2>4, FlattenHolds
    <2> QED
      BY <2>3, <2>5
  <1> QED
    BY <1>6, <1>7, <1>8 DEF AllSynced

-----------------------------------------------------------------------------
(* The steps of Next: those in a stream, those that give a thread something   *)
(* to do or take it to its next state, Start and Deliver                      *)

Hands(t, cs) ==
  /\ calls[t] = <<>> /\ calls' = [calls EXCEPT ![t] = cs]
  /\ UNCHANGED <<written, buf, pptr, taken, queue, arrived>>

SimHands(cs) ==
  /\ Hands("sim", cs) /\ UNCHANGED <<main, ctx, pane, missed>>
  /\ \/ sim = "idle" /\ sim' = "cycle" /\ cs \in Seq(Lines \cup Prints)
     \/ sim \in {"cycle", "report"} /\ sim' \in {"idle", "report"} /\ cs \in Seq(Lines)
     \/ /\ sim \in {"idle", "cycle"} /\ sim' = "flush"
        /\ cs \in Seq(Lines \cup Syncs) /\ AllSynced(cs)
     \/ sim = "flush" /\ sim' = "exited" /\ cs = <<>>

MainHands(cs) ==
  /\ Hands("main", cs) /\ UNCHANGED sim
  /\ ctx' \in Ctxs /\ pane' \in [Sinks -> Seq(Nat)] /\ missed' \in BOOLEAN
  /\ \/ main # "build" /\ main' \in MainPc \ {"build"} /\ cs \in Seq(Lines)
     \/ /\ main = "join" /\ sim = "exited" /\ main' = "build"
        /\ cs \in Seq(Syncs) /\ AllSynced(cs)
     \/ main = "build" /\ main' = "build" /\ cs \in Seq(Lines)

LEMMA ErrorsThenFlush ==
  ASSUME NEW D, D \subseteq Ctxs
  PROVE  /\ Errors(D) \o FinalFlush \in Seq(Lines \cup Syncs) /\ AllSynced(Errors(D) \o FinalFlush)
         /\ FinalFlush \in Seq(Lines \cup Syncs) /\ AllSynced(FinalFlush)
  <1> DEFINE a == Errors(D)
             b == FinalFlush
             T == Lines \cup Syncs
  <1>1. a \in Seq(Lines)
    BY ErrorsAreLines
  <1>2. b \in Seq(Syncs) /\ AllSynced(b)
    BY SyncAllIs DEF FinalFlush
  <1> HIDE DEF a, b
  <1>3. a \in Seq(T) /\ b \in Seq(T)
    BY <1>1, <1>2, SeqMonotonic
  <1> HIDE DEF T
  <1>4. /\ a \o b \in Seq(T) /\ Len(a \o b) = Len(a) + Len(b) /\ Len(a) \in Nat /\ Len(b) \in Nat
        /\ \A i \in 1 .. Len(a) + Len(b) : (a \o b)[i] = IF i <= Len(a) THEN a[i] ELSE b[i - Len(a)]
    BY <1>3, ConcatProperties, LenProperties
  <1>5. ASSUME NEW s \in Streams
        PROVE  \E i \in 1 .. Len(a \o b) : (a \o b)[i] = Sync(s)
    <2>1. PICK i \in 1 .. Len(b) : b[i] = Sync(s)
      BY <1>2 DEF AllSynced
    <2>2. /\ Len(a) + i \in 1 .. Len(a) + Len(b) /\ ~(Len(a) + i <= Len(a))
          /\ (Len(a) + i) - Len(a) = i
      BY <1>4
    <2>3. (a \o b)[Len(a) + i] = Sync(s)
      BY <1>4, <2>1, <2>2
    <2> QED
      BY <1>4, <2>2, <2>3
  <1> QED
    BY <1>2, <1>3, <1>4, <1>5 DEF AllSynced, a, b, T

LEMMA PrintedIs == Printed \subseteq Seq(Lines \cup Prints)
  <1> DEFINE T == Lines \cup Prints
  <1>1. <<>> \in Seq(T)
    OBVIOUS
  <1>2. \A c \in Ctxs, k \in Kinds : Put(<<c, "out">>, k) \in T
    BY DEF Prints, Calls, Put, Streams, Sinks
  <1>3. \A c \in Ctxs : Put(<<c, "err">>, "char") \in T
    BY DEF Prints, Calls, Put, Streams, Sinks, Kinds
  <1>4. \A c \in Ctxs : Error(c) \in Seq(T)
    BY ErrorIsLines, SeqMonotonic
  <1>5. \A x \in T : <<x>> \in Seq(T)
    OBVIOUS
  <1>6. Talking \subseteq Ctxs
    BY ConsoleAssumption DEF ConsoleAssumption
  <1> HIDE DEF T
  <1>7. \A c \in Talking, k \in Kinds : <<Put(<<c, "out">>, k)>> \in Seq(T)
    BY <1>2, <1>5, <1>6
  <1>8. \A c \in Talking : <<Put(<<c, "err">>, "char")>> \in Seq(T) /\ Error(c) \in Seq(T)
    BY <1>3, <1>4, <1>5, <1>6
  <1>9. ASSUME NEW cs \in Printed PROVE cs \in Seq(T)
    <2>1. \/ cs = <<>>
          \/ \E c \in Talking, k \in Kinds : cs = <<Put(<<c, "out">>, k)>>
          \/ \E c \in Talking : cs = Error(c) \/ cs = <<Put(<<c, "err">>, "char")>>
      <3> DEFINE A == {<<Put(<<c, "out">>, k)>> : c \in Talking, k \in Kinds}
                 B == {Error(c) : c \in Talking}
                 C == {<<Put(<<c, "err">>, "char")>> : c \in Talking}
      <3>1. Printed = {<<>>} \cup A \cup B \cup C
        BY DEF Printed
      <3>2. cs \in A => \E c \in Talking, k \in Kinds : cs = <<Put(<<c, "out">>, k)>>
        OBVIOUS
      <3>3. cs \in B \cup C => \E c \in Talking : cs = Error(c) \/ cs = <<Put(<<c, "err">>, "char")>>
        BY Zenon
      <3> HIDE DEF A, B, C
      <3> QED
        BY Zenon, <3>1, <3>2, <3>3
    <2> QED
      BY Zenon, <1>1, <1>7, <1>8, <2>1
  <1> QED
    BY <1>9 DEF T

\* The pages' contexts and texts are what they should be.
PageOK ==
  /\ ctx \in Ctxs /\ pane \in [Sinks -> Seq(Nat)] /\ missed \in BOOLEAN
  /\ arrived \in [Streams -> Seq(Nat)]

LEMMA NextSteps ==
  ASSUME PageOK, main \in MainPc, Next
  PROVE  \/ StreamStep("sim") \/ StreamStep("main")
         \/ (\E cs : SimHands(cs)) \/ (\E cs : MainHands(cs))
         \/ Start \/ Deliver
  <1> DEFINE Goal == \/ StreamStep("sim") \/ StreamStep("main")
                     \/ (\E cs : SimHands(cs)) \/ (\E cs : MainHands(cs))
                     \/ Start \/ Deliver
  <1> HIDE DEF Goal
  <1>0. Talking \subseteq Ctxs
    BY ConsoleAssumption DEF ConsoleAssumption
  <1>1. <<>> \in Seq(Lines)
    OBVIOUS
  <1>2. ASSUME SimCycle PROVE Goal
    <2>1. PICK cs \in Printed : SimStep("idle", "cycle", cs) /\ main' = main
      BY <1>2 DEF SimCycle
    <2>2. cs \in Seq(Lines \cup Prints)
      BY PrintedIs
    <2>3. SimHands(cs)
      BY <2>1, <2>2 DEF SimHands, Hands, SimStep, Call, OnlyCalls, page
    <2> QED
      BY <2>3 DEF Goal
  <1>3. ASSUME SimGoOn \/ SimReported PROVE Goal
    <2>1. SimHands(<<>>)
      BY <1>1, <1>3 DEF SimGoOn, SimReported, SimHands, Hands, SimStep, Call, OnlyCalls, page
    <2> QED
      BY <2>1 DEF Goal
  <1>4. ASSUME SimBreakpoint PROVE Goal
    <2>1. PICK D \in SUBSET Talking : SimStep("cycle", "report", Errors(D)) /\ main' = main
      BY <1>4 DEF SimBreakpoint
    <2>2. Errors(D) \in Seq(Lines)
      BY <1>0, ErrorsAreLines
    <2>3. SimHands(Errors(D))
      BY <2>1, <2>2 DEF SimHands, Hands, SimStep, Call, OnlyCalls, page
    <2> QED
      BY <2>3 DEF Goal
  <1>5. ASSUME SimFinish PROVE Goal
    <2>1. PICK D \in SUBSET Talking : SimStep("cycle", "flush", Errors(D) \o FinalFlush) /\ main' = main
      BY <1>5 DEF SimFinish
    <2> DEFINE cs == Errors(D) \o FinalFlush
    <2>2. cs \in Seq(Lines \cup Syncs) /\ AllSynced(cs)
      BY <1>0, ErrorsThenFlush
    <2> HIDE DEF cs
    <2>3. SimHands(cs)
      BY <2>1, <2>2 DEF SimHands, Hands, SimStep, Call, OnlyCalls, page, cs
    <2> QED
      BY <2>3 DEF Goal
  <1>6. ASSUME SimStop PROVE Goal
    <2>1. FinalFlush \in Seq(Lines \cup Syncs) /\ AllSynced(FinalFlush)
      BY ErrorsThenFlush
    <2>2. SimHands(FinalFlush)
      BY <1>6, <2>1 DEF SimStop, SimHands, Hands, SimStep, Call, OnlyCalls, page
    <2> QED
      BY <2>2 DEF Goal
  <1>7. ASSUME SimExit PROVE Goal
    <2>1. SimHands(<<>>)
      BY <1>7 DEF SimExit, SimHands, Hands, SimStep, Call, OnlyCalls, page
    <2> QED
      BY <2>1 DEF Goal
  <1>8. ASSUME Breakpoint PROVE Goal
    <2>1. PICK c \in Talking : MainStep("idle", "report", Error(c))
      BY <1>8 DEF Breakpoint
    <2>2. Error(c) \in Seq(Lines)
      BY <1>0, ErrorIsLines
    <2>3. MainHands(Error(c))
      BY <1>8, <2>1, <2>2 DEF Breakpoint, MainHands, Hands, MainStep, Call, OnlyCalls, page, PageOK, MainPc
    <2> QED
      BY <2>3 DEF Goal
  <1>9. ASSUME BreakpointReturn \/ SwitchMiss \/ SwitchClick PROVE Goal
    <2>1. MainHands(<<>>)
      BY <1>1, <1>9 DEF BreakpointReturn, SwitchMiss, SwitchClick, Announced, MainHands, Hands,
                        MainStep, Call, OnlyCalls, page, PageOK, MainPc
    <2> QED
      BY <2>1 DEF Goal
  <1>10. ASSUME SwitchShow PROVE Goal
    <2>1. \A k \in Sinks : arrived[<<ctx, k>>] \in Seq(Nat)
      BY DEF PageOK, Streams
    <2>2. MainHands(<<>>)
      BY <1>1, <1>10, <2>1 DEF SwitchShow, MainHands, Hands, MainStep, Call, PageOK, MainPc
    <2> QED
      BY <2>2 DEF Goal
  <1>11. ASSUME ResetClick PROVE Goal
    <2>1. <<>> \in Seq(Nat)
      OBVIOUS
    <2>2. MainHands(<<>>)
      BY <1>1, <1>11, <2>1 DEF ResetClick, MainHands, Hands, MainStep, Call, MainPc
    <2> QED
      BY <2>2 DEF Goal
  <1>12. ASSUME Join PROVE Goal
    <2> DEFINE cs == SyncAll(<<"err", "out">>)
    <2>1. cs \in Seq(Syncs) /\ AllSynced(cs)
      BY SyncAllIs
    <2> HIDE DEF cs
    <2>2. MainHands(cs)
      BY <1>12, <2>1 DEF Join, MainHands, Hands, MainStep, Call, OnlyCalls, page, PageOK, cs
    <2> QED
      BY <2>2 DEF Goal
  <1>13. ASSUME BuildError PROVE Goal
    <2>1. PICK c \in Talking : MainStep("build", "build", Error(c))
      BY <1>13 DEF BuildError
    <2>2. Error(c) \in Seq(Lines)
      BY <1>0, ErrorIsLines
    <2>3. MainHands(Error(c))
      BY <1>13, <2>1, <2>2 DEF BuildError, MainHands, Hands, MainStep, Call, OnlyCalls, page, PageOK
    <2> QED
      BY <2>3 DEF Goal
  <1>14. ASSUME StreamStep("sim") \/ StreamStep("main") \/ Start \/ Deliver PROVE Goal
    BY <1>14 DEF Goal
  <1>15. Goal
    BY Zenon, <1>2, <1>3, <1>4, <1>5, <1>6, <1>7, <1>8, <1>9, <1>10, <1>11, <1>12, <1>13, <1>14
    DEF Next, SimThread, MainThread, Clicks
  <1> QED
    BY <1>15 DEF Goal

-----------------------------------------------------------------------------
(* Types, arrays and threads *)

\* A thread is about to take what a stream holds.
ToSync(t, s) == calls[t] # <<>> /\ Head(calls[t]) = Sync(s) /\ taken[t] = 0
Waiting(t, s) == IF ToSync(t, s) THEN 1 ELSE 0

\* What a thread has taken is in the array, and so is what lies before the put pointer,
\* which does not pass the end by more than one for each thread that is about to flush.
ArraysHold ==
  /\ \A t \in Threads : taken[t] # 0 => Doing(t) = "sync" /\ taken[t] <= Len(buf[Stream(t)])
  /\ \A s \in Streams : /\ pptr[s] <= Len(buf[s])
                        /\ pptr[s] < BufferSize + Waiting("sim", s) + Waiting("main", s)

\* While the page builds images there is no simulator thread.
BuildsAlone ==
  /\ main = "build" => sim \in {"none", "exited"}
  /\ sim \in {"none", "exited"} => calls["sim"] = <<>>

Base == TypeOK /\ ArraysHold /\ BuildsAlone

LEMMA HeadCall ==
  ASSUME TypeOK, NEW t \in Threads, calls[t] # <<>>
  PROVE  /\ calls[t] \in Seq(Calls) /\ Head(calls[t]) \in Calls /\ Tail(calls[t]) \in Seq(Calls)
         /\ Stream(t) \in Streams /\ Doing(t) = Head(calls[t]).op /\ Head(calls[t]) = calls[t][1]
         /\ Len(calls[t]) \in Nat \ {0} /\ Len(Tail(calls[t])) = Len(calls[t]) - 1
         /\ \A i \in 1 .. Len(calls[t]) - 1 : Tail(calls[t])[i] = calls[t][i + 1]
  <1>1. calls[t] \in Seq(Calls)
    BY DEF TypeOK
  <1> DEFINE cs == calls[t]
  <1> HIDE DEF cs
  <1>2. cs # <<>> /\ cs \in Seq(Calls)
    BY <1>1 DEF cs
  <1>3. /\ Head(cs) \in Calls /\ Tail(cs) \in Seq(Calls) /\ Head(cs) = cs[1]
        /\ Len(cs) \in Nat \ {0} /\ Len(Tail(cs)) = Len(cs) - 1
        /\ \A i \in 1 .. Len(cs) - 1 : Tail(cs)[i] = cs[i + 1]
    BY <1>2, HeadTailProperties, EmptySeq
  <1>4. Head(cs).s \in Streams
    BY <1>3 DEF Calls
  <1>5. Stream(t) \in Streams /\ Doing(t) = Head(cs).op
    BY <1>4 DEF Stream, Doing, cs
  <1> QED
    BY Zenon, <1>2, <1>3, <1>5 DEF cs

\* What putting a character does.
LEMMA Puts ==
  ASSUME Base, NEW t \in Threads, Overflow(t)
  PROVE  /\ calls[t] # <<>> /\ taken[t] = 0 /\ Stream(t) \in Streams
         /\ Head(calls[t]) \in Calls /\ Head(calls[t]).op = "put" /\ Head(calls[t]).kind \in Kinds
         /\ Len(written[Stream(t)]) \in Nat /\ Len(buf[Stream(t)]) \in Nat
         /\ pptr[Stream(t)] \in 0 .. BufferSize /\ pptr[Stream(t)] <= Len(buf[Stream(t)])
         /\ written' = [written EXCEPT ![Stream(t)] = Append(@, Head(calls[t]).kind)]
         /\ written'[Stream(t)] = Append(written[Stream(t)], Head(calls[t]).kind)
         /\ Len(written'[Stream(t)]) = Len(written[Stream(t)]) + 1
         /\ buf' = [buf EXCEPT ![Stream(t)] =
                      StoreAt(@, pptr[Stream(t)] + 1, Len(written[Stream(t)]) + 1)]
         /\ pptr' = [pptr EXCEPT ![Stream(t)] = @ + 1]
  <1> DEFINE s == Stream(t)
             kind == Head(calls[t]).kind
  <1>1. calls[t] # <<>>
    BY DEF Overflow, Doing
  <1>2. s \in Streams /\ Head(calls[t]) \in Calls /\ Head(calls[t]).op = "put"
    BY <1>1, HeadCall DEF Base, Overflow
  <1>3. kind \in Kinds
    BY <1>2 DEF Calls
  <1>4. taken[t] = 0
    BY DEF Overflow, Base, ArraysHold
  <1>5. \A u \in Threads : Waiting(u, s) \in {0, 1}
    BY DEF Waiting
  <1>6. Waiting(t, s) = 0
    BY <1>2 DEF Waiting, ToSync, Sync
  <1>7. BufferSize \in Nat \ {0} /\ pptr[s] \in 0 .. BufferSize + 1
    BY <1>2, ConsoleAssumption DEF ConsoleAssumption, Base, TypeOK
  <1>8. pptr[s] < BufferSize + Waiting("sim", s) + Waiting("main", s) /\ pptr[s] <= Len(buf[s])
    BY <1>2 DEF Base, ArraysHold
  <1>9. pptr[s] \in 0 .. BufferSize
    <2> HIDE DEF s
    <2> QED
      BY <1>5, <1>6, <1>7, <1>8 DEF Threads
  <1>10. written[s] \in Seq(Kinds) /\ buf[s] \in Seq(Nat)
    BY <1>2 DEF Base, TypeOK
  <1>11. /\ Len(written[s]) \in Nat /\ Len(buf[s]) \in Nat
         /\ Len(Append(written[s], kind)) = Len(written[s]) + 1
    BY <1>3, <1>10, AppendProperties, LenProperties
  <1>12. written' = [written EXCEPT ![s] = Append(@, kind)] /\ DOMAIN written = Streams
    BY DEF Overflow, Base, TypeOK
  <1>13. written'[s] = Append(written[s], kind)
    BY <1>2, <1>12
  <1>14. Len(written'[s]) = Len(written[s]) + 1
    BY <1>11, <1>13
  <1>15. buf' = [buf EXCEPT ![s] = StoreAt(@, pptr[s] + 1, Len(written[s]) + 1)]
    <2>1. /\ (pptr[s] + 1) - 1 = pptr[s]
          /\ buf' = [buf EXCEPT ![s] = SubSeq(@, 1, (pptr[s] + 1) - 1) \o <<Len(written'[s])>>
                                         \o SubSeq(@, (pptr[s] + 1) + 1, Len(@))]
      BY <1>7 DEF Overflow
    <2> QED
      BY Zenon, <1>14, <2>1 DEF StoreAt
  <1>16. pptr' = [pptr EXCEPT ![s] = @ + 1]
    BY <1>2 DEF Overflow, Base, TypeOK
  <1> QED
    BY Zenon, <1>1, <1>2, <1>3, <1>4, <1>8, <1>9, <1>11, <1>12, <1>13, <1>14, <1>15, <1>16

\* A posted text that was read from an array has places of what was written.
LEMMA CStringIs ==
  Base => \A s \in Streams : \A n \in 0 .. Len(buf[s]) :
    \E m \in 0 .. n : /\ CString(s, n) = SubSeq(buf[s], 1, m)
                      /\ m = n \/ written[s][buf[s][m + 1]] = "nul"
                      /\ (\A i \in 1 .. n : written[s][buf[s][i]] # "nul") => m = n
  <1> SUFFICES ASSUME Base, NEW s \in Streams, NEW n \in 0 .. Len(buf[s])
               PROVE  \E m \in 0 .. n :
                        /\ CString(s, n) = SubSeq(buf[s], 1, m)
                        /\ m = n \/ written[s][buf[s][m + 1]] = "nul"
                        /\ (\A i \in 1 .. n : written[s][buf[s][i]] # "nul") => m = n
    OBVIOUS
  <1> DEFINE nuls == {i \in 1 .. n : written[s][buf[s][i]] = "nul"}
             first == CHOOSE i \in nuls : \A j \in nuls : i <= j
             cut == IF nuls = {} THEN n ELSE first - 1
  <1>1. CString(s, n) = SubSeq(buf[s], 1, cut)
    BY Zenon DEF CString
  <1>2. n \in Nat
    <2>1. buf[s] \in Seq(Nat)
      BY DEF Base, TypeOK
    <2> QED
      BY <2>1, LenProperties
  <1>3. CASE nuls = {}
    <2>1. cut = n /\ n \in 0 .. n
      BY <1>2, <1>3
    <2> QED
      BY <1>1, <2>1
  <1>4. CASE nuls # {}
    <2>1. \E i \in nuls : \A j \in nuls : i <= j
      <3>1. nuls \subseteq Nat
        BY <1>2
      <3> HIDE DEF nuls
      <3> QED
        BY <1>4, <3>1, Least
    <2>2. first \in nuls
      <3> HIDE DEF nuls
      <3> QED
        BY <2>1
    <2> HIDE DEF first
    <2>3. cut = first - 1 /\ cut \in 0 .. n /\ cut + 1 = first /\ first \in 1 .. n
      BY <1>2, <1>4, <2>2
    <2>4. written[s][buf[s][cut + 1]] = "nul"
      BY <2>2, <2>3
    <2> HIDE DEF cut
    <2> QED
      BY <1>1, <2>2, <2>3, <2>4
  <1> QED
    BY <1>3, <1>4

LEMMA OverflowBase ==
  ASSUME Base, NEW t \in Threads, Overflow(t), UNCHANGED <<sim, main>>, raced' \subseteq Ctxs
  PROVE  Base'
  <1> DEFINE s == Stream(t)
             p == pptr[s] + 1
             n == Len(written[s])
             kind == Head(calls[t]).kind
             b == StoreAt(buf[s], p, n + 1)
  <1>1. /\ calls[t] # <<>> /\ taken[t] = 0 /\ s \in Streams /\ kind \in Kinds
        /\ n \in Nat /\ Len(buf[s]) \in Nat /\ pptr[s] \in 0 .. BufferSize
        /\ pptr[s] <= Len(buf[s])
    BY Puts
  <1>2. /\ written' = [written EXCEPT ![s] = Append(@, kind)]
        /\ Len(written'[s]) = n + 1
        /\ buf' = [buf EXCEPT ![s] = StoreAt(@, p, n + 1)]
        /\ pptr' = [pptr EXCEPT ![s] = p]
    BY Puts
  <1>3. calls' = [calls EXCEPT ![t] = (IF Full(p, kind) THEN <<Sync(s)>> ELSE <<>>) \o Tail(@)]
    BY DEF Overflow
  <1>4. UNCHANGED <<taken, queue, arrived, ctx, pane, missed>>
    BY DEF Overflow, page
  <1>5. /\ written \in [Streams -> Seq(Kinds)] /\ pptr \in [Streams -> 0 .. BufferSize + 1]
        /\ buf \in [Streams -> Seq(Nat)] /\ calls \in [Threads -> Seq(Calls)]
        /\ taken \in [Threads -> 0 .. BufferSize + 1]
        /\ queue \in Seq([s : Streams, text : Seq(Nat)])
        /\ \A z \in Streams : buf[z] \in Seq(Places(z)) /\ arrived[z] \in Seq(Places(z))
        /\ \A i \in 1 .. Len(queue) : queue[i].text \in Seq(Places(queue[i].s))
    BY DEF Base, TypeOK
  <1>6. BufferSize \in Nat \ {0}
    BY ConsoleAssumption DEF ConsoleAssumption
  <1> HIDE DEF s, kind
  <1>7. \A z \in Streams : z # s => written'[z] = written[z] /\ buf'[z] = buf[z] /\ pptr'[z] = pptr[z]
    BY <1>2, <1>5
  <1>8. buf'[s] = b /\ pptr'[s] = p /\ p \in 1 .. Len(buf[s]) + 1 /\ p \in 1 .. BufferSize + 1
    <2>1. p \in 1 .. Len(buf[s]) + 1 /\ p \in 1 .. BufferSize + 1
      BY <1>1, <1>6
    <2> HIDE DEF p, n
    <2>2. buf'[s] = b /\ pptr'[s] = p
      BY <1>1, <1>2, <1>5
    <2> QED
      BY <2>1, <2>2
  <1>9. \A z \in Streams : Places(z) \subseteq 1 .. Len(written'[z]) /\ Places(s) \subseteq 1 .. n + 1
    BY <1>1, <1>2, <1>7 DEF Places
  <1>10. b \in Seq(Nat) /\ b \in Seq(1 .. n + 1) /\ p <= Len(b) /\ Len(buf[s]) <= Len(b)
    <2>1. buf[s] \in Seq(Nat) /\ n + 1 \in Nat
      BY <1>1, <1>5
    <2>2. b \in Seq(Nat) /\ p <= Len(b) /\ Len(buf[s]) <= Len(b)
      BY <1>8, <2>1, Stored
    <2>3. buf[s] \in Seq(1 .. n + 1)
      BY <1>1, <1>5, <1>9, SeqMonotonic
    <2>4. n + 1 \in 1 .. n + 1
      BY <1>1
    <2>5. b \in Seq(1 .. n + 1)
      BY <1>8, <2>3, <2>4, Stored
    <2> QED
      BY <2>2, <2>5
  <1> HIDE DEF b, p, n
  <1>11. \A z \in Streams : Len(buf[z]) <= Len(buf'[z]) /\ Len(buf[z]) \in Nat
    <2>1. \A z \in Streams : Len(buf[z]) \in Nat
      BY <1>5, LenProperties
    <2> QED
      BY <1>7, <1>8, <1>10, <2>1
  <1>12. \A u \in Threads : u # t => calls'[u] = calls[u]
    BY <1>3, <1>5
  <1>13. Sync(s) \in Calls
    BY <1>1 DEF Sync, Calls, Kinds
  <1>14. /\ calls'[t] = (IF Full(p, kind) THEN <<Sync(s)>> ELSE <<>>) \o Tail(calls[t])
         /\ calls' \in [Threads -> Seq(Calls)]
    <2>1. Tail(calls[t]) \in Seq(Calls)
      BY <1>1, HeadCall DEF Base
    <2>2. <<Sync(s)>> \in Seq(Calls) /\ <<>> \in Seq(Calls)
      BY <1>13
    <2> DEFINE x == IF Full(p, kind) THEN <<Sync(s)>> ELSE <<>>
               y == x \o Tail(calls[t])
    <2>3. x \in Seq(Calls)
      BY <2>2
    <2> HIDE DEF x
    <2>4. y \in Seq(Calls)
      BY <2>1, <2>3, ConcatProperties
    <2>5. calls' = [calls EXCEPT ![t] = y]
      BY Zenon, <1>3 DEF x
    <2> HIDE DEF y
    <2>6. calls' \in [Threads -> Seq(Calls)] /\ calls'[t] = y
      BY <1>5, <2>4, <2>5
    <2> QED
      BY Zenon, <2>6 DEF x, y
  <1>15. TypeOK'
    <2>1. written' \in [Streams -> Seq(Kinds)]
      <3>1. Append(written[s], kind) \in Seq(Kinds)
        BY <1>1, <1>5, AppendProperties
      <3> QED
        BY <1>2, <1>5, <3>1
    <2>2. pptr' \in [Streams -> 0 .. BufferSize + 1]
      <3>1. p \in 0 .. BufferSize + 1
        BY <1>6, <1>8
      <3> QED
        BY <1>2, <1>5, <3>1
    <2>3. buf' \in [Streams -> Seq(Nat)] /\ arrived' \in [Streams -> Seq(Nat)]
      <3>1. arrived' \in [Streams -> Seq(Nat)]
        BY <1>4 DEF Base, TypeOK
      <3>2. buf' = [buf EXCEPT ![s] = b]
        BY <1>2, <1>5 DEF b
      <3> QED
        BY <1>5, <1>10, <3>1, <3>2
    <2>4. ASSUME NEW z \in Streams
          PROVE  /\ buf'[z] \in Seq(Places(z)') /\ arrived'[z] \in Seq(Places(z)')
                 /\ \A text \in Seq(Places(z)) : text \in Seq(Places(z)')
      <3>1. Places(z) \subseteq Places(z)'
        BY <1>9 DEF Places
      <3>2. \A text \in Seq(Places(z)) : text \in Seq(Places(z)')
        BY <3>1, SeqMonotonic
      <3>3. buf'[z] \in Seq(Places(z)')
        <4>1. CASE z # s
          BY <1>5, <1>7, <3>2, <4>1
        <4>2. CASE z = s
          <5>1. Places(z)' = 1 .. n + 1
            BY <1>2, <4>2 DEF Places
          <5> QED
            BY <1>8, <1>10, <4>2, <5>1
        <4> QED
          BY <4>1, <4>2
      <3> QED
        BY <1>4, <1>5, <3>2, <3>3
    <2>5. ASSUME NEW i \in 1 .. Len(queue')
          PROVE  (queue[i].text \in Seq(Places(queue[i].s)))'
      <3>1. i \in 1 .. Len(queue) /\ queue' = queue
        BY <1>4
      <3>2. queue[i].s \in Streams
        <4>1. queue[i] \in [s : Streams, text : Seq(Nat)]
          BY <1>5, <3>1, ElementOfSeq
        <4> QED
          BY <4>1
      <3>3. PICK z \in Streams : z = queue[i].s
        BY <3>2
      <3>4. queue[i].text \in Seq(Places(z))
        BY <1>5, <3>1, <3>3
      <3>5. queue'[i].s = z /\ queue'[i].text = queue[i].text
        BY <3>1, <3>3
      <3> QED
        BY <2>4, <3>4, <3>5 DEF Places
    <2>6. /\ taken' \in [Threads -> 0 .. BufferSize + 1]
          /\ queue' \in Seq([s : Streams, text : Seq(Nat)])
          /\ sim' \in SimPc /\ main' \in MainPc
          /\ ctx' \in Ctxs /\ pane' \in [Sinks -> Seq(Nat)] /\ missed' \in BOOLEAN
          /\ raced' \subseteq Ctxs
      BY <1>4 DEF Base, TypeOK
    <2>7. \A z \in Streams : buf'[z] \in Seq(Places(z)') /\ arrived'[z] \in Seq(Places(z)')
      BY <2>4
    <2> QED
      BY Zenon, <1>14, <2>1, <2>2, <2>3, <2>5, <2>6, <2>7 DEF TypeOK
  <1>16. ArraysHold'
    <2>1. ASSUME NEW u \in Threads, taken'[u] # 0
          PROVE  Doing(u)' = "sync" /\ taken'[u] <= Len(buf'[Stream(u)'])
      <3>1. taken[u] # 0 /\ u # t /\ calls'[u] = calls[u]
        BY <1>1, <1>4, <1>12, <2>1
      <3>2. Doing(u) = "sync" /\ taken[u] <= Len(buf[Stream(u)]) /\ taken[u] \in Nat
        BY <1>5, <1>6, <3>1 DEF Base, ArraysHold
      <3>3. Stream(u) \in Streams /\ Stream(u)' = Stream(u) /\ Doing(u)' = Doing(u)
        BY <3>1, <3>2, HeadCall DEF Base, Doing, Stream
      <3>4. Len(buf'[Stream(u)]) \in Nat
        BY <1>15, <3>3, LenProperties DEF TypeOK
      <3> QED
        BY <1>4, <1>11, <3>2, <3>3, <3>4
    <2>2. ASSUME NEW z \in Streams
          PROVE  /\ pptr'[z] <= Len(buf'[z])
                 /\ pptr'[z] < BufferSize + Waiting("sim", z)' + Waiting("main", z)'
      <3>0. "sim" \in Threads /\ "main" \in Threads /\ (t = "sim" \/ t = "main")
        BY DEF Threads
      <3>1. \A u \in Threads : Waiting(u, z) \in {0, 1} /\ Waiting(u, z)' \in {0, 1}
        BY DEF Waiting
      <3>2. \A u \in Threads : u # t => Waiting(u, z)' = Waiting(u, z)
        BY <1>4, <1>12 DEF Waiting, ToSync
      <3>3. pptr[z] <= Len(buf[z]) /\ pptr[z] < BufferSize + Waiting("sim", z) + Waiting("main", z)
        BY DEF Base, ArraysHold
      <3>4. Waiting(t, z) = 0
        BY DEF Waiting, ToSync, Overflow, Doing, Sync
      <3>5. CASE z # s
        <4>1. pptr'[z] = pptr[z] /\ buf'[z] = buf[z]
          BY <1>7, <3>5
        <4>2. pptr[z] \in Nat
          BY <1>5
        <4>3. Waiting("sim", z) <= Waiting("sim", z)' /\ Waiting("main", z) <= Waiting("main", z)'
          BY <3>0, <3>1, <3>2, <3>4
        <4> QED
          BY <1>6, <3>0, <3>1, <3>3, <4>1, <4>2, <4>3
      <3>6. CASE z = s
        <4>1. CASE p >= BufferSize
          <5>1. Full(p, kind)
            BY <4>1 DEF Full
          <5>2. calls'[t] = <<Sync(s)>> \o Tail(calls[t])
            BY <1>14, <5>1
          <5>3. calls'[t] # <<>> /\ Head(calls'[t]) = Sync(s)
            <6> DEFINE x == Tail(calls[t])
            <6>1. x \in Seq(Calls)
              BY <1>1, HeadCall DEF Base
            <6> HIDE DEF x
            <6>2. <<Sync(s)>> \o x # <<>> /\ Head(<<Sync(s)>> \o x) = Sync(s)
              BY <1>13, <6>1
            <6> QED
              BY Zenon, <5>2, <6>2 DEF x
          <5>4. Waiting(t, z)' = 1
            BY <1>1, <1>4, <3>6, <5>3 DEF Waiting, ToSync, Sync
          <5> QED
            <6>1. pptr'[z] <= Len(buf'[z]) /\ pptr'[z] = pptr[z] + 1 /\ pptr[z] \in Nat
              BY <1>1, <1>8, <1>10, <3>6 DEF p
            <6>2. CASE t = "sim"
              BY <1>6, <3>0, <3>1, <3>2, <3>3, <3>4, <5>4, <6>1, <6>2
            <6>3. CASE t = "main"
              BY <1>6, <3>0, <3>1, <3>2, <3>3, <3>4, <5>4, <6>1, <6>3
            <6> QED
              BY <3>0, <6>2, <6>3
        <4>2. CASE ~(p >= BufferSize)
          BY <1>6, <1>8, <1>10, <3>0, <3>1, <3>6, <4>2
        <4> QED
          BY <4>1, <4>2
      <3> QED
        BY <3>5, <3>6
    <2> QED
      BY <2>1, <2>2 DEF ArraysHold
  <1>17. BuildsAlone'
    <2>1. sim' = sim /\ main' = main
      OBVIOUS
    <2>2. sim \in {"none", "exited"} => calls["sim"] = <<>>
      BY DEF Base, BuildsAlone
    <2>3. calls["sim"] = <<>> => calls'["sim"] = <<>>
      BY <1>1, <1>12 DEF Threads
    <2> QED
      BY <2>1, <2>2, <2>3 DEF Base, BuildsAlone
  <1> QED
    BY <1>15, <1>16, <1>17 DEF Base


\* What taking the characters of a stream does.
LEMMA Takes ==
  ASSUME Base, NEW t \in Threads, SyncTake(t)
  PROVE  /\ calls[t] # <<>> /\ taken[t] = 0 /\ Stream(t) \in Streams /\ Doing(t) = "sync"
         /\ pptr[Stream(t)] \in 0 .. BufferSize + 1 /\ pptr[Stream(t)] <= Len(buf[Stream(t)])
         /\ Len(buf[Stream(t)]) \in Nat
         /\ pptr'[Stream(t)] = 0 /\ \A z \in Streams : z # Stream(t) => pptr'[z] = pptr[z]
         /\ taken'[t] = pptr[Stream(t)] /\ \A u \in Threads : u # t => taken'[u] = taken[u]
         /\ calls'[t] = (IF pptr[Stream(t)] = 0 THEN Tail(calls[t]) ELSE calls[t])
         /\ \A u \in Threads : u # t => calls'[u] = calls[u]
         /\ calls' \in [Threads -> Seq(Calls)]
         /\ UNCHANGED <<written, buf, queue, arrived, ctx, pane, missed>>
  <1> DEFINE s == Stream(t)
  <1>1. calls[t] # <<>> /\ taken[t] = 0 /\ Doing(t) = "sync"
    BY DEF SyncTake, Doing
  <1>2. s \in Streams /\ Tail(calls[t]) \in Seq(Calls) /\ calls[t] \in Seq(Calls)
    BY <1>1, HeadCall DEF Base
  <1>3. /\ pptr \in [Streams -> 0 .. BufferSize + 1] /\ taken \in [Threads -> 0 .. BufferSize + 1]
        /\ calls \in [Threads -> Seq(Calls)] /\ buf \in [Streams -> Seq(Nat)]
    BY DEF Base, TypeOK
  <1>4. pptr[s] \in 0 .. BufferSize + 1 /\ pptr[s] <= Len(buf[s]) /\ Len(buf[s]) \in Nat
    <2>1. pptr[s] <= Len(buf[s])
      BY <1>2 DEF Base, ArraysHold
    <2> QED
      BY <1>2, <1>3, <2>1, LenProperties
  <1>5. /\ pptr' = [pptr EXCEPT ![s] = 0] /\ taken' = [taken EXCEPT ![t] = pptr[s]]
        /\ calls' = IF pptr[s] = 0 THEN [calls EXCEPT ![t] = Tail(@)] ELSE calls
        /\ UNCHANGED <<written, buf, queue, arrived, ctx, pane, missed>>
    BY DEF SyncTake, page
  <1> HIDE DEF s
  <1>6. /\ pptr'[s] = 0 /\ \A z \in Streams : z # s => pptr'[z] = pptr[z]
        /\ taken'[t] = pptr[s] /\ \A u \in Threads : u # t => taken'[u] = taken[u]
    BY <1>2, <1>3, <1>5
  <1>7. /\ calls'[t] = (IF pptr[s] = 0 THEN Tail(calls[t]) ELSE calls[t])
        /\ \A u \in Threads : u # t => calls'[u] = calls[u]
        /\ calls' \in [Threads -> Seq(Calls)]
    <2> DEFINE x == Tail(calls[t])
    <2>1. x \in Seq(Calls) /\ [calls EXCEPT ![t] = Tail(@)] = [calls EXCEPT ![t] = x]
      BY <1>2, <1>3
    <2> HIDE DEF x
    <2>2. /\ calls'[t] = (IF pptr[s] = 0 THEN x ELSE calls[t])
          /\ \A u \in Threads : u # t => calls'[u] = calls[u]
          /\ calls' \in [Threads -> Seq(Calls)]
      BY <1>3, <1>5, <2>1
    <2> QED
      BY Zenon, <2>2 DEF x
  <1> QED
    BY Zenon, <1>1, <1>2, <1>4, <1>5, <1>6, <1>7 DEF s

\* A thread waits for no stream it does not wait for.
LEMMA NotWaiting ==
  ASSUME NEW t \in Threads, NEW s
  PROVE  /\ Waiting(t, s) \in {0, 1} /\ Waiting(t, s)' \in {0, 1}
         /\ calls[t] = <<>> \/ Stream(t) # s \/ taken[t] # 0 => Waiting(t, s) = 0
  BY DEF Waiting, ToSync, Stream, Sync

LEMMA TakeBase ==
  ASSUME Base, NEW t \in Threads, SyncTake(t), UNCHANGED <<sim, main>>, raced' \subseteq Ctxs
  PROVE  Base'
  <1> DEFINE s == Stream(t)
  <1>1. /\ calls[t] # <<>> /\ taken[t] = 0 /\ s \in Streams /\ Doing(t) = "sync"
        /\ pptr[s] \in 0 .. BufferSize + 1 /\ pptr[s] <= Len(buf[s]) /\ Len(buf[s]) \in Nat
        /\ pptr'[s] = 0 /\ \A z \in Streams : z # s => pptr'[z] = pptr[z]
        /\ taken'[t] = pptr[s] /\ \A u \in Threads : u # t => taken'[u] = taken[u]
    BY Takes
  <1>2. /\ calls'[t] = (IF pptr[s] = 0 THEN Tail(calls[t]) ELSE calls[t])
        /\ \A u \in Threads : u # t => calls'[u] = calls[u]
        /\ calls' \in [Threads -> Seq(Calls)]
        /\ UNCHANGED <<written, buf, queue, arrived, ctx, pane, missed>>
    BY Takes
  <1>3. BufferSize \in Nat \ {0}
    BY ConsoleAssumption DEF ConsoleAssumption
  <1>4. TypeOK'
    <2>1. pptr' \in [Streams -> 0 .. BufferSize + 1] /\ taken' \in [Threads -> 0 .. BufferSize + 1]
      BY <1>1, <1>3 DEF Base, TypeOK, SyncTake
    <2> QED
      BY <1>2, <2>1 DEF Base, TypeOK, Places
  <1>5. ArraysHold'
    <2>1. ASSUME NEW u \in Threads, taken'[u] # 0
          PROVE  (Doing(u) = "sync" /\ taken[u] <= Len(buf[Stream(u)]))'
      <3>1. CASE u = t
        <4>1. calls'[t] = calls[t] /\ taken'[t] = pptr[s]
          BY <1>1, <1>2, <2>1, <3>1
        <4> QED
          BY <1>1, <1>2, <3>1, <4>1 DEF Doing, Stream
      <3>2. CASE u # t
        BY <1>1, <1>2, <2>1, <3>2 DEF Base, ArraysHold, Doing, Stream
      <3> QED
        BY <3>1, <3>2
    <2>2. ASSUME NEW z \in Streams
          PROVE  (pptr[z] <= Len(buf[z]) /\ pptr[z] < BufferSize + Waiting("sim", z) + Waiting("main", z))'
      <3>0. "sim" \in Threads /\ "main" \in Threads
        BY DEF Threads
      <3>1. \A u \in Threads : Waiting(u, z) \in {0, 1} /\ Waiting(u, z)' \in {0, 1}
        BY NotWaiting
      <3>2. \A u \in Threads : u # t => Waiting(u, z)' = Waiting(u, z)
        BY <1>1, <1>2 DEF Waiting, ToSync
      <3>3. /\ pptr[z] <= Len(buf[z]) /\ pptr[z] < BufferSize + Waiting("sim", z) + Waiting("main", z)
            /\ pptr[z] \in Nat /\ Len(buf[z]) \in Nat
        BY LenProperties DEF Base, ArraysHold, TypeOK
      <3>4. CASE z = s
        <4>1. pptr'[z] = 0 /\ buf'[z] = buf[z]
          BY <1>1, <1>2, <3>4
        <4> QED
          BY <1>3, <3>0, <3>1, <3>3, <4>1
      <3>5. CASE z # s
        <4>1. Waiting(t, z) = 0
          BY <3>5, NotWaiting
        <4>2. Waiting("sim", z) <= Waiting("sim", z)' /\ Waiting("main", z) <= Waiting("main", z)'
          BY <3>0, <3>1, <3>2, <4>1
        <4>3. pptr'[z] = pptr[z] /\ buf'[z] = buf[z]
          BY <1>1, <1>2, <3>5
        <4> QED
          BY <1>3, <3>0, <3>1, <3>3, <4>2, <4>3
      <3> QED
        BY <3>4, <3>5
    <2> QED
      BY <2>1, <2>2 DEF ArraysHold
  <1>6. BuildsAlone'
    <2>1. calls["sim"] = <<>> => calls'["sim"] = <<>>
      BY <1>1, <1>2 DEF Threads
    <2> QED
      BY <2>1 DEF Base, BuildsAlone
  <1> QED
    BY <1>4, <1>5, <1>6 DEF Base


\* What posting a text does.
LEMMA Posts ==
  ASSUME Base, NEW t \in Threads, SyncPost(t)
  PROVE  /\ calls[t] # <<>> /\ taken[t] # 0 /\ Stream(t) \in Streams /\ Doing(t) = "sync"
         /\ taken[t] \in 0 .. Len(buf[Stream(t)])
         /\ CString(Stream(t), taken[t]) \in Seq(Places(Stream(t)))
         /\ taken'[t] = 0 /\ \A u \in Threads : u # t => taken'[u] = taken[u]
         /\ calls'[t] = Tail(calls[t]) /\ \A u \in Threads : u # t => calls'[u] = calls[u]
         /\ calls' \in [Threads -> Seq(Calls)]
         /\ UNCHANGED <<written, pptr, ctx, missed>>
         /\ \A z \in Streams : z # Stream(t) => buf'[z] = buf[z]
         /\ \/ buf'[Stream(t)] = buf[Stream(t)]
            \/ /\ buf'[Stream(t)] = SubSeq(buf[Stream(t)], 1, pptr[Stream(t)])
               /\ \A u \in Threads : u # t => taken[u] = 0 \/ Stream(u) # Stream(t)
         /\ buf' \in [Streams -> Seq(Nat)]
         /\ \A z \in Streams : /\ buf'[z] \in Seq(Places(z)) /\ pptr[z] <= Len(buf'[z])
                               /\ SubSeq(buf'[z], 1, pptr[z]) = SubSeq(buf[z], 1, pptr[z])
         /\ t = "sim" =>
              /\ queue' = Append(queue, [s |-> Stream(t), text |-> CString(Stream(t), taken[t])])
              /\ UNCHANGED <<arrived, pane>>
         /\ t = "main" => WriteStd(Stream(t), CString(Stream(t), taken[t])) /\ UNCHANGED queue
  <1> DEFINE s == Stream(t)
             n == taken[t]
             text == CString(s, n)
             alone == \A u \in Threads \ {t} : taken[u] = 0 \/ Stream(u) # s
  <1>1. calls[t] # <<>> /\ n # 0 /\ Doing(t) = "sync"
    BY DEF SyncPost, Doing
  <1>2. s \in Streams /\ Tail(calls[t]) \in Seq(Calls)
    BY <1>1, HeadCall DEF Base
  <1>3. /\ pptr \in [Streams -> 0 .. BufferSize + 1] /\ taken \in [Threads -> 0 .. BufferSize + 1]
        /\ calls \in [Threads -> Seq(Calls)] /\ buf \in [Streams -> Seq(Nat)]
        /\ \A z \in Streams : buf[z] \in Seq(Places(z)) /\ pptr[z] <= Len(buf[z])
    BY DEF Base, TypeOK, ArraysHold
  <1>4. BufferSize \in Nat \ {0}
    BY ConsoleAssumption DEF ConsoleAssumption
  <1>5. n \in 0 .. Len(buf[s])
    <2>1. n <= Len(buf[s])
      BY <1>1 DEF Base, ArraysHold
    <2>2. n \in Nat /\ Len(buf[s]) \in Nat
      BY <1>2, <1>3, <1>4, LenProperties
    <2> QED
      BY <2>1, <2>2
  <1>6. text \in Seq(Places(s))
    <2>1. PICK m \in 0 .. n : text = SubSeq(buf[s], 1, m)
      BY <1>2, <1>5, CStringIs
    <2>2. m \in 0 .. Len(buf[s])
      BY <1>5, <2>1
    <2> QED
      BY <1>2, <1>3, <2>1, <2>2, Parts
  <1>7. /\ taken' = [taken EXCEPT ![t] = 0] /\ calls' = [calls EXCEPT ![t] = Tail(@)]
        /\ buf' = IF alone THEN [buf EXCEPT ![s] = SubSeq(@, 1, pptr[s])] ELSE buf
        /\ Post(t, s, text) /\ UNCHANGED <<written, pptr>>
    BY Zenon DEF SyncPost
  <1>8. taken'[t] = 0 /\ \A u \in Threads : u # t => taken'[u] = taken[u]
    BY <1>3, <1>7
  <1>9. /\ calls'[t] = Tail(calls[t]) /\ \A u \in Threads : u # t => calls'[u] = calls[u]
        /\ calls' \in [Threads -> Seq(Calls)]
    <2> DEFINE x == Tail(calls[t])
    <2>1. x \in Seq(Calls) /\ calls' = [calls EXCEPT ![t] = x]
      BY <1>2, <1>3, <1>7
    <2> HIDE DEF x
    <2>2. /\ calls'[t] = x /\ \A u \in Threads : u # t => calls'[u] = calls[u]
          /\ calls' \in [Threads -> Seq(Calls)]
      BY <1>3, <2>1
    <2> QED
      BY Zenon, <2>2 DEF x
  <1>10. UNCHANGED <<ctx, missed>>
    BY <1>7 DEF Post, page
  <1>11. /\ t = "sim" => queue' = Append(queue, [s |-> s, text |-> text]) /\ UNCHANGED <<arrived, pane>>
         /\ t = "main" => WriteStd(s, text) /\ UNCHANGED queue
    <2> HIDE DEF s, text
    <2> QED
      BY <1>7 DEF Post, page
  <1> HIDE DEF s, n, text
  <1>12. ASSUME NEW z \in Streams
         PROVE  /\ z # s => buf'[z] = buf[z]
                /\ buf'[z] \in Seq(Places(z)) /\ pptr[z] <= Len(buf'[z])
                /\ SubSeq(buf'[z], 1, pptr[z]) = SubSeq(buf[z], 1, pptr[z])
                /\ buf'[z] = buf[z] \/ (alone /\ buf'[z] = SubSeq(buf[z], 1, pptr[z]))
    <2> DEFINE x == SubSeq(buf[z], 1, pptr[z])
    <2>1. pptr[z] \in 0 .. Len(buf[z])
      <3>1. pptr[z] \in Nat /\ Len(buf[z]) \in Nat
        BY <1>3, <1>4, LenProperties
      <3> QED
        BY <1>3, <3>1
    <2>2. x \in Seq(Places(z)) /\ Len(x) = pptr[z] /\ SubSeq(x, 1, pptr[z]) = x
      BY <1>3, <2>1, Parts, CutTwice
    <2> HIDE DEF x
    <2>3. (z = s /\ alone => buf'[z] = x) /\ (z # s \/ ~alone => buf'[z] = buf[z])
      <3> HIDE DEF alone
      <3> QED
        BY <1>2, <1>3, <1>7 DEF x
    <2>4. CASE z = s /\ alone
      <3>1. buf'[z] = x /\ pptr[z] <= Len(x)
        BY <2>1, <2>2, <2>3, <2>4
      <3> QED
        BY Zenon, <2>2, <2>4, <3>1 DEF x
    <2>5. CASE z # s \/ ~alone
      <3>1. buf'[z] = buf[z]
        BY <2>3, <2>5
      <3> QED
        BY Zenon, <1>3, <3>1
    <2> QED
      BY Zenon, <2>4, <2>5
  <1>13. buf' \in [Streams -> Seq(Nat)]
    <2>1. SubSeq(buf[s], 1, pptr[s]) \in Seq(Nat)
      <3>1. buf[s] \in Seq(Nat) /\ pptr[s] \in 0 .. Len(buf[s])
        <4>1. pptr[s] \in Nat /\ Len(buf[s]) \in Nat /\ buf[s] \in Seq(Nat)
          BY <1>2, <1>3, <1>4, LenProperties
        <4> QED
          BY <1>2, <1>3, <4>1
      <3> QED
        BY <3>1, Parts
    <2> DEFINE x == SubSeq(buf[s], 1, pptr[s])
    <2>2. buf' = [buf EXCEPT ![s] = x] \/ buf' = buf
      BY <1>2, <1>3, <1>7
    <2> HIDE DEF x
    <2> QED
      BY <1>3, <2>1, <2>2 DEF x
  <1>14. buf'[s] = buf[s] \/ (buf'[s] = SubSeq(buf[s], 1, pptr[s])
                             /\ \A u \in Threads : u # t => taken[u] = 0 \/ Stream(u) # s)
    <2>1. buf'[s] = buf[s] \/ (alone /\ buf'[s] = SubSeq(buf[s], 1, pptr[s]))
      BY Zenon, <1>2, <1>12
    <2>2. alone => \A u \in Threads : u # t => taken[u] = 0 \/ Stream(u) # s
      OBVIOUS
    <2> QED
      BY Zenon, <2>1, <2>2
  <1>15. \A z \in Streams : /\ z # s => buf'[z] = buf[z]
                            /\ buf'[z] \in Seq(Places(z)) /\ pptr[z] <= Len(buf'[z])
                            /\ SubSeq(buf'[z], 1, pptr[z]) = SubSeq(buf[z], 1, pptr[z])
    BY Zenon, <1>12
  <1> QED
    BY Zenon, <1>1, <1>2, <1>5, <1>6, <1>7, <1>8, <1>9, <1>10, <1>11, <1>13, <1>14, <1>15
    DEF s, n, text


\* What writing to the page does.
LEMMA Writes ==
  ASSUME Base, NEW s \in Streams, NEW text \in Seq(Places(s)), WriteStd(s, text)
  PROVE  /\ arrived' \in [Streams -> Seq(Nat)] /\ pane' \in [Sinks -> Seq(Nat)]
         /\ arrived'[s] = arrived[s] \o text
         /\ \A z \in Streams : z # s => arrived'[z] = arrived[z]
         /\ \A z \in Streams : arrived'[z] \in Seq(Places(z))
  <1>1. /\ arrived \in [Streams -> Seq(Nat)] /\ pane \in [Sinks -> Seq(Nat)]
        /\ \A z \in Streams : arrived[z] \in Seq(Places(z)) /\ Places(z) \subseteq Nat
    BY LenProperties DEF Base, TypeOK, Places
  <1>2. text \in Seq(Nat) /\ s[2] \in Sinks
    BY <1>1, SeqMonotonic DEF Streams
  <1> DEFINE x == arrived[s] \o text
             y == pane[s[2]] \o text
  <1>3. x \in Seq(Nat) /\ x \in Seq(Places(s)) /\ y \in Seq(Nat)
    BY <1>1, <1>2, ConcatProperties
  <1>4. /\ arrived' = [arrived EXCEPT ![s] = x]
        /\ pane' = [pane EXCEPT ![s[2]] = y] \/ pane' = pane
    BY <1>1, <1>2 DEF WriteStd
  <1> HIDE DEF x, y
  <1>5. /\ arrived' \in [Streams -> Seq(Nat)] /\ pane' \in [Sinks -> Seq(Nat)]
        /\ arrived'[s] = x /\ \A z \in Streams : z # s => arrived'[z] = arrived[z]
    BY <1>1, <1>2, <1>3, <1>4
  <1>6. \A z \in Streams : arrived'[z] \in Seq(Places(z))
    BY <1>1, <1>3, <1>5
  <1> QED
    BY Zenon, <1>5, <1>6 DEF x

LEMMA PostBase ==
  ASSUME Base, NEW t \in Threads, SyncPost(t), UNCHANGED <<sim, main>>, raced' \subseteq Ctxs
  PROVE  Base'
  <1> DEFINE s == Stream(t)
             text == CString(s, taken[t])
  <1>1. /\ calls[t] # <<>> /\ taken[t] # 0 /\ s \in Streams /\ Doing(t) = "sync"
        /\ text \in Seq(Places(s))
        /\ taken'[t] = 0 /\ \A u \in Threads : u # t => taken'[u] = taken[u]
        /\ calls'[t] = Tail(calls[t]) /\ \A u \in Threads : u # t => calls'[u] = calls[u]
        /\ calls' \in [Threads -> Seq(Calls)]
        /\ UNCHANGED <<written, pptr, ctx, missed>>
    BY Posts
  <1>2. /\ \A z \in Streams : z # s => buf'[z] = buf[z]
        /\ \/ buf'[s] = buf[s]
           \/ \A u \in Threads : u # t => taken[u] = 0 \/ Stream(u) # s
        /\ buf' \in [Streams -> Seq(Nat)]
        /\ \A z \in Streams : buf'[z] \in Seq(Places(z)) /\ pptr[z] <= Len(buf'[z])
    BY Posts
  <1>3. /\ t = "sim" => queue' = Append(queue, [s |-> s, text |-> text]) /\ UNCHANGED <<arrived, pane>>
        /\ t = "main" => WriteStd(s, text) /\ UNCHANGED queue
    BY Posts
  <1>4. t = "sim" \/ t = "main"
    BY DEF Threads
  <1>5. /\ queue \in Seq([s : Streams, text : Seq(Nat)])
        /\ \A i \in 1 .. Len(queue) : queue[i].text \in Seq(Places(queue[i].s))
        /\ taken \in [Threads -> 0 .. BufferSize + 1] /\ BufferSize \in Nat \ {0}
        /\ \A z \in Streams : Places(z)' = Places(z) /\ Places(z) \subseteq Nat
    <2>1. /\ queue \in Seq([s : Streams, text : Seq(Nat)])
          /\ \A i \in 1 .. Len(queue) : queue[i].text \in Seq(Places(queue[i].s))
          /\ taken \in [Threads -> 0 .. BufferSize + 1]
      BY DEF Base, TypeOK
    <2>2. \A z \in Streams : Places(z)' = Places(z)
      BY <1>1 DEF Places
    <2>3. \A z \in Streams : Places(z) \subseteq Nat
      BY DEF Places
    <2> QED
      BY <2>1, <2>2, <2>3, ConsoleAssumption DEF ConsoleAssumption
  <1> HIDE DEF s, text
  <1>6. /\ arrived' \in [Streams -> Seq(Nat)] /\ pane' \in [Sinks -> Seq(Nat)]
        /\ \A z \in Streams : arrived'[z] \in Seq(Places(z))
    <2>1. CASE t = "sim"
      BY <1>3, <2>1 DEF Base, TypeOK
    <2>2. CASE t = "main"
      BY <1>1, <1>3, <2>2, Writes
    <2> QED
      BY <1>4, <2>1, <2>2
  <1>7. /\ queue' \in Seq([s : Streams, text : Seq(Nat)])
        /\ \A i \in 1 .. Len(queue') : queue'[i].text \in Seq(Places(queue'[i].s))
    <2>1. CASE t = "sim"
      <3> DEFINE r == [s |-> s, text |-> text]
                 Q == [s : Streams, text : Seq(Nat)]
      <3>1. text \in Seq(Nat)
        BY <1>1, <1>5, SeqMonotonic
      <3>2. r \in Q /\ r.s = s /\ r.text = text
        BY <1>1, <3>1
      <3>3. queue' = Append(queue, r) /\ queue \in Seq(Q)
        BY <1>3, <1>5, <2>1
      <3> HIDE DEF r, Q
      <3>4. /\ queue' \in Seq(Q) /\ Len(queue') = Len(queue) + 1 /\ Len(queue) \in Nat
            /\ \A i \in 1 .. Len(queue) : queue'[i] = queue[i]
            /\ queue'[Len(queue) + 1] = r
        BY <3>2, <3>3, AppendProperties, LenProperties
      <3>5. ASSUME NEW i \in 1 .. Len(queue') PROVE queue'[i].text \in Seq(Places(queue'[i].s))
        <4>1. i \in 1 .. Len(queue) \/ i = Len(queue) + 1
          BY <3>4
        <4> QED
          BY Zenon, <1>1, <1>5, <3>2, <3>4, <4>1
      <3> QED
        BY Zenon, <3>4, <3>5 DEF Q
    <2>2. CASE t = "main"
      BY <1>3, <1>5, <2>2
    <2> QED
      BY <1>4, <2>1, <2>2
  <1>8. TypeOK'
    <2>1. taken' \in [Threads -> 0 .. BufferSize + 1]
      BY <1>1, <1>5 DEF SyncPost
    <2>2. /\ written' \in [Streams -> Seq(Kinds)] /\ pptr' \in [Streams -> 0 .. BufferSize + 1]
          /\ sim' \in SimPc /\ main' \in MainPc /\ ctx' \in Ctxs /\ missed' \in BOOLEAN
          /\ raced' \subseteq Ctxs
      BY <1>1 DEF Base, TypeOK
    <2>3. \A z \in Streams : buf'[z] \in Seq(Places(z)') /\ arrived'[z] \in Seq(Places(z)')
      BY <1>2, <1>5, <1>6
    <2>4. ASSUME NEW i \in 1 .. Len(queue') PROVE (queue[i].text \in Seq(Places(queue[i].s)))'
      <3>1. queue'[i] \in [s : Streams, text : Seq(Nat)]
        BY <1>7, ElementOfSeq
      <3>2. queue'[i].text \in Seq(Places(queue'[i].s)) /\ queue'[i].s \in Streams
        BY <1>7, <3>1
      <3> QED
        BY <1>1, <3>2 DEF Places
    <2> QED
      BY Zenon, <1>1, <1>2, <1>6, <1>7, <2>1, <2>2, <2>3, <2>4 DEF TypeOK
  <1>9. ArraysHold'
    <2>1. ASSUME NEW u \in Threads, taken'[u] # 0
          PROVE  (Doing(u) = "sync" /\ taken[u] <= Len(buf[Stream(u)]))'
      <3>1. u # t /\ taken[u] # 0 /\ calls'[u] = calls[u] /\ taken'[u] = taken[u]
        BY <1>1, <2>1
      <3>2. Doing(u) = "sync" /\ taken[u] <= Len(buf[Stream(u)])
        BY <3>1 DEF Base, ArraysHold
      <3>3. Stream(u) \in Streams
        BY <3>2, HeadCall DEF Base, Doing
      <3>4. buf'[Stream(u)] = buf[Stream(u)]
        BY <1>2, <3>1, <3>3
      <3>5. Doing(u)' = Doing(u) /\ Stream(u)' = Stream(u)
        BY <3>1 DEF Doing, Stream
      <3> QED
        BY <3>1, <3>2, <3>4, <3>5
    <2>2. ASSUME NEW z \in Streams
          PROVE  (pptr[z] <= Len(buf[z]) /\ pptr[z] < BufferSize + Waiting("sim", z) + Waiting("main", z))'
      <3>0. "sim" \in Threads /\ "main" \in Threads
        BY DEF Threads
      <3>1. \A u \in Threads : Waiting(u, z) \in {0, 1} /\ Waiting(u, z)' \in {0, 1}
        BY NotWaiting
      <3>2. \A u \in Threads : u # t => Waiting(u, z)' = Waiting(u, z)
        BY <1>1 DEF Waiting, ToSync
      <3>3. /\ pptr[z] < BufferSize + Waiting("sim", z) + Waiting("main", z) /\ pptr[z] \in Nat
        BY DEF Base, ArraysHold, TypeOK
      <3>4. Waiting(t, z) = 0
        BY <1>1, NotWaiting
      <3>5. Waiting("sim", z) <= Waiting("sim", z)' /\ Waiting("main", z) <= Waiting("main", z)'
        BY <3>0, <3>1, <3>2, <3>4
      <3>6. pptr'[z] = pptr[z] /\ pptr[z] <= Len(buf'[z])
        BY <1>1, <1>2
      <3>7. BufferSize \in Nat
        BY <1>5
      <3>8. pptr[z] < BufferSize + Waiting("sim", z)' + Waiting("main", z)'
        BY <3>0, <3>1, <3>3, <3>5, <3>7
      <3> QED
        BY Zenon, <3>6, <3>8
    <2> QED
      BY <2>1, <2>2 DEF ArraysHold
  <1>10. BuildsAlone'
    <2>1. calls["sim"] = <<>> => calls'["sim"] = <<>>
      BY <1>1 DEF Threads
    <2> QED
      BY <2>1 DEF Base, BuildsAlone
  <1> QED
    BY <1>8, <1>9, <1>10 DEF Base


LEMMA HandsBase ==
  ASSUME Base, NEW cs, SimHands(cs) \/ MainHands(cs), raced' \subseteq Ctxs
  PROVE  Base'
  <1> DEFINE t == IF SimHands(cs) THEN "sim" ELSE "main"
  <1>1. Hands(t, cs) /\ t \in Threads
    BY DEF SimHands, MainHands, Threads
  <1>2. cs \in Seq(Calls)
    <2>1. Lines \subseteq Calls /\ Prints \subseteq Calls /\ Syncs \subseteq Calls
      BY CallTypes
    <2>2. \/ cs \in Seq(Lines \cup Prints) \/ cs \in Seq(Lines) \/ cs \in Seq(Lines \cup Syncs)
          \/ cs \in Seq(Syncs) \/ cs = <<>>
      BY Zenon DEF SimHands, MainHands
    <2>3. <<>> \in Seq(Calls) /\ Lines \cup Prints \subseteq Calls /\ Lines \cup Syncs \subseteq Calls
      BY <2>1
    <2> QED
      BY <2>1, <2>2, <2>3, SeqMonotonic
  <1>3. /\ calls[t] = <<>> /\ UNCHANGED <<written, buf, pptr, taken, queue, arrived>>
        /\ calls' \in [Threads -> Seq(Calls)]
        /\ \A u \in Threads : u # t => calls'[u] = calls[u]
    BY <1>1, <1>2 DEF Hands, Base, TypeOK
  <1>4. TypeOK'
    <2>1. sim' \in SimPc /\ main' \in MainPc
      BY DEF SimHands, MainHands, SimPc, MainPc, Base, TypeOK
    <2>2. ctx' \in Ctxs /\ pane' \in [Sinks -> Seq(Nat)] /\ missed' \in BOOLEAN
      BY DEF SimHands, MainHands, Base, TypeOK
    <2> HIDE DEF t
    <2> QED
      BY <1>3, <2>1, <2>2 DEF Base, TypeOK, Places
  <1> HIDE DEF t
  <1>5. taken[t] = 0
    BY <1>1, <1>3 DEF Base, ArraysHold, Doing
  <1>6. ArraysHold'
    <2>1. ASSUME NEW u \in Threads, taken'[u] # 0
          PROVE  (Doing(u) = "sync" /\ taken[u] <= Len(buf[Stream(u)]))'
      BY <1>3, <1>5, <2>1 DEF Base, ArraysHold, Doing, Stream
    <2>2. ASSUME NEW z \in Streams
          PROVE  (pptr[z] <= Len(buf[z]) /\ pptr[z] < BufferSize + Waiting("sim", z) + Waiting("main", z))'
      <3>0. "sim" \in Threads /\ "main" \in Threads
        BY DEF Threads
      <3>1. \A u \in Threads : Waiting(u, z) \in {0, 1} /\ Waiting(u, z)' \in {0, 1}
        BY NotWaiting
      <3>2. \A u \in Threads : u # t => Waiting(u, z)' = Waiting(u, z)
        BY <1>3 DEF Waiting, ToSync
      <3>3. /\ pptr[z] < BufferSize + Waiting("sim", z) + Waiting("main", z) /\ pptr[z] \in Nat
            /\ pptr[z] <= Len(buf[z])
        BY DEF Base, ArraysHold, TypeOK
      <3>4. Waiting(t, z) = 0
        BY <1>1, <1>3, NotWaiting
      <3>5. Waiting("sim", z) <= Waiting("sim", z)' /\ Waiting("main", z) <= Waiting("main", z)'
        BY <3>0, <3>1, <3>2, <3>4
      <3>6. pptr'[z] = pptr[z] /\ buf'[z] = buf[z]
        BY <1>3
      <3>7. BufferSize \in Nat
        BY ConsoleAssumption DEF ConsoleAssumption
      <3>8. pptr[z] < BufferSize + Waiting("sim", z)' + Waiting("main", z)'
        BY <3>0, <3>1, <3>3, <3>5, <3>7
      <3> QED
        BY <3>3, <3>6, <3>8
    <2> QED
      BY <2>1, <2>2 DEF ArraysHold
  <1>7. BuildsAlone'
    <2>1. CASE SimHands(cs)
      BY <2>1 DEF SimHands, Hands, Base, BuildsAlone, TypeOK, Threads
    <2>2. CASE MainHands(cs)
      <3>1. calls'["sim"] = calls["sim"]
        BY <2>2 DEF MainHands, Hands, Base, TypeOK, Threads
      <3> QED
        BY <2>2, <3>1 DEF MainHands, Base, BuildsAlone
    <2> QED
      BY <2>1, <2>2
  <1> QED
    BY <1>4, <1>6, <1>7 DEF Base

\* Nobody is in a stream when a new thread starts.
LEMMA Starts ==
  ASSUME Base, Start
  PROVE  /\ \A t \in Threads : calls[t] = <<>> /\ taken[t] = 0
         /\ UNCHANGED <<written, calls, taken, queue, arrived, ctx, pane, missed>>
         /\ sim' = "idle" /\ main' = "idle"
         /\ \A z \in Streams : buf'[z] = <<>> /\ pptr'[z] = 0
  <1>1. calls["main"] = <<>> /\ calls["sim"] = <<>>
    BY DEF Start, Base, BuildsAlone
  <1>2. \A t \in Threads : calls[t] = <<>>
    BY <1>1 DEF Threads
  <1>3. \A t \in Threads : taken[t] = 0
    BY <1>2 DEF Base, ArraysHold, Doing
  <1> QED
    BY <1>2, <1>3 DEF Start, page

LEMMA StartBase ==
  ASSUME Base, Start, raced' \subseteq Ctxs
  PROVE  Base'
  <1>1. /\ \A t \in Threads : calls[t] = <<>> /\ taken[t] = 0
        /\ UNCHANGED <<written, calls, taken, queue, arrived, ctx, pane, missed>>
        /\ sim' = "idle" /\ main' = "idle"
        /\ \A z \in Streams : buf'[z] = <<>> /\ pptr'[z] = 0
    BY Starts
  <1>2. BufferSize \in Nat \ {0}
    BY ConsoleAssumption DEF ConsoleAssumption
  <1>3. TypeOK'
    <2>1. buf' \in [Streams -> Seq(Nat)] /\ pptr' \in [Streams -> 0 .. BufferSize + 1]
      BY <1>2 DEF Start
    <2>2. \A z \in Streams : buf'[z] \in Seq(Places(z))
      BY <1>1, EmptySeq
    <2> QED
      BY <1>1, <2>1, <2>2 DEF Base, TypeOK, Places, SimPc, MainPc
  <1>4. ArraysHold'
    <2>1. \A z \in Streams : Waiting("sim", z)' \in {0, 1} /\ Waiting("main", z)' \in {0, 1}
      BY NotWaiting DEF Threads
    <2> QED
      BY <1>1, <1>2, <2>1 DEF ArraysHold
  <1>5. BuildsAlone'
    BY <1>1 DEF BuildsAlone
  <1> QED
    BY <1>3, <1>4, <1>5 DEF Base

\* What running a posted text does.
LEMMA Delivers ==
  ASSUME Base, Deliver
  PROVE  /\ queue \in Seq([s : Streams, text : Seq(Nat)]) /\ queue # <<>> /\ queue' = Tail(queue)
         /\ Len(queue) \in Nat \ {0} /\ Head(queue) = queue[1]
         /\ Head(queue).s \in Streams /\ Head(queue).text \in Seq(Places(Head(queue).s))
         /\ WriteStd(Head(queue).s, Head(queue).text)
         /\ UNCHANGED <<written, buf, pptr, calls, taken, sim, main, ctx, missed>>
         /\ main \in {"idle", "switch", "join"}
  <1>1. queue \in Seq([s : Streams, text : Seq(Nat)]) /\ queue # <<>>
    BY DEF Base, TypeOK, Deliver
  <1>2. Len(queue) \in Nat \ {0} /\ Head(queue) \in [s : Streams, text : Seq(Nat)] /\ Head(queue) = queue[1]
    <2> DEFINE Q == [s : Streams, text : Seq(Nat)]
    <2>1. queue \in Seq(Q) /\ queue # <<>>
      BY <1>1
    <2> HIDE DEF Q
    <2>2. Len(queue) \in Nat \ {0} /\ Head(queue) \in Q /\ Head(queue) = queue[1]
      BY <2>1, HeadTailProperties, EmptySeq
    <2> QED
      BY <2>2 DEF Q
  <1>3. queue[1].text \in Seq(Places(queue[1].s))
    <2>1. 1 \in 1 .. Len(queue)
      BY <1>2
    <2> QED
      BY <2>1 DEF Base, TypeOK
  <1> QED
    BY <1>1, <1>2, <1>3 DEF Deliver, streams

LEMMA DeliverBase ==
  ASSUME Base, Deliver, raced' \subseteq Ctxs
  PROVE  Base'
  <1>1. /\ queue \in Seq([s : Streams, text : Seq(Nat)]) /\ queue # <<>> /\ queue' = Tail(queue)
        /\ Len(queue) \in Nat \ {0}
        /\ UNCHANGED <<written, buf, pptr, calls, taken, sim, main, ctx, missed>>
    BY Delivers
  <1>2. /\ arrived' \in [Streams -> Seq(Nat)] /\ pane' \in [Sinks -> Seq(Nat)]
        /\ \A z \in Streams : arrived'[z] \in Seq(Places(z))
    <2>1. /\ Head(queue).s \in Streams /\ Head(queue).text \in Seq(Places(Head(queue).s))
          /\ WriteStd(Head(queue).s, Head(queue).text)
      BY Delivers
    <2> QED
      BY <2>1, Writes
  <1>3. TypeOK'
    <2>1. /\ queue' \in Seq([s : Streams, text : Seq(Nat)]) /\ Len(queue') = Len(queue) - 1
          /\ \A i \in 1 .. Len(queue) - 1 : queue'[i] = queue[i + 1]
      BY <1>1, HeadTailProperties
    <2>2. ASSUME NEW i \in 1 .. Len(queue') PROVE (queue[i].text \in Seq(Places(queue[i].s)))'
      <3>1. i \in 1 .. Len(queue) - 1 /\ i + 1 \in 1 .. Len(queue)
        BY <1>1, <2>1
      <3>2. queue[i + 1].text \in Seq(Places(queue[i + 1].s))
        BY <3>1 DEF Base, TypeOK
      <3> QED
        BY <1>1, <2>1, <3>1, <3>2 DEF Places
    <2>3. \A z \in Streams : buf'[z] \in Seq(Places(z)') /\ arrived'[z] \in Seq(Places(z)')
      BY <1>1, <1>2 DEF Base, TypeOK, Places
    <2>4. /\ written' \in [Streams -> Seq(Kinds)] /\ pptr' \in [Streams -> 0 .. BufferSize + 1]
          /\ calls' \in [Threads -> Seq(Calls)] /\ taken' \in [Threads -> 0 .. BufferSize + 1]
          /\ buf' \in [Streams -> Seq(Nat)]
          /\ sim' \in SimPc /\ main' \in MainPc /\ ctx' \in Ctxs /\ missed' \in BOOLEAN
          /\ raced' \subseteq Ctxs
      BY <1>1 DEF Base, TypeOK
    <2> QED
      BY Zenon, <1>2, <2>1, <2>2, <2>3, <2>4 DEF TypeOK
  <1>4. ArraysHold' /\ BuildsAlone'
    BY <1>1 DEF Base, ArraysHold, BuildsAlone, Doing, Stream, Waiting, ToSync
  <1> QED
    BY <1>3, <1>4 DEF Base

LEMMA InitBase == Init => Base
  <1> SUFFICES ASSUME Init PROVE Base
    OBVIOUS
  <1>1. BufferSize \in Nat \ {0}
    BY ConsoleAssumption DEF ConsoleAssumption
  <1>2. TypeOK
    <2>1. queue = <<>> /\ \A s \in Streams : buf[s] = <<>> /\ arrived[s] = <<>>
      BY DEF Init
    <2> QED
      <3>1. \A s \in Streams : buf[s] \in Seq(Places(s)) /\ arrived[s] \in Seq(Places(s))
        BY <2>1, EmptySeq
      <3>2. \A i \in 1 .. Len(queue) : queue[i].text \in Seq(Places(queue[i].s))
        BY <2>1
      <3>3. /\ written \in [Streams -> Seq(Kinds)] /\ buf \in [Streams -> Seq(Nat)]
            /\ arrived \in [Streams -> Seq(Nat)] /\ calls \in [Threads -> Seq(Calls)]
            /\ pane \in [Sinks -> Seq(Nat)]
            /\ queue \in Seq([s : Streams, text : Seq(Nat)])
        BY DEF Init
      <3>4. /\ pptr \in [Streams -> 0 .. BufferSize + 1]
            /\ taken \in [Threads -> 0 .. BufferSize + 1]
        BY <1>1 DEF Init
      <3>5. /\ sim \in SimPc /\ main \in MainPc /\ ctx \in Ctxs /\ missed \in BOOLEAN
            /\ raced \subseteq Ctxs
        BY DEF Init, SimPc, MainPc
      <3> QED
        BY Zenon, <3>1, <3>2, <3>3, <3>4, <3>5 DEF TypeOK
  <1>3. ArraysHold
    <2>1. \A z \in Streams : Waiting("sim", z) \in {0, 1} /\ Waiting("main", z) \in {0, 1}
      BY NotWaiting DEF Threads
    <2>2. \A s \in Streams : buf[s] = <<>> /\ pptr[s] = 0
      BY DEF Init
    <2>3. \A t \in Threads : taken[t] = 0
      BY DEF Init
    <2> QED
      BY <1>1, <2>1, <2>2, <2>3 DEF ArraysHold
  <1>4. BuildsAlone
    BY DEF Init, BuildsAlone, Threads
  <1> QED
    BY <1>2, <1>3, <1>4 DEF Base

LEMMA WatchedRaced ==
  ASSUME TypeOK, Watched
  PROVE  raced' \subseteq Ctxs /\ raced \subseteq raced'
  BY DEF TypeOK, Watched

LEMMA NextBase ==
  ASSUME Base, Next
  PROVE  Base'
  <1>1. raced' \subseteq Ctxs
    BY WatchedRaced DEF Base, Next
  <1>2. \/ StreamStep("sim") \/ StreamStep("main")
        \/ (\E cs : SimHands(cs)) \/ (\E cs : MainHands(cs))
        \/ Start \/ Deliver
    BY NextSteps DEF Base, TypeOK, PageOK
  <1>3. ASSUME NEW t \in Threads, StreamStep(t) PROVE Base'
    <2>1. UNCHANGED <<sim, main>> /\ (Overflow(t) \/ SyncTake(t) \/ SyncPost(t))
      BY <1>3 DEF StreamStep
    <2> QED
      BY <1>1, <2>1, OverflowBase, TakeBase, PostBase
  <1> QED
    BY <1>1, <1>2, <1>3, HandsBase, StartBase, DeliverBase DEF Threads


-----------------------------------------------------------------------------
(* Who is in which stream *)

SimCalls == Lines \cup Syncs \cup (IF sim = "cycle" THEN Prints ELSE {})
MainCalls == Lines \cup (IF main = "build" THEN Syncs ELSE {})

\* A flush of the stream is still to come.
Pending(t, s) == \E i \in 1 .. Len(calls[t]) : calls[t][i] = Sync(s) /\ (i = 1 => taken[t] = 0)
Flushed(t, s) == pptr[s] = 0 \/ Pending(t, s)

\* The simulator thread prints during a cycle only, and has flushed stdout when it ends.  The
\* page writes messages, and touches stdout when it destroys images, whose streams it flushes
\* then.
Owners ==
  /\ calls["sim"] \in Seq(SimCalls) /\ calls["main"] \in Seq(MainCalls)
  /\ main = "build" => \A s \in Streams : Flushed("main", s)
  /\ sim = "flush" => \A c \in Ctxs : Flushed("sim", Out(c))
  /\ sim \in {"none", "exited"} => \A c \in Ctxs : pptr[Out(c)] = 0
  /\ taken["main"] # 0 => Stream("main")[2] = "err"
  /\ \A c \in Ctxs : \A i \in 1 .. Len(written[Err(c)]) : written[Err(c)][i] # "nul"

LEMMA Replaced ==
  ASSUME NEW S, NEW cs \in Seq(S), NEW x \in S
  PROVE  cs # <<>> => /\ <<x>> \o Tail(cs) \in Seq(S) /\ Len(<<x>> \o Tail(cs)) = Len(cs)
                      /\ (<<x>> \o Tail(cs))[1] = x /\ Head(<<x>> \o Tail(cs)) = x
                      /\ \A i \in 2 .. Len(cs) : (<<x>> \o Tail(cs))[i] = cs[i]
  <1>0. HAVE cs # <<>>
  <1> DEFINE y == Tail(cs)
             a == <<x>>
  <1>1. /\ y \in Seq(S) /\ Len(y) = Len(cs) - 1 /\ Len(cs) \in Nat \ {0}
        /\ \A i \in 1 .. Len(y) : y[i] = cs[i + 1]
    BY <1>0, HeadTailProperties, EmptySeq
  <1>2. a \in Seq(S) /\ Len(a) = 1 /\ a[1] = x
    OBVIOUS
  <1> HIDE DEF a, y
  <1>3. /\ a \o y \in Seq(S) /\ Len(a \o y) = Len(a) + Len(y)
        /\ \A i \in 1 .. Len(a) + Len(y) : (a \o y)[i] = IF i <= Len(a) THEN a[i] ELSE y[i - Len(a)]
    BY <1>1, <1>2, ConcatProperties
  <1>4. Len(a \o y) = Len(cs) /\ (a \o y)[1] = x
    BY <1>1, <1>2, <1>3
  <1>5. ASSUME NEW i \in 2 .. Len(cs) PROVE (a \o y)[i] = cs[i]
    <2>1. i \in 1 .. Len(a) + Len(y) /\ ~(i <= Len(a)) /\ i - 1 \in 1 .. Len(y) /\ (i - 1) + 1 = i
      BY <1>1, <1>2
    <2> QED
      BY <1>1, <1>2, <1>3, <2>1
  <1>6. Head(a \o y) = x
    <2> DEFINE w == a \o y
    <2>1. w \in Seq(S) /\ Len(w) # 0 /\ w[1] = x
      BY <1>1, <1>3, <1>4
    <2> HIDE DEF w
    <2>2. Head(w) = x
      BY <2>1
    <2> QED
      BY Zenon, <2>2 DEF w
  <1> QED
    BY Zenon, <1>3, <1>4, <1>5, <1>6 DEF a, y

\* What a thread has to do after a step in a stream.
LEMMA CallsKept ==
  ASSUME Base, NEW t \in Threads, Overflow(t) \/ SyncTake(t) \/ SyncPost(t),
         NEW C, C \subseteq Calls, calls[t] \in Seq(C), Overflow(t) => Sync(Stream(t)) \in C
  PROVE  calls'[t] \in Seq(C)
  <1> DEFINE x == Tail(calls[t])
  <1>1. calls[t] # <<>>
    BY Puts, Takes, Posts
  <1>2. x \in Seq(C)
    BY <1>1, HeadTailProperties
  <1> HIDE DEF x
  <1>3. CASE Overflow(t)
    <2> DEFINE y == Sync(Stream(t))
    <2>1. calls \in [Threads -> Seq(Calls)]
      BY DEF Base, TypeOK
    <2>2. calls'[t] = x \/ calls'[t] = <<y>> \o x
      <3> DEFINE f == IF Full(pptr[Stream(t)] + 1, Head(calls[t]).kind) THEN <<y>> ELSE <<>>
      <3>1. calls' = [calls EXCEPT ![t] = f \o Tail(@)]
        BY Zenon, <1>3 DEF Overflow
      <3>2. f = <<y>> \/ f = <<>>
        BY Zenon
      <3> HIDE DEF f
      <3>3. calls'[t] = f \o x
        BY <2>1, <3>1 DEF x
      <3>4. <<>> \o x = x
        BY <1>2, ConcatEmptySeq
      <3> QED
        BY Zenon, <3>2, <3>3, <3>4
    <2>3. y \in C
      BY <1>3
    <2> HIDE DEF y
    <2>4. <<y>> \in Seq(C)
      BY <2>3
    <2> DEFINE z == <<y>>
    <2>5. z \o x \in Seq(C)
      <3>1. z \in Seq(C)
        BY <2>4
      <3> HIDE DEF z
      <3> QED
        BY <1>2, <3>1, ConcatProperties
    <2> QED
      BY Zenon, <1>2, <2>2, <2>5
  <1>4. CASE SyncTake(t) \/ SyncPost(t)
    <2>1. calls'[t] = x \/ calls'[t] = calls[t]
      BY <1>4, Takes, Posts DEF x
    <2> QED
      BY <1>2, <2>1
  <1> QED
    BY <1>3, <1>4

\* A thread that flushes what it writes leaves no stream without a flush to come.
LEMMA FlushKept ==
  ASSUME Base, NEW t \in Threads, Overflow(t) \/ SyncTake(t) \/ SyncPost(t),
         Overflow(t) => Head(calls[t]).kind = "newline",
         NEW z \in Streams, Flushed(t, z)
  PROVE  Flushed(t, z)'
  <1> DEFINE s == Stream(t)
             cs == calls[t]
  <1>1. cs # <<>>
    BY Puts, Takes, Posts
  <1>2. /\ cs \in Seq(Calls) /\ Head(cs) \in Calls /\ Head(cs) = cs[1] /\ s \in Streams
        /\ Len(cs) \in Nat \ {0} /\ Len(Tail(cs)) = Len(cs) - 1
        /\ \A i \in 1 .. Len(cs) - 1 : Tail(cs)[i] = cs[i + 1]
    BY <1>1, HeadCall DEF Base
  <1>3. Head(cs).s = s
    BY Zenon DEF Stream
  <1> HIDE DEF cs
  <1>4. CASE Overflow(t)
    <2>1. /\ taken[t] = 0 /\ Head(cs).op = "put"
          /\ \A y \in Streams : y # s => pptr'[y] = pptr[y]
      BY <1>4, Puts DEF Base, TypeOK, cs
    <2>2. taken' = taken
      BY <1>4 DEF Overflow
    <2>3. Sync(s) \in Calls
      BY <1>2 DEF Sync, Calls, Kinds
    <2>4. calls'[t] = <<Sync(s)>> \o Tail(cs)
      <3>1. Full(pptr[s] + 1, Head(calls[t]).kind)
        BY <1>4 DEF Full
      <3> DEFINE f == <<Sync(s)>>
      <3>2. calls' = [calls EXCEPT ![t] = f \o Tail(@)]
        BY Zenon, <1>4, <3>1 DEF Overflow
      <3> HIDE DEF f
      <3>3. calls'[t] = f \o Tail(cs)
        BY <3>2 DEF Base, TypeOK, cs
      <3> QED
        BY Zenon, <3>3 DEF f
    <2> DEFINE d == <<Sync(s)>> \o Tail(cs)
    <2>5. /\ Len(d) = Len(cs) /\ d[1] = Sync(s)
          /\ \A i \in 2 .. Len(cs) : d[i] = cs[i]
      BY <1>1, <1>2, <2>3, Replaced DEF cs
    <2> HIDE DEF d
    <2>6. \E i \in 1 .. Len(d) : d[i] = Sync(z) \/ pptr'[z] = 0
      <3>1. CASE z = s
        <4>1. 1 \in 1 .. Len(d)
          BY <1>2, <2>5
        <4> QED
          BY <2>5, <3>1, <4>1
      <3>2. CASE z # s /\ pptr[z] = 0
        <4>1. 1 \in 1 .. Len(d) /\ pptr'[z] = 0
          BY <1>2, <2>1, <2>5, <3>2
        <4> QED
          BY <4>1
      <3>3. CASE pptr[z] # 0
        <4>1. PICK i \in 1 .. Len(cs) : cs[i] = Sync(z)
          BY <3>3 DEF Flushed, Pending, cs
        <4>2. i # 1
          BY <1>2, <2>1, <4>1 DEF Sync
        <4>3. i \in 2 .. Len(cs) /\ i \in 1 .. Len(d)
          BY <1>2, <2>5, <4>2
        <4> QED
          BY <2>5, <4>1, <4>3
      <3> QED
        BY <3>1, <3>2, <3>3
    <2> QED
      BY <2>1, <2>2, <2>4, <2>6 DEF Flushed, Pending, d
  <1>5. CASE SyncTake(t)
    <2>1. /\ taken[t] = 0 /\ pptr'[s] = 0 /\ \A y \in Streams : y # s => pptr'[y] = pptr[y]
          /\ taken'[t] = pptr[s]
          /\ calls'[t] = (IF pptr[s] = 0 THEN Tail(cs) ELSE cs)
      BY <1>5, Takes DEF cs
    <2>2. CASE z = s
      BY <2>1, <2>2 DEF Flushed
    <2>3. CASE z # s /\ pptr[z] = 0
      BY <2>1, <2>3 DEF Flushed
    <2>4. CASE z # s /\ pptr[z] # 0
      <3>1. PICK i \in 1 .. Len(cs) : cs[i] = Sync(z)
        BY <2>4 DEF Flushed, Pending, cs
      <3>2. i # 1
        BY <1>2, <1>3, <2>4, <3>1 DEF Sync
      <3>3. CASE pptr[s] = 0
        <4>1. /\ i - 1 \in 1 .. Len(cs) - 1 /\ (i - 1) + 1 = i /\ i - 1 \in 1 .. Len(Tail(cs))
          BY <1>2, <3>2
        <4>2. Tail(cs)[i - 1] = Sync(z) /\ taken'[t] = 0 /\ calls'[t] = Tail(cs)
          BY <1>2, <2>1, <3>1, <3>3, <4>1
        <4> QED
          BY <4>1, <4>2 DEF Flushed, Pending
      <3>4. CASE pptr[s] # 0
        BY <2>1, <3>1, <3>2, <3>4 DEF Flushed, Pending
      <3> QED
        BY <3>3, <3>4
    <2> QED
      BY <2>2, <2>3, <2>4
  <1>6. CASE SyncPost(t)
    <2>1. taken[t] # 0 /\ taken'[t] = 0 /\ pptr' = pptr /\ calls'[t] = Tail(cs)
      BY <1>6, Posts DEF cs
    <2>2. CASE pptr[z] = 0
      BY <2>1, <2>2 DEF Flushed
    <2>3. CASE pptr[z] # 0
      <3>1. PICK i \in 1 .. Len(cs) : cs[i] = Sync(z) /\ i # 1
        BY <2>1, <2>3 DEF Flushed, Pending, cs
      <3>2. i - 1 \in 1 .. Len(cs) - 1 /\ (i - 1) + 1 = i /\ i - 1 \in 1 .. Len(Tail(cs))
        BY <1>2, <3>1
      <3>3. Tail(cs)[i - 1] = Sync(z)
        BY <1>2, <3>1, <3>2
      <3> QED
        BY <2>1, <3>2, <3>3 DEF Flushed, Pending
    <2> QED
      BY <2>2, <2>3
  <1> QED
    BY <1>4, <1>5, <1>6


\* What a thread does next in a stream is among what it may do there.
LEMMA OwnHead ==
  ASSUME Base, Owners
  PROVE  /\ calls["sim"] # <<>> => Head(calls["sim"]) \in SimCalls
         /\ calls["main"] # <<>> => Head(calls["main"]) \in MainCalls
  <1>1. \A C : \A cs \in Seq(C) : cs # <<>> => Head(cs) \in C
    BY HeadTailProperties
  <1> QED
    BY Zenon, <1>1 DEF Owners

\* The page's thread puts messages only; the simulator thread puts anything in a cycle only.
LEMMA OwnPuts ==
  ASSUME Base, Owners, NEW t \in Threads, Overflow(t)
  PROVE  /\ t = "main" \/ sim # "cycle" => Head(calls[t]).kind = "newline" /\ Stream(t)[2] = "err"
         /\ Stream(t)[2] = "err" => Head(calls[t]).kind # "nul"
  <1>1. calls[t] # <<>> /\ Head(calls[t]).op = "put"
    BY Puts
  <1>2. t = "sim" \/ t = "main"
    BY DEF Threads
  <1>3. /\ t = "sim" => Head(calls[t]) \in SimCalls
        /\ t = "main" => Head(calls[t]) \in MainCalls
    BY <1>1, OwnHead
  <1>4. Head(calls[t]) \notin Syncs
    BY <1>1 DEF Syncs, Sync
  <1> QED
    BY <1>1, <1>2, <1>3, <1>4 DEF SimCalls, MainCalls, Lines, Prints, Stream

\* A thread is in stdout during a cycle, when it ends, or when it destroys images.
LEMMA OwnStdout ==
  ASSUME Base, Owners, calls["main"] # <<>>, Stream("main")[2] = "out"
  PROVE  main = "build" /\ calls["sim"] = <<>> /\ pptr[Stream("main")] = 0
  <1>1. Head(calls["main"]) \in MainCalls /\ "main" \in Threads
    BY OwnHead DEF Threads
  <1>2. main = "build"
    BY <1>1 DEF MainCalls, Lines, Stream
  <1>3. sim \in {"none", "exited"} /\ calls["sim"] = <<>>
    BY <1>2 DEF Base, BuildsAlone
  <1>4. Stream("main") \in Streams
    BY <1>1, HeadCall DEF Base
  <1>5. PICK c \in Ctxs : Stream("main") = Out(c)
    BY <1>4 DEF Streams, Out
  <1> QED
    BY <1>2, <1>3, <1>5 DEF Owners

LEMMA StreamOwners ==
  ASSUME Base, Owners, NEW t \in Threads, StreamStep(t)
  PROVE  Owners'
  <1> DEFINE s == Stream(t)
  <1>1. /\ UNCHANGED <<sim, main>> /\ (Overflow(t) \/ SyncTake(t) \/ SyncPost(t))
        /\ calls[t] # <<>> /\ s \in Streams /\ (t = "sim" \/ t = "main")
    BY Puts, Takes, Posts DEF StreamStep, Threads
  <1>2. \A u \in Threads : u # t => calls'[u] = calls[u] /\ taken'[u] = taken[u]
    <2>1. CASE Overflow(t)
      BY <2>1 DEF Overflow, Base, TypeOK
    <2>2. CASE SyncTake(t) \/ SyncPost(t)
      BY <2>2, Takes, Posts
    <2> QED
      BY <1>1, <2>1, <2>2
  <1>3. Lines \subseteq Calls /\ Prints \subseteq Calls /\ Syncs \subseteq Calls
    BY CallTypes
  <1>4. Overflow(t) => /\ t = "main" \/ sim # "cycle" => Head(calls[t]).kind = "newline" /\ s[2] = "err"
                       /\ s[2] = "err" => Head(calls[t]).kind # "nul"
    BY OwnPuts
  <1>5. Sync(s) \in Syncs /\ (s[2] = "err" => Sync(s) \in Lines)
    <2>1. Sync(s) \in Syncs
      BY <1>1 DEF Syncs
    <2> QED
      BY <1>1, <1>3, <2>1 DEF Lines, Sync
  <1>6. \A z \in Streams : /\ pptr'[z] = pptr[z] \/ pptr'[z] = 0 \/ (Overflow(t) /\ z = s)
                           /\ written'[z] = written[z] \/ (Overflow(t) /\ z = s)
    <2>1. CASE Overflow(t)
      BY <2>1, Puts DEF Base, TypeOK
    <2>2. CASE SyncTake(t)
      BY <2>2, Takes
    <2>3. CASE SyncPost(t)
      BY <2>3, Posts
    <2> QED
      BY <1>1, <2>1, <2>2, <2>3
  <1>7. \A c \in Ctxs : Out(c) \in Streams /\ Out(c)[2] = "out" /\ Err(c) \in Streams /\ Err(c)[2] = "err"
    BY DEF Out, Err, Streams, Sinks
  <1>8. calls'["sim"] \in Seq(SimCalls')
    <2>1. SimCalls' = SimCalls /\ SimCalls \subseteq Calls /\ Sync(s) \in SimCalls
      BY <1>1, <1>3, <1>5 DEF SimCalls
    <2>2. calls["sim"] \in Seq(SimCalls)
      BY DEF Owners
    <2>3. CASE t = "sim"
      BY <1>1, <2>1, <2>2, <2>3, CallsKept
    <2>4. CASE t # "sim"
      BY <1>2, <2>1, <2>2, <2>4 DEF Threads
    <2> QED
      BY <2>3, <2>4
  <1>9. calls'["main"] \in Seq(MainCalls')
    <2>1. MainCalls' = MainCalls /\ MainCalls \subseteq Calls
      BY <1>1, <1>3 DEF MainCalls
    <2>2. calls["main"] \in Seq(MainCalls)
      BY DEF Owners
    <2>3. CASE t = "main"
      <3>1. Overflow(t) => Sync(s) \in MainCalls
        BY <1>4, <1>5, <2>3 DEF MainCalls
      <3> QED
        BY <1>1, <2>1, <2>2, <2>3, <3>1, CallsKept
    <2>4. CASE t # "main"
      BY <1>2, <2>1, <2>2, <2>4 DEF Threads
    <2> QED
      BY <2>3, <2>4
  <1>10. main' = "build" => \A z \in Streams : Flushed("main", z)'
    <2> SUFFICES ASSUME main = "build", NEW z \in Streams PROVE Flushed("main", z)'
      BY <1>1
    <2>1. t = "main"
      BY <1>1 DEF Base, BuildsAlone
    <2>2. Flushed("main", z) /\ (Overflow(t) => Head(calls[t]).kind = "newline")
      BY <1>4, <2>1 DEF Owners
    <2> QED
      BY <1>1, <2>1, <2>2, FlushKept
  <1>11. sim' = "flush" => \A c \in Ctxs : Flushed("sim", Out(c))'
    <2> SUFFICES ASSUME sim = "flush", NEW c \in Ctxs PROVE Flushed("sim", Out(c))'
      BY <1>1 DEF Out
    <2> DEFINE z == Out(c)
    <2>1. Flushed("sim", z) /\ z \in Streams
      BY <1>7 DEF Owners
    <2>2. CASE t = "sim"
      <3>1. Overflow(t) => Head(calls[t]).kind = "newline"
        BY <1>4
      <3> QED
        BY <1>1, <2>1, <2>2, <3>1, FlushKept
    <2>3. CASE t = "main"
      <3>1. pptr'[z] = pptr[z] \/ pptr'[z] = 0
        BY <1>4, <1>6, <1>7, <2>3
      <3>2. Pending("sim", z)' = Pending("sim", z)
        BY <1>2, <2>3 DEF Pending, Threads, Out
      <3> QED
        BY <2>1, <3>1, <3>2 DEF Flushed, Out
    <2> QED
      BY <1>1, <2>2, <2>3
  <1>12. sim' \in {"none", "exited"} => \A c \in Ctxs : pptr'[Out(c)] = 0
    <2> SUFFICES ASSUME sim \in {"none", "exited"}, NEW c \in Ctxs PROVE pptr'[Out(c)] = 0
      BY <1>1
    <2>1. pptr[Out(c)] = 0
      BY DEF Owners
    <2> QED
      BY <1>4, <1>6, <1>7, <2>1
  <1>13. taken'["main"] # 0 => Stream("main")'[2] = "err"
    <2> SUFFICES ASSUME taken'["main"] # 0 PROVE Stream("main")'[2] = "err"
      OBVIOUS
    <2>1. CASE t # "main"
      <3>1. taken["main"] # 0 /\ calls'["main"] = calls["main"]
        BY <1>2, <2>1 DEF Threads
      <3> QED
        BY <3>1 DEF Owners, Stream
    <2>2. CASE t = "main"
      <3>1. SyncTake(t)
        <4>1. CASE Overflow(t)
          BY <2>2, <4>1, Puts DEF Overflow
        <4>2. CASE SyncPost(t)
          BY <2>2, <4>2, Posts
        <4> QED
          BY <1>1, <4>1, <4>2
      <3>2. pptr[s] # 0 /\ calls'["main"] = calls["main"]
        BY <2>2, <3>1, Takes
      <3>3. s[2] # "out"
        BY <1>1, <2>2, <3>2, OwnStdout
      <3>4. s[2] = "err"
        BY <1>1, <3>3 DEF Streams, Sinks
      <3> QED
        BY <2>2, <3>2, <3>4 DEF Stream
    <2> QED
      BY <2>1, <2>2
  <1>14. ASSUME NEW c \in Ctxs, NEW i \in 1 .. Len(written'[Err(c)])
         PROVE  written'[Err(c)][i] # "nul"
    <2>1. CASE written'[Err(c)] = written[Err(c)]
      BY <2>1 DEF Owners
    <2>2. CASE Overflow(t) /\ Err(c) = s
      <3> DEFINE w == written[s]
                 k == Head(calls[t]).kind
      <3>1. written'[s] = Append(w, k) /\ w \in Seq(Kinds) /\ k \in Kinds /\ k # "nul"
        BY <1>1, <1>4, <1>7, <2>2, Puts DEF Base, TypeOK
      <3>2. \A j \in 1 .. Len(w) : w[j] # "nul"
        BY <2>2 DEF Owners
      <3>3. i \in 1 .. Len(written'[s]) /\ written'[s][i] = written'[Err(c)][i]
        BY <2>2
      <3> HIDE DEF w, k, s
      <3>4. /\ Len(written'[s]) = Len(w) + 1 /\ Len(w) \in Nat
            /\ \A j \in 1 .. Len(w) : written'[s][j] = w[j]
            /\ written'[s][Len(w) + 1] = k
        BY <3>1, AppendProperties, LenProperties
      <3>5. i \in 1 .. Len(w) \/ i = Len(w) + 1
        BY <3>3, <3>4
      <3> QED
        BY <3>1, <3>2, <3>3, <3>4, <3>5
    <2> QED
      BY <1>6, <1>7, <2>1, <2>2
  <1> QED
    BY <1>8, <1>9, <1>10, <1>11, <1>12, <1>13, <1>14 DEF Owners, Out, Err


LEMMA HandsOwners ==
  ASSUME Base, Owners, NEW cs, SimHands(cs) \/ MainHands(cs)
  PROVE  Owners'
  <1>1. /\ UNCHANGED <<written, buf, pptr, taken, queue, arrived>>
        /\ calls \in [Threads -> Seq(Calls)]
    BY DEF SimHands, MainHands, Hands, Base, TypeOK
  <1>2. \A c \in Ctxs : Out(c) \in Streams
    BY DEF Out, Streams, Sinks
  <1>3. \A t \in Threads : taken'[t] = 0 /\ AllSynced(calls'[t]) => \A z \in Streams : Flushed(t, z)'
    BY DEF Flushed, Pending, AllSynced
  <1>4. \A A, B : A \subseteq B => \A x \in Seq(A) : x \in Seq(B)
    BY SeqMonotonic
  <1>5. CASE SimHands(cs)
    <2>1. /\ calls'["sim"] = cs /\ calls'["main"] = calls["main"] /\ main' = main
          /\ calls["sim"] = <<>> /\ taken["sim"] = 0
      <3>1. calls["sim"] = <<>> /\ calls' = [calls EXCEPT !["sim"] = cs] /\ main' = main
        BY <1>5 DEF SimHands, Hands
      <3>2. taken["sim"] = 0
        BY <3>1 DEF Base, ArraysHold, Doing, Threads
      <3> QED
        BY <1>1, <3>1, <3>2 DEF Threads
    <2>2. calls'["sim"] \in Seq(SimCalls')
      <3>1. CASE sim' = "cycle" /\ cs \in Seq(Lines \cup Prints)
        <4>1. Lines \cup Prints \subseteq SimCalls'
          BY <3>1 DEF SimCalls
        <4> QED
          BY <1>4, <2>1, <3>1, <4>1
      <3>2. CASE cs \in Seq(Lines) \/ cs \in Seq(Lines \cup Syncs) \/ cs = <<>>
        <4>1. Lines \subseteq SimCalls' /\ Lines \cup Syncs \subseteq SimCalls'
          BY DEF SimCalls
        <4>2. <<>> \in Seq(SimCalls')
          BY EmptySeq
        <4> QED
          BY <1>4, <2>1, <3>2, <4>1, <4>2
      <3> QED
        BY <1>5, <3>1, <3>2 DEF SimHands
    <2>3. calls'["main"] \in Seq(MainCalls') /\ (taken'["main"] # 0 => Stream("main")'[2] = "err")
      <3>1. MainCalls' = MainCalls /\ calls'["main"] = calls["main"] /\ taken' = taken
        BY <1>1, <2>1 DEF MainCalls
      <3> QED
        BY <3>1 DEF Owners, Stream
    <2>4. main' = "build" => \A z \in Streams : Flushed("main", z)'
      <3>1. \A z \in Streams : Flushed("main", z)' = Flushed("main", z)
        BY <1>1, <2>1 DEF Flushed, Pending
      <3> QED
        BY <2>1, <3>1 DEF Owners
    <2>5. sim' = "flush" => \A c \in Ctxs : Flushed("sim", Out(c))'
      <3> SUFFICES ASSUME sim' = "flush" PROVE \A c \in Ctxs : Flushed("sim", Out(c))'
        OBVIOUS
      <3>1. AllSynced(cs) /\ taken'["sim"] = 0
        BY <1>1, <1>5, <2>1 DEF SimHands
      <3>2. \A z \in Streams : Flushed("sim", z)'
        BY <1>3, <2>1, <3>1 DEF Threads
      <3> QED
        BY <1>2, <3>2 DEF Out
    <2>6. sim' \in {"none", "exited"} => \A c \in Ctxs : pptr'[Out(c)] = 0
      <3> SUFFICES ASSUME sim' \in {"none", "exited"}, NEW c \in Ctxs PROVE pptr'[Out(c)] = 0
        OBVIOUS
      <3>1. sim = "flush"
        BY <1>5 DEF SimHands
      <3>2. Flushed("sim", Out(c)) /\ ~Pending("sim", Out(c))
        BY <2>1, <3>1 DEF Owners, Pending
      <3> QED
        BY <1>1, <3>2 DEF Flushed
    <2> QED
      BY <1>1, <2>2, <2>3, <2>4, <2>5, <2>6 DEF Owners, Out, Err
  <1>6. CASE MainHands(cs)
    <2>1. /\ calls'["main"] = cs /\ calls'["sim"] = calls["sim"] /\ sim' = sim
          /\ calls["main"] = <<>> /\ taken["main"] = 0
      <3>1. calls["main"] = <<>> /\ calls' = [calls EXCEPT !["main"] = cs] /\ sim' = sim
        BY <1>6 DEF MainHands, Hands
      <3>2. taken["main"] = 0
        BY <3>1 DEF Base, ArraysHold, Doing, Threads
      <3> QED
        BY <1>1, <3>1, <3>2 DEF Threads
    <2>2. calls'["main"] \in Seq(MainCalls')
      <3>1. CASE main' = "build" /\ cs \in Seq(Syncs)
        <4>1. Syncs \subseteq MainCalls'
          BY <3>1 DEF MainCalls
        <4> QED
          BY <1>4, <2>1, <3>1, <4>1
      <3>2. CASE cs \in Seq(Lines)
        <4>1. Lines \subseteq MainCalls'
          BY DEF MainCalls
        <4> QED
          BY <1>4, <2>1, <3>2, <4>1
      <3> QED
        BY <1>6, <3>1, <3>2 DEF MainHands
    <2>3. calls'["sim"] \in Seq(SimCalls') /\ taken'["main"] = 0
      <3>1. SimCalls' = SimCalls
        BY <2>1 DEF SimCalls
      <3> QED
        BY <1>1, <2>1, <3>1 DEF Owners
    <2>4. main' = "build" => \A z \in Streams : Flushed("main", z)'
      <3>1. CASE main = "join" /\ AllSynced(cs)
        BY <1>1, <1>3, <2>1, <3>1 DEF Threads
      <3>2. CASE main = "build"
        <4>1. \A z \in Streams : Flushed("main", z) /\ ~Pending("main", z)
          BY <2>1, <3>2 DEF Owners, Pending
        <4> QED
          BY <1>1, <4>1 DEF Flushed
      <3> QED
        BY <1>6, <3>1, <3>2 DEF MainHands
    <2>5. sim' = "flush" => \A c \in Ctxs : Flushed("sim", Out(c))'
      <3>1. \A z \in Streams : Flushed("sim", z)' = Flushed("sim", z)
        BY <1>1, <2>1 DEF Flushed, Pending
      <3> QED
        BY <1>2, <2>1, <3>1 DEF Owners, Out
    <2>6. sim' \in {"none", "exited"} => \A c \in Ctxs : pptr'[Out(c)] = 0
      BY <1>1, <2>1 DEF Owners
    <2> QED
      BY <1>1, <2>2, <2>3, <2>4, <2>5, <2>6 DEF Owners, Out, Err
  <1> QED
    BY <1>5, <1>6

LEMMA StartOwners ==
  ASSUME Base, Owners, Start
  PROVE  Owners'
  <1>1. /\ \A t \in Threads : calls[t] = <<>> /\ taken[t] = 0
        /\ UNCHANGED <<written, calls, taken>> /\ sim' = "idle" /\ main' = "idle"
    BY Starts
  <1>2. calls'["sim"] = <<>> /\ calls'["main"] = <<>> /\ taken'["main"] = 0
    BY <1>1 DEF Threads
  <1>3. calls'["sim"] \in Seq(SimCalls') /\ calls'["main"] \in Seq(MainCalls')
    BY <1>2, EmptySeq
  <1> QED
    BY <1>1, <1>2, <1>3 DEF Owners, Err

LEMMA NextOwners ==
  ASSUME Base, Owners, Next
  PROVE  Owners'
  <1>1. \/ StreamStep("sim") \/ StreamStep("main")
        \/ (\E cs : SimHands(cs)) \/ (\E cs : MainHands(cs))
        \/ Start \/ Deliver
    BY NextSteps DEF Base, TypeOK, PageOK
  <1>2. CASE Deliver
    <2>1. UNCHANGED <<written, pptr, calls, taken, sim, main>>
      BY <1>2, Delivers
    <2> QED
      BY <2>1 DEF Owners, SimCalls, MainCalls, Flushed, Pending, Stream, Out, Err
  <1> QED
    BY <1>1, <1>2, StreamOwners, HandsOwners, StartOwners DEF Threads

LEMMA InitOwners == Init => Owners
  <1> SUFFICES ASSUME Init PROVE Owners
    OBVIOUS
  <1>1. /\ calls["sim"] = <<>> /\ calls["main"] = <<>> /\ taken["main"] = 0
        /\ \A z \in Streams : pptr[z] = 0 /\ written[z] = <<>>
        /\ sim = "none"
    BY DEF Init, Threads
  <1>2. calls["sim"] \in Seq(SimCalls) /\ calls["main"] \in Seq(MainCalls)
    BY <1>1, EmptySeq
  <1>3. \A c \in Ctxs : Out(c) \in Streams /\ Err(c) \in Streams
    BY DEF Out, Err, Streams, Sinks
  <1> QED
    BY <1>1, <1>2, <1>3 DEF Owners, Flushed


-----------------------------------------------------------------------------
(* What is in a buffer of stdout *)

\* It was written last, and a newline among it is about to be flushed.
Fresh(s) ==
  \A j \in 1 .. pptr[s] :
    /\ buf[s][j] = Len(written[s]) - pptr[s] + j
    /\ written[s][buf[s][j]] = "newline" => j = pptr[s] /\ ToSync("sim", s)

LastWritten == \A c \in Ctxs : Fresh(Out(c))

LEMMA StreamLast ==
  ASSUME Base, Owners, LastWritten, NEW t \in Threads, StreamStep(t)
  PROVE  LastWritten'
  <1> SUFFICES ASSUME NEW c \in Ctxs PROVE Fresh(Out(c))'
    BY DEF LastWritten, Out
  <1> DEFINE s == Stream(t)
             z == Out(c)
  <1>1. /\ Overflow(t) \/ SyncTake(t) \/ SyncPost(t)
        /\ calls[t] # <<>> /\ s \in Streams /\ (t = "sim" \/ t = "main")
    BY Puts, Takes, Posts DEF StreamStep, Threads
  <1>2. z \in Streams /\ z[2] = "out" /\ Fresh(z)
    BY DEF Out, Streams, Sinks, LastWritten
  <1>3. \A u \in Threads : u # t => calls'[u] = calls[u] /\ taken'[u] = taken[u]
    <2>1. CASE Overflow(t)
      BY <2>1 DEF Overflow, Base, TypeOK
    <2>2. CASE SyncTake(t) \/ SyncPost(t)
      BY <2>2, Takes, Posts
    <2> QED
      BY <1>1, <2>1, <2>2
  <1>4. t # "sim" \/ s # z \/ Overflow(t) \/ SyncPost(t) => (ToSync("sim", z) => ToSync("sim", z)')
    <2>1. CASE t # "sim"
      BY <1>3, <2>1 DEF ToSync, Threads, Out
    <2>2. CASE t = "sim" /\ s # z
      BY <2>2 DEF ToSync, Stream, Sync
    <2>3. CASE t = "sim" /\ Overflow(t)
      BY <2>3 DEF ToSync, Overflow, Doing, Sync
    <2>4. CASE t = "sim" /\ SyncPost(t)
      BY <2>4, Posts DEF ToSync
    <2> QED
      BY <2>1, <2>2, <2>3, <2>4
  <1>5. CASE Overflow(t) /\ z # s
    <2>1. written'[z] = written[z] /\ pptr'[z] = pptr[z] /\ buf'[z] = buf[z]
      BY <1>2, <1>5, Puts DEF Base, TypeOK
    <2>2. ToSync("sim", z) => ToSync("sim", z)'
      BY <1>4, <1>5
    <2> QED
      BY <1>2, <2>1, <2>2 DEF Fresh, Out
  <1>6. CASE Overflow(t) /\ z = s
    <2> DEFINE n == Len(written[s])
               p == pptr[s] + 1
               k == Head(calls[t]).kind
               b == StoreAt(buf[s], p, n + 1)
    <2>1. /\ taken[t] = 0 /\ k \in Kinds /\ n \in Nat /\ Len(buf[s]) \in Nat
          /\ pptr[s] \in Nat /\ pptr[s] <= Len(buf[s])
          /\ written'[s] = Append(written[s], k)
      BY <1>6, Puts
    <2>2. buf'[s] = b /\ pptr'[s] = p
      BY <1>1, <1>6, Puts DEF Base, TypeOK
    <2>3. t = "sim"
      BY <1>1, <1>2, <1>6, OwnPuts
    <2>4. written[s] \in Seq(Kinds) /\ buf[s] \in Seq(Nat) /\ buf[s] \in Seq(Places(s))
      BY <1>1 DEF Base, TypeOK
    <2>5. /\ Len(written'[s]) = n + 1 /\ written'[s][n + 1] = k
          /\ \A i \in 1 .. n : written'[s][i] = written[s][i]
      BY <2>1, <2>4, AppendProperties
    <2>6. p \in 1 .. Len(buf[s]) + 1 /\ p \in Nat \ {0} /\ p - 1 = pptr[s] /\ n + 1 \in Nat
      BY <2>1
    <2> HIDE DEF n, p, k
    <2>7. b[p] = n + 1 /\ \A i \in 1 .. p - 1 : b[i] = buf[s][i]
      <3> DEFINE u == buf[s]
                 x == n + 1
      <3>1. u \in Seq(Nat) /\ p \in 1 .. Len(u) + 1 /\ x \in Nat
        BY <2>4, <2>6
      <3> HIDE DEF u, x
      <3>2. StoreAt(u, p, x)[p] = x /\ \A i \in 1 .. p - 1 : StoreAt(u, p, x)[i] = u[i]
        BY <3>1, Stored
      <3> QED
        BY Zenon, <3>2 DEF u, x
    <2> HIDE DEF b
    <2>8. ASSUME k = "newline" PROVE ToSync("sim", z)'
      <3>1. Full(p, k)
        BY <2>8 DEF Full
      <3> DEFINE y == Sync(s)
                 x == Tail(calls[t])
      <3>2. calls' = [calls EXCEPT ![t] = <<y>> \o Tail(@)] /\ taken' = taken
        BY <1>6, <3>1 DEF Overflow, p, k
      <3>3. calls'[t] = <<y>> \o x
        BY <3>2 DEF Base, TypeOK
      <3>4. y \in Calls /\ calls[t] \in Seq(Calls)
        BY <1>1, HeadCall DEF Base, Sync, Calls, Kinds
      <3> DEFINE w == <<y>> \o x
      <3>5. w \in Seq(Calls) /\ Len(w) = Len(calls[t]) /\ Head(w) = y /\ Len(calls[t]) # 0
        <4> HIDE DEF y
        <4>1. Len(calls[t]) # 0
          BY <1>1, <3>4, EmptySeq
        <4> QED
          BY <1>1, <3>4, <4>1, Replaced
      <3> HIDE DEF w
      <3>6. w # <<>>
        BY <3>5, EmptySeq
      <3>7. calls'[t] = w
        BY Zenon, <3>3 DEF w
      <3>8. y = Sync(z)
        BY <1>6
      <3> QED
        BY <2>1, <2>3, <3>2, <3>5, <3>6, <3>7, <3>8 DEF ToSync, Sync, Out
    <2>9. ASSUME NEW j \in 1 .. p
          PROVE  /\ b[j] = (n + 1) - p + j
                 /\ written'[s][b[j]] = "newline" => j = p /\ ToSync("sim", z)'
      <3>1. CASE j = p
        <4>1. b[j] = n + 1 /\ (n + 1) - p + j = n + 1
          BY <2>1, <2>6, <2>7, <3>1
        <4> QED
          BY <2>5, <2>8, <3>1, <4>1
      <3>2. CASE j # p
        <4>1. j \in 1 .. p - 1 /\ j \in 1 .. pptr[s] /\ j \in 1 .. Len(buf[s])
          BY <2>1, <2>6, <3>2
        <4>2. buf[s][j] = n - pptr[s] + j /\ (written[s][buf[s][j]] = "newline" => ToSync("sim", z))
          BY <1>2, <1>6, <4>1 DEF Fresh, n
        <4>3. b[j] = buf[s][j] /\ buf[s][j] \in 1 .. n
          BY <2>4, <2>7, <4>1, ElementOfSeq DEF Places, n
        <4>4. ~ToSync("sim", z)
          BY <1>6, <2>3 DEF ToSync, Overflow, Doing, Sync
        <4>5. n - pptr[s] + j = (n + 1) - p + j
          BY <2>1, <2>6, <4>1
        <4> QED
          BY <2>5, <4>2, <4>3, <4>4, <4>5
      <3> QED
        BY <3>1, <3>2
    <2>10. pptr'[z] = p /\ buf'[z] = b /\ Len(written'[z]) = n + 1 /\ written'[z] = written'[s]
      BY <1>6, <2>2, <2>5
    <2> QED
      BY <2>9, <2>10 DEF Fresh, Out
  <1>7. CASE SyncTake(t)
    <2>1. /\ pptr'[s] = 0 /\ (z # s => pptr'[z] = pptr[z]) /\ UNCHANGED <<written, buf>>
      BY <1>2, <1>7, Takes
    <2>2. CASE z = s
      BY <2>1, <2>2 DEF Fresh, Out
    <2>3. CASE z # s
      <3>1. ToSync("sim", z) => ToSync("sim", z)'
        BY <1>4, <2>3
      <3> QED
        BY <1>2, <2>1, <2>3, <3>1 DEF Fresh, Out
    <2> QED
      BY <2>2, <2>3
  <1>8. CASE SyncPost(t)
    <2>1. written' = written /\ pptr' = pptr
      BY <1>8, Posts
    <2>2. buf'[z] = buf[z] \/ buf'[z] = SubSeq(buf[z], 1, pptr[z])
      BY <1>2, <1>8, Posts
    <2>3. buf[z] \in Seq(Nat) /\ pptr[z] \in 0 .. Len(buf[z])
      <3>1. buf[z] \in Seq(Nat) /\ pptr[z] \in 0 .. BufferSize + 1 /\ pptr[z] <= Len(buf[z])
        BY <1>2 DEF Base, TypeOK, ArraysHold
      <3>2. Len(buf[z]) \in Nat /\ BufferSize \in Nat
        BY <3>1, LenProperties, ConsoleAssumption DEF ConsoleAssumption
      <3> QED
        BY <3>1, <3>2
    <2>4. \A j \in 1 .. pptr[z] : buf'[z][j] = buf[z][j]
      BY <2>2, <2>3, Parts
    <2>5. ToSync("sim", z) => ToSync("sim", z)'
      BY <1>4, <1>8
    <2> QED
      BY <1>2, <2>1, <2>4, <2>5 DEF Fresh, Out
  <1> QED
    BY <1>1, <1>5, <1>6, <1>7, <1>8

LEMMA NextLast ==
  ASSUME Base, Owners, LastWritten, Next
  PROVE  LastWritten'
  <1>1. \/ StreamStep("sim") \/ StreamStep("main")
        \/ (\E cs : SimHands(cs)) \/ (\E cs : MainHands(cs))
        \/ Start \/ Deliver
    BY NextSteps DEF Base, TypeOK, PageOK
  <1>2. CASE \E cs : SimHands(cs) \/ MainHands(cs)
    <2>1. /\ UNCHANGED <<written, buf, pptr, taken>>
          /\ calls["sim"] = <<>> \/ calls'["sim"] = calls["sim"]
      BY <1>2 DEF SimHands, MainHands, Hands, Base, TypeOK, Threads
    <2> QED
      BY <2>1 DEF LastWritten, Fresh, ToSync, Out
  <1>3. CASE Start
    <2>1. \A z \in Streams : pptr'[z] = 0
      BY <1>3, Starts
    <2>2. \A c \in Ctxs : pptr'[Out(c)] = 0
      BY <2>1 DEF Out, Streams, Sinks
    <2>3. ASSUME NEW c \in Ctxs PROVE Fresh(Out(c))'
      <3> DEFINE z == Out(c)
      <3>1. pptr'[z] = 0
        BY <2>2
      <3> QED
        BY <3>1 DEF Fresh, Out
    <2> QED
      BY <2>3 DEF LastWritten, Out
  <1>4. CASE Deliver
    <2>1. UNCHANGED <<written, buf, pptr, calls, taken>>
      BY <1>4, Delivers
    <2> QED
      BY <2>1 DEF LastWritten, Fresh, ToSync, Out
  <1> QED
    BY <1>1, <1>2, <1>3, <1>4, StreamLast DEF Threads

LEMMA InitLast == Init => LastWritten
  BY DEF Init, LastWritten, Fresh, Out, Streams, Sinks

-----------------------------------------------------------------------------
(* What is on its way to the page *)

Joined(a, q, x, y, d) == a \o q \o x \o y \o d

LEMMA JoinsNothing ==
  ASSUME NEW S, NEW a \in Seq(S), NEW q \in Seq(S)
  PROVE  (a \o q) \o <<>> = a \o q
  <1>1. a \o q \in Seq(S)
    BY ConcatProperties
  <1> QED
    BY <1>1, ConcatEmptySeq

LEMMA JoinsAtSim ==
  ASSUME NEW S, NEW a \in Seq(S), NEW q \in Seq(S), NEW x \in Seq(S)
  PROVE  Joined(a, q, x, <<>>, <<>>) = Joined(a, q, <<>>, <<>>, x)
  <1> DEFINE b == a \o q
  <1>1. b \in Seq(S)
    BY ConcatProperties
  <1>2. b \o <<>> = b
    BY <1>1, ConcatEmptySeq
  <1> HIDE DEF b
  <1>3. b \o x \in Seq(S)
    BY <1>1, ConcatProperties
  <1>4. (b \o x) \o <<>> = b \o x
    BY <1>3, ConcatEmptySeq
  <1> QED
    BY Zenon, <1>2, <1>4 DEF Joined, b

LEMMA JoinsAtMain ==
  ASSUME NEW S, NEW a \in Seq(S), NEW q \in Seq(S), NEW x \in Seq(S)
  PROVE  Joined(a, q, <<>>, x, <<>>) = Joined(a, q, <<>>, <<>>, x)
  <1> DEFINE b == a \o q
  <1>1. b \in Seq(S)
    BY ConcatProperties
  <1>2. b \o <<>> = b
    BY <1>1, ConcatEmptySeq
  <1> HIDE DEF b
  <1>3. b \o x \in Seq(S)
    BY <1>1, ConcatProperties
  <1>4. (b \o x) \o <<>> = b \o x
    BY <1>3, ConcatEmptySeq
  <1> QED
    BY Zenon, <1>2, <1>4 DEF Joined, b

LEMMA JoinsPosted ==
  ASSUME NEW S, NEW a \in Seq(S), NEW q \in Seq(S), NEW x \in Seq(S), NEW y, NEW d
  PROVE  Joined(a, q, x, y, d) = Joined(a, q \o x, <<>>, y, d)
  <1>1. (a \o q) \o x = a \o (q \o x)
    BY Associative
  <1>2. a \o (q \o x) \in Seq(S)
    BY ConcatProperties
  <1>3. (a \o (q \o x)) \o <<>> = a \o (q \o x)
    BY <1>2, ConcatEmptySeq
  <1> QED
    BY Zenon, <1>1, <1>3 DEF Joined

LEMMA JoinsArrived ==
  ASSUME NEW S, NEW a \in Seq(S), NEW r \in Seq(S), NEW q \in Seq(S), NEW x, NEW y, NEW d
  PROVE  Joined(a \o r, q, x, y, d) = Joined(a, r \o q, x, y, d)
  <1>1. (a \o r) \o q = a \o (r \o q)
    BY Associative
  <1> QED
    BY Zenon, <1>1 DEF Joined

LEMMA JoinedType ==
  ASSUME NEW S, NEW a \in Seq(S), NEW q \in Seq(S), NEW x \in Seq(S), NEW y \in Seq(S), NEW d \in Seq(S)
  PROVE  /\ Joined(a, q, x, y, d) \in Seq(S)
         /\ Len(Joined(a, q, x, y, d)) = Len(a) + Len(q) + Len(x) + Len(y) + Len(d)
         /\ ToSet(Joined(a, q, x, y, d)) = ToSet(a) \cup ToSet(q) \cup ToSet(x) \cup ToSet(y) \cup ToSet(d)
  <1> DEFINE b == a \o q
             c == b \o x
             e == c \o y
             f == e \o d
  <1>0. \A u, v \in Seq(S) : /\ u \o v \in Seq(S) /\ Len(u \o v) = Len(u) + Len(v)
                             /\ ToSet(u \o v) = ToSet(u) \cup ToSet(v)
    BY ConcatProperties, InConcat
  <1>1. b \in Seq(S) /\ Len(b) = Len(a) + Len(q) /\ ToSet(b) = ToSet(a) \cup ToSet(q)
    BY <1>0
  <1> HIDE DEF b
  <1>2. c \in Seq(S) /\ Len(c) = Len(b) + Len(x) /\ ToSet(c) = ToSet(b) \cup ToSet(x)
    BY <1>0, <1>1
  <1> HIDE DEF c
  <1>3. e \in Seq(S) /\ Len(e) = Len(c) + Len(y) /\ ToSet(e) = ToSet(c) \cup ToSet(y)
    BY <1>0, <1>2
  <1> HIDE DEF e
  <1>4. f \in Seq(S) /\ Len(f) = Len(e) + Len(d) /\ ToSet(f) = ToSet(e) \cup ToSet(d)
    BY <1>0, <1>3
  <1>5. Joined(a, q, x, y, d) = f
    BY Zenon DEF Joined, f, e, c, b
  <1> HIDE DEF f
  <1> QED
    BY Zenon, <1>1, <1>2, <1>3, <1>4, <1>5

LEMMA AppendAfter ==
  ASSUME NEW S, NEW u \in Seq(S), NEW d \in Seq(S), NEW v \in S
  PROVE  u \o Append(d, v) = Append(u \o d, v)
  <1> DEFINE e == <<v>>
             w == u \o d
  <1>1. Append(d, v) = d \o e /\ e \in Seq(S)
    BY AppendIsConcat
  <1>2. w \in Seq(S)
    BY ConcatProperties
  <1> HIDE DEF e
  <1>3. w \o e = u \o (d \o e)
    BY <1>1, Associative
  <1> HIDE DEF w
  <1>4. Append(w, v) = w \o e
    BY <1>2, AppendIsConcat DEF e
  <1> QED
    BY Zenon, <1>1, <1>3, <1>4 DEF w

\* What a queue holds for a stream.
TextsOf(q, s) == [i \in 1 .. Len(q) |-> IF q[i].s = s THEN q[i].text ELSE <<>>]
PostedIn(q, s) == FlattenSeq(TextsOf(q, s))

LEMMA PostedInType ==
  ASSUME NEW S, NEW Q, NEW q \in Seq(Q), NEW s,
         \A i \in 1 .. Len(q) : q[i].s = s => q[i].text \in Seq(S)
  PROVE  TextsOf(q, s) \in Seq(Seq(S)) /\ Len(TextsOf(q, s)) = Len(q) /\ PostedIn(q, s) \in Seq(S)
  <1>1. Len(q) \in Nat /\ <<>> \in Seq(S)
    BY LenProperties, EmptySeq
  <1> DEFINE f == TextsOf(q, s)
  <1>2. f \in Seq(Seq(S)) /\ Len(f) = Len(q)
    BY <1>1 DEF TextsOf
  <1> HIDE DEF f
  <1>3. FlattenSeq(f) \in Seq(S)
    BY <1>2, FlattenType
  <1> QED
    BY Zenon, <1>2, <1>3 DEF f, PostedIn

LEMMA PostedAppend ==
  ASSUME NEW S, NEW Q, NEW q \in Seq(Q), NEW s, NEW r \in Q,
         \A i \in 1 .. Len(q) : q[i].s = s => q[i].text \in Seq(S),
         r.s = s => r.text \in Seq(S)
  PROVE  PostedIn(Append(q, r), s) = PostedIn(q, s) \o (IF r.s = s THEN r.text ELSE <<>>)
  <1> DEFINE x == IF r.s = s THEN r.text ELSE <<>>
             f == TextsOf(q, s)
             p == Append(q, r)
             g == TextsOf(p, s)
  <1>1. x \in Seq(S)
    BY EmptySeq
  <1>2. /\ p \in Seq(Q) /\ Len(p) = Len(q) + 1 /\ Len(q) \in Nat
        /\ \A i \in 1 .. Len(q) : p[i] = q[i]
        /\ p[Len(q) + 1] = r
    BY AppendProperties, LenProperties
  <1>3. f \in Seq(Seq(S)) /\ Len(f) = Len(q)
    BY PostedInType
  <1>4. \A i \in 1 .. Len(q) : f[i] = IF q[i].s = s THEN q[i].text ELSE <<>>
    BY DEF TextsOf
  <1> HIDE DEF p
  <1>5. \A i \in 1 .. Len(p) : p[i].s = s => p[i].text \in Seq(S)
    <2>1. \A i \in 1 .. Len(p) : i \in 1 .. Len(q) \/ i = Len(q) + 1
      BY <1>2
    <2> QED
      BY <1>2, <2>1
  <1>6. g \in Seq(Seq(S)) /\ Len(g) = Len(q) + 1
    BY <1>2, <1>5, PostedInType
  <1>7. \A i \in 1 .. Len(q) + 1 : g[i] = IF p[i].s = s THEN p[i].text ELSE <<>>
    BY <1>2 DEF TextsOf
  <1> HIDE DEF f, g, x
  <1>8. g = Append(f, x)
    <2> DEFINE h == Append(f, x)
    <2>1. /\ h \in Seq(Seq(S)) /\ Len(h) = Len(q) + 1 /\ h[Len(q) + 1] = x
          /\ \A i \in 1 .. Len(q) : h[i] = f[i]
      BY <1>1, <1>3, AppendProperties
    <2> HIDE DEF h
    <2>2. ASSUME NEW i \in 1 .. Len(q) + 1 PROVE g[i] = h[i]
      <3>1. CASE i \in 1 .. Len(q)
        BY <1>2, <1>4, <1>7, <2>1, <3>1
      <3>2. CASE i = Len(q) + 1
        BY <1>2, <1>7, <2>1, <3>2 DEF x
      <3> QED
        BY <1>2, <3>1, <3>2
    <2> QED
      BY <1>6, <2>1, <2>2, SeqEqual DEF h
  <1>9. FlattenSeq(Append(f, x)) = FlattenSeq(f) \o x
    BY <1>1, <1>3, FlattenAppend
  <1> QED
    BY Zenon, <1>8, <1>9 DEF PostedIn, f, g, p, x

LEMMA PostedHead ==
  ASSUME NEW S, NEW Q, NEW q \in Seq(Q), NEW s, Len(q) # 0,
         \A i \in 1 .. Len(q) : q[i].s = s => q[i].text \in Seq(S)
  PROVE  PostedIn(q, s) = (IF Head(q).s = s THEN Head(q).text ELSE <<>>) \o PostedIn(Tail(q), s)
  <1> DEFINE f == TextsOf(q, s)
             p == Tail(q)
             g == TextsOf(p, s)
  <1>1. Len(q) \in Nat \ {0} /\ Head(q) = q[1]
    BY LenProperties
  <1>2. /\ p \in Seq(Q) /\ Len(p) = Len(q) - 1
        /\ \A i \in 1 .. Len(p) : p[i] = q[i + 1]
    BY <1>1, HeadTailProperties
  <1>3. f \in Seq(Seq(S)) /\ Len(f) = Len(q)
    BY PostedInType
  <1>4. \A i \in 1 .. Len(q) : f[i] = IF q[i].s = s THEN q[i].text ELSE <<>>
    BY DEF TextsOf
  <1> HIDE DEF p
  <1>5. \A i \in 1 .. Len(p) : p[i].s = s => p[i].text \in Seq(S)
    <2>1. \A i \in 1 .. Len(p) : i + 1 \in 1 .. Len(q)
      BY <1>1, <1>2
    <2> QED
      BY <1>2, <2>1
  <1>6. g \in Seq(Seq(S)) /\ Len(g) = Len(q) - 1
    BY <1>2, <1>5, PostedInType
  <1>7. \A i \in 1 .. Len(q) - 1 : g[i] = IF p[i].s = s THEN p[i].text ELSE <<>>
    BY <1>2 DEF TextsOf
  <1> HIDE DEF f, g
  <1>8. g = Tail(f)
    <2> DEFINE h == Tail(f)
    <2>1. /\ h \in Seq(Seq(S)) /\ Len(h) = Len(q) - 1
          /\ \A i \in 1 .. Len(q) - 1 : h[i] = f[i + 1]
      BY <1>1, <1>3, HeadTailProperties
    <2> HIDE DEF h
    <2>2. \A i \in 1 .. Len(q) - 1 : g[i] = h[i]
      <3>1. \A i \in 1 .. Len(q) - 1 : i + 1 \in 1 .. Len(q)
        BY <1>1
      <3> QED
        BY <1>2, <1>4, <1>7, <2>1, <3>1
    <2>3. Len(q) - 1 \in Nat
      BY <1>1
    <2>4. g = h
      BY ONLY <1>6, <2>1, <2>2, <2>3, SeqEqual
    <2> QED
      BY Zenon, <2>4 DEF h
  <1>9. FlattenSeq(f) = Head(f) \o FlattenSeq(Tail(f))
    BY <1>1, <1>3, FlattenHead
  <1>10. Head(f) = IF Head(q).s = s THEN Head(q).text ELSE <<>>
    <2>1. Head(f) = f[1] /\ 1 \in 1 .. Len(q)
      BY <1>1, <1>3
    <2> QED
      BY <1>1, <1>4, <2>1
  <1> QED
    BY Zenon, <1>8, <1>9, <1>10 DEF PostedIn, f, g, p

\* No other thread is in the stream.
Alone(t, s) == \A u \in Threads \ {t} : calls[u] = <<>> \/ Stream(u) # s

LEMMA TextTypes ==
  ASSUME Base, NEW s \in Streams
  PROVE  /\ arrived[s] \in Seq(Places(s)) /\ PostedIn(queue, s) \in Seq(Places(s))
         /\ \A t \in Threads : BeingPosted(t, s) \in Seq(Places(s))
         /\ SubSeq(buf[s], 1, pptr[s]) \in Seq(Places(s)) /\ Len(SubSeq(buf[s], 1, pptr[s])) = pptr[s]
         /\ buf[s] \in Seq(Places(s)) /\ pptr[s] \in 0 .. Len(buf[s])
         /\ Text(s) = Joined(arrived[s], PostedIn(queue, s), BeingPosted("sim", s),
                             BeingPosted("main", s), SubSeq(buf[s], 1, pptr[s]))
         /\ Text(s) \in Seq(Places(s))
  <1> DEFINE P == Places(s)
  <1>1. buf[s] \in Seq(P) /\ arrived[s] \in Seq(P) /\ pptr[s] \in 0 .. BufferSize + 1
    BY DEF Base, TypeOK
  <1>2. pptr[s] <= Len(buf[s]) /\ BufferSize \in Nat
    BY ConsoleAssumption DEF Base, ArraysHold, ConsoleAssumption
  <1>3. Len(buf[s]) \in Nat
    BY <1>1, LenProperties
  <1>4. pptr[s] \in 0 .. Len(buf[s])
    BY <1>1, <1>2, <1>3
  <1>5. SubSeq(buf[s], 1, pptr[s]) \in Seq(P) /\ Len(SubSeq(buf[s], 1, pptr[s])) = pptr[s]
    BY <1>1, <1>4, Parts
  <1>6. ASSUME NEW t \in Threads PROVE BeingPosted(t, s) \in Seq(P)
    <2>1. CASE taken[t] # 0 /\ Stream(t) = s
      <3>1. taken[t] \in 0 .. BufferSize + 1 /\ taken[t] <= Len(buf[s])
        BY <2>1 DEF Base, TypeOK, ArraysHold
      <3>2. taken[t] \in 0 .. Len(buf[s])
        BY <1>2, <1>3, <3>1
      <3>3. PICK m \in 0 .. taken[t] : CString(s, taken[t]) = SubSeq(buf[s], 1, m)
        BY <3>2, CStringIs
      <3>4. m \in 0 .. Len(buf[s])
        BY <1>3, <3>2
      <3>5. SubSeq(buf[s], 1, m) \in Seq(P)
        BY <1>1, <3>4, Parts
      <3> QED
        BY <2>1, <3>3, <3>5 DEF BeingPosted
    <2>2. CASE ~(taken[t] # 0 /\ Stream(t) = s)
      BY <2>2, EmptySeq DEF BeingPosted
    <2> QED
      BY <2>1, <2>2
  <1>7. PostedIn(queue, s) \in Seq(P)
    <2> DEFINE Q == [s : Streams, text : Seq(Nat)]
    <2>1. /\ queue \in Seq(Q)
          /\ \A i \in 1 .. Len(queue) : queue[i].s = s => queue[i].text \in Seq(P)
      BY DEF Base, TypeOK
    <2> HIDE DEF Q, P
    <2> QED
      BY <2>1, PostedInType
  <1>8. Text(s) = Joined(arrived[s], PostedIn(queue, s), BeingPosted("sim", s),
                             BeingPosted("main", s), SubSeq(buf[s], 1, pptr[s]))
    BY Zenon DEF Text, Joined, Posted, PostedIn, TextsOf
  <1> HIDE DEF P
  <1>9. BeingPosted("sim", s) \in Seq(P) /\ BeingPosted("main", s) \in Seq(P)
    BY <1>6 DEF Threads
  <1>10. Text(s) \in Seq(P)
    <2> DEFINE a == arrived[s]
               q == PostedIn(queue, s)
               x == BeingPosted("sim", s)
               y == BeingPosted("main", s)
               d == SubSeq(buf[s], 1, pptr[s])
    <2>1. /\ a \in Seq(P) /\ q \in Seq(P) /\ x \in Seq(P) /\ y \in Seq(P) /\ d \in Seq(P)
          /\ Text(s) = Joined(a, q, x, y, d)
      BY Zenon, <1>1, <1>5, <1>7, <1>8, <1>9
    <2> HIDE DEF a, q, x, y, d
    <2> QED
      BY <2>1, JoinedType
  <1> QED
    BY <1>1, <1>4, <1>5, <1>6, <1>7, <1>8, <1>10 DEF P

LEMMA OverflowText ==
  ASSUME Base, NEW t \in Threads, NEW s \in Streams, Stream(t) = s, Overflow(t), Alone(t, s)
  PROVE  /\ Text(s)' = Append(Text(s), Len(written[s]) + 1)
         /\ written'[s] = Append(written[s], Head(calls[t]).kind)
         /\ Len(written'[s]) = Len(written[s]) + 1
  <1> DEFINE n == Len(written[s])
             a == arrived[s]
             q == PostedIn(queue, s)
             d == SubSeq(buf[s], 1, pptr[s])
             e == SubSeq(buf'[s], 1, pptr'[s])
  <1>1. /\ calls[t] # <<>> /\ taken[t] = 0 /\ n \in Nat
        /\ pptr[s] \in 0 .. BufferSize /\ pptr[s] <= Len(buf[s]) /\ Len(buf[s]) \in Nat
        /\ buf' = [buf EXCEPT ![s] = StoreAt(@, pptr[s] + 1, n + 1)]
        /\ pptr' = [pptr EXCEPT ![s] = @ + 1]
        /\ written'[s] = Append(written[s], Head(calls[t]).kind)
        /\ Len(written'[s]) = n + 1
    BY Puts
  <1>2. /\ a \in Seq(Nat) /\ q \in Seq(Nat) /\ d \in Seq(Nat) /\ buf[s] \in Seq(Nat)
    <2>1. a \in Seq(Places(s)) /\ q \in Seq(Places(s)) /\ d \in Seq(Places(s)) /\ buf[s] \in Seq(Places(s))
      BY TextTypes
    <2>2. Places(s) \subseteq Nat
      BY <1>1 DEF Places
    <2> QED
      BY <2>1, <2>2, SeqMonotonic
  <1>3. \A u \in Threads : ~(taken[u] # 0 /\ Stream(u) = s) /\ ~(taken'[u] # 0 /\ Stream(u)' = s)
    <2>1. taken' = taken /\ \A u \in Threads : u # t => calls'[u] = calls[u]
      BY DEF Overflow, Base, TypeOK
    <2>2. \A u \in Threads : taken[u] # 0 => calls[u] # <<>>
      BY DEF Base, ArraysHold, Doing
    <2> QED
      BY <1>1, <2>1, <2>2 DEF Alone, Stream
  <1>4. \A u \in Threads : BeingPosted(u, s) = <<>> /\ BeingPosted(u, s)' = <<>>
    BY <1>3 DEF BeingPosted
  <1>5. Text(s) = Joined(a, q, <<>>, <<>>, d) /\ Text(s)' = Joined(a, q, <<>>, <<>>, e)
    <2>1. arrived'[s] = a /\ queue' = queue
      BY DEF Overflow, page
    <2>2. Text(s) = Joined(a, q, BeingPosted("sim", s), BeingPosted("main", s), d)
      BY TextTypes
    <2>3. Text(s)' = Joined(a, q, BeingPosted("sim", s)', BeingPosted("main", s)', e)
      BY Zenon, <2>1 DEF Text, Joined, Posted, PostedIn, TextsOf
    <2> HIDE DEF a, q, d, e
    <2> QED
      BY <1>4, <2>2, <2>3 DEF Threads
  <1>6. e = Append(d, n + 1)
    <2> DEFINE b == buf[s]
               p == pptr[s] + 1
    <2>0. buf \in [Streams -> Seq(Nat)] /\ pptr \in [Streams -> 0 .. BufferSize + 1]
      BY DEF Base, TypeOK
    <2>1. buf'[s] = StoreAt(b, p, n + 1) /\ pptr'[s] = p
      BY <1>1, <2>0
    <2>2. p \in 1 .. Len(b) + 1 /\ n + 1 \in Nat /\ p - 1 = pptr[s]
      <3>1. pptr[s] \in 0 .. BufferSize /\ pptr[s] <= Len(buf[s]) /\ Len(buf[s]) \in Nat /\ n \in Nat
        BY <1>1
      <3> HIDE DEF n
      <3> QED
        BY ONLY <3>1, ConsoleAssumption DEF ConsoleAssumption, b, p
    <2>3. b \in Seq(Nat)
      BY <1>2
    <2> DEFINE T == Nat
               x == n + 1
    <2>5. p \in 1 .. Len(b) + 1 /\ x \in T /\ b \in Seq(T)
      BY <2>2, <2>3
    <2> HIDE DEF b, p, x, T
    <2>4. SubSeq(StoreAt(b, p, x), 1, p) = Append(SubSeq(b, 1, p - 1), x)
      BY ONLY <2>5, StoredEnd
    <2> QED
      BY Zenon, <2>1, <2>2, <2>4 DEF b, x
  <1>7. n + 1 \in Nat
    BY <1>1
  <1> HIDE DEF a, q, d, e
  <1>8. e \in Seq(Nat)
    BY <1>2, <1>6, <1>7, AppendProperties
  <1>9. a \o q \in Seq(Nat)
    BY <1>2, ConcatProperties
  <1>10. Joined(a, q, <<>>, <<>>, d) = (a \o q) \o d /\ Joined(a, q, <<>>, <<>>, e) = (a \o q) \o e
    <2>1. a \in Seq(Nat) /\ q \in Seq(Nat)
      BY <1>2
    <2>2. (a \o q) \o <<>> = a \o q
      BY ONLY <2>1, JoinsNothing
    <2> QED
      BY Zenon, <2>2 DEF Joined
  <1>11. (a \o q) \o Append(d, n + 1) = Append((a \o q) \o d, n + 1)
    BY <1>2, <1>7, <1>9, AppendAfter
  <1> QED
    BY Zenon, <1>1, <1>5, <1>6, <1>10, <1>11

LEMMA Nothing == \A S : \A u \in Seq(S) : SubSeq(u, 1, 0) = <<>>
  <1> SUFFICES ASSUME NEW S, NEW u \in Seq(S) PROVE SubSeq(u, 1, 0) = <<>>
    OBVIOUS
  <1>1. 0 \in 0 .. Len(u)
    BY LenProperties
  <1>2. SubSeq(u, 1, 0) \in Seq(S) /\ Len(SubSeq(u, 1, 0)) = 0
    BY <1>1, Parts
  <1> QED
    BY <1>2, EmptySeq

\* A thread that is alone in a stream is the only one that posts from it.
LEMMA PostsAlone ==
  ASSUME Base, NEW t \in Threads, NEW s, Stream(t) = s, Alone(t, s),
         Overflow(t) \/ SyncTake(t) \/ SyncPost(t)
  PROVE  /\ \A u \in Threads : u # t => BeingPosted(u, s) = <<>> /\ BeingPosted(u, s)' = <<>>
         /\ taken'[t] = 0 => BeingPosted(t, s)' = <<>>
  <1>1. ASSUME NEW u \in Threads, u # t PROVE taken'[u] = taken[u] /\ calls'[u] = calls[u]
    BY <1>1, Takes, Posts DEF Overflow, Base, TypeOK
  <1>2. ASSUME NEW u \in Threads, u # t
        PROVE  ~(taken[u] # 0 /\ Stream(u) = s) /\ ~(taken'[u] # 0 /\ Stream(u)' = s)
    <2>1. taken[u] # 0 => calls[u] # <<>>
      BY DEF Base, ArraysHold, Doing
    <2>2. calls[u] = <<>> \/ Stream(u) # s
      BY <1>2 DEF Alone
    <2>3. taken'[u] = taken[u] /\ calls'[u] = calls[u]
      BY <1>1, <1>2
    <2> QED
      BY <2>1, <2>2, <2>3 DEF Stream
  <1> QED
    BY <1>2 DEF BeingPosted

\* A C string depends on the characters of its array only.
CStr(w, b, n) ==
  LET nuls == {i \in 1 .. n : w[b[i]] = "nul"}
  IN  SubSeq(b, 1, IF nuls = {} THEN n ELSE (CHOOSE i \in nuls : \A j \in nuls : i <= j) - 1)

LEMMA ArrivesEarly ==
  ASSUME NEW S, NEW a \in Seq(S), NEW q \in Seq(S), NEW x \in Seq(S), NEW d \in Seq(S)
  PROVE  /\ Len(Joined(a \o x, q, <<>>, <<>>, d)) = Len(Joined(a, q, <<>>, x, d))
         /\ ToSet(Joined(a \o x, q, <<>>, <<>>, d)) = ToSet(Joined(a, q, <<>>, x, d))
  <1> DEFINE b == a \o x
             c == a \o q
             e == b \o q
             f == c \o x
  <1>0. \A u, v \in Seq(S) : /\ u \o v \in Seq(S) /\ Len(u \o v) = Len(u) + Len(v)
                             /\ ToSet(u \o v) = ToSet(u) \cup ToSet(v)
    BY ConcatProperties, InConcat
  <1>1. \A u \in Seq(S) : Len(u) \in Nat
    BY LenProperties
  <1>2. b \in Seq(S) /\ Len(b) = Len(a) + Len(x) /\ ToSet(b) = ToSet(a) \cup ToSet(x)
    BY <1>0
  <1>3. c \in Seq(S) /\ Len(c) = Len(a) + Len(q) /\ ToSet(c) = ToSet(a) \cup ToSet(q)
    BY <1>0
  <1>4. c \o <<>> = c
    BY <1>3, ConcatEmptySeq
  <1> HIDE DEF b, c
  <1>5. e \in Seq(S) /\ Len(e) = Len(b) + Len(q) /\ ToSet(e) = ToSet(b) \cup ToSet(q)
    BY <1>0, <1>2
  <1>6. f \in Seq(S) /\ Len(f) = Len(c) + Len(x) /\ ToSet(f) = ToSet(c) \cup ToSet(x)
    BY <1>0, <1>3
  <1>7. e \o <<>> = e
    BY <1>5, ConcatEmptySeq
  <1> HIDE DEF e, f
  <1>8. Joined(b, q, <<>>, <<>>, d) = e \o d
    BY Zenon, <1>7 DEF Joined, e
  <1>9. Joined(a, q, <<>>, x, d) = f \o d
    BY Zenon, <1>4 DEF Joined, f, c
  <1>10. Len(e \o d) = Len(e) + Len(d) /\ ToSet(e \o d) = ToSet(e) \cup ToSet(d)
    BY <1>0, <1>5
  <1>11. Len(f \o d) = Len(f) + Len(d) /\ ToSet(f \o d) = ToSet(f) \cup ToSet(d)
    BY <1>0, <1>6
  <1>12. Len(e) = Len(f) /\ ToSet(e) = ToSet(f)
    <2>1. Len(a) \in Nat /\ Len(q) \in Nat /\ Len(x) \in Nat
      BY <1>1
    <2>2. Len(e) = Len(f)
      BY ONLY <1>2, <1>3, <1>5, <1>6, <2>1
    <2> DEFINE A == ToSet(a)
               Q == ToSet(q)
               X == ToSet(x)
    <2>3. ToSet(e) = (A \cup X) \cup Q /\ ToSet(f) = (A \cup Q) \cup X
      BY Zenon, <1>2, <1>3, <1>5, <1>6
    <2> HIDE DEF A, Q, X
    <2>4. (A \cup X) \cup Q = (A \cup Q) \cup X
      OBVIOUS
    <2> QED
      BY Zenon, <2>2, <2>3, <2>4
  <1> QED
    BY Zenon, <1>8, <1>9, <1>10, <1>11, <1>12 DEF b

LEMMA TakeText ==
  ASSUME Base, NEW t \in Threads, NEW s \in Streams, Stream(t) = s, SyncTake(t), Alone(t, s)
  PROVE  \E u \in Seq(Places(s)), m \in 0 .. pptr[s] :
           /\ Text(s) = u \o SubSeq(buf[s], 1, pptr[s])
           /\ Text(s)' = u \o SubSeq(buf[s], 1, m)
           /\ m = pptr[s] \/ written[s][buf[s][m + 1]] = "nul"
           /\ (\A i \in 1 .. pptr[s] : written[s][buf[s][i]] # "nul") => m = pptr[s]
  <1> DEFINE P == Places(s)
             p == pptr[s]
             b == buf[s]
             a == arrived[s]
             q == PostedIn(queue, s)
             d == SubSeq(b, 1, p)
  <1>1. /\ taken[t] = 0 /\ p \in 0 .. Len(b) /\ Len(b) \in Nat
        /\ pptr'[s] = 0 /\ taken'[t] = p
        /\ calls'[t] = (IF p = 0 THEN Tail(calls[t]) ELSE calls[t])
        /\ UNCHANGED <<written, buf, queue, arrived>>
    <2>1. p \in 0 .. BufferSize + 1 /\ p <= Len(b) /\ Len(b) \in Nat /\ BufferSize \in Nat
      BY Takes, ConsoleAssumption DEF ConsoleAssumption
    <2>2. p \in 0 .. Len(b)
      BY <2>1
    <2> QED
      BY <2>1, <2>2, Takes
  <1>2. a \in Seq(P) /\ q \in Seq(P) /\ d \in Seq(P) /\ b \in Seq(P)
    BY TextTypes
  <1>3. \A u \in Threads : u # t => BeingPosted(u, s) = <<>> /\ BeingPosted(u, s)' = <<>>
    BY PostsAlone
  <1>4. BeingPosted(t, s) = <<>>
    BY <1>1 DEF BeingPosted
  <1>5. Text(s) = (a \o q) \o d
    <2>1. Text(s) = Joined(a, q, BeingPosted("sim", s), BeingPosted("main", s), d)
      BY TextTypes
    <2>2. BeingPosted("sim", s) = <<>> /\ BeingPosted("main", s) = <<>>
      BY <1>3, <1>4 DEF Threads
    <2>3. Text(s) = Joined(a, q, <<>>, <<>>, d)
      BY Zenon, <2>1, <2>2
    <2>4. a \in Seq(P) /\ q \in Seq(P)
      BY <1>2
    <2> HIDE DEF P, a, q, d
    <2>5. (a \o q) \o <<>> = a \o q
      BY ONLY <2>4, JoinsNothing
    <2> QED
      BY Zenon, <2>3, <2>5 DEF Joined
  <1>6. Text(s)' = Joined(a, q, BeingPosted("sim", s)', BeingPosted("main", s)', <<>>)
    <2>1. SubSeq(buf'[s], 1, pptr'[s]) = <<>>
      BY <1>1, <1>2, Nothing
    <2> QED
      BY Zenon, <1>1, <2>1 DEF Text, Joined, Posted, PostedIn, TextsOf
  <1>7. PICK m \in 0 .. p : /\ CString(s, p) = SubSeq(b, 1, m)
                            /\ m = p \/ written[s][b[m + 1]] = "nul"
                            /\ (\A i \in 1 .. p : written[s][b[i]] # "nul") => m = p
    BY <1>1, CStringIs
  <1> DEFINE x == SubSeq(b, 1, m)
  <1>8. x \in Seq(P)
    <2>1. m \in 0 .. Len(b)
      BY <1>1
    <2> QED
      BY <1>2, <2>1, Parts
  <1>9. BeingPosted(t, s)' = x
    <2>1. CASE p = 0
      <3>1. m = 0
        BY <2>1
      <3>2. x = <<>>
        BY <1>2, <3>1, Nothing
      <3> QED
        BY <1>1, <2>1, <3>2 DEF BeingPosted
    <2>2. CASE p # 0
      <3>1. Stream(t)' = s
        BY <1>1, <2>2 DEF Stream
      <3>2. CString(s, taken[t])' = CString(s, p)
        <4>1. taken'[t] = p /\ buf' = buf /\ written' = written
          BY <1>1
        <4>2. CString(s, taken[t])' = CStr(written'[s], buf'[s], taken'[t])
          BY DEF CString, CStr
        <4>3. CString(s, p) = CStr(written[s], buf[s], p)
          BY DEF CString, CStr
        <4> QED
          BY Zenon, <4>1, <4>2, <4>3
      <3>3. BeingPosted(t, s)' = CString(s, p)
        BY Zenon, <1>1, <2>2, <3>1, <3>2 DEF BeingPosted
      <3> QED
        BY Zenon, <1>7, <3>3
    <2> QED
      BY <2>1, <2>2
  <1>10. Text(s)' = (a \o q) \o x
    <2>1. a \in Seq(P) /\ q \in Seq(P) /\ x \in Seq(P)
      BY <1>2, <1>8
    <2>2. t = "sim" \/ t = "main"
      BY DEF Threads
    <2> HIDE DEF P, a, q, x
    <2>3. Joined(a, q, x, <<>>, <<>>) = Joined(a, q, <<>>, <<>>, x)
      BY ONLY <2>1, JoinsAtSim
    <2>4. Joined(a, q, <<>>, x, <<>>) = Joined(a, q, <<>>, <<>>, x)
      BY ONLY <2>1, JoinsAtMain
    <2>5. Joined(a, q, <<>>, <<>>, x) = (a \o q) \o x
      <3>1. a \in Seq(P) /\ q \in Seq(P)
        BY <2>1
      <3>2. (a \o q) \o <<>> = a \o q
        BY ONLY <3>1, JoinsNothing
      <3> QED
        BY Zenon, <3>2 DEF Joined
    <2>6. CASE t = "sim"
      <3>1. BeingPosted("sim", s)' = x /\ BeingPosted("main", s)' = <<>>
        BY <1>3, <1>9, <2>6 DEF Threads
      <3> QED
        BY Zenon, <1>6, <2>3, <2>5, <3>1
    <2>7. CASE t = "main"
      <3>1. BeingPosted("main", s)' = x /\ BeingPosted("sim", s)' = <<>>
        BY <1>3, <1>9, <2>7 DEF Threads
      <3> QED
        BY Zenon, <1>6, <2>4, <2>5, <3>1
    <2> QED
      BY <2>2, <2>6, <2>7
  <1>11. a \o q \in Seq(P)
    <2>1. a \in Seq(P) /\ q \in Seq(P)
      BY <1>2
    <2> HIDE DEF P, a, q
    <2> QED
      BY <2>1, ConcatProperties
  <1> QED
    BY Zenon, <1>5, <1>7, <1>10, <1>11

LEMMA PostText ==
  ASSUME Base, NEW t \in Threads, NEW s \in Streams, Stream(t) = s, SyncPost(t), Alone(t, s)
  PROVE  /\ t = "sim" => Text(s)' = Text(s)
         /\ ToSet(Text(s)') = ToSet(Text(s)) /\ Len(Text(s)') = Len(Text(s))
         /\ written' = written
  <1> DEFINE P == Places(s)
             a == arrived[s]
             q == PostedIn(queue, s)
             d == SubSeq(buf[s], 1, pptr[s])
             x == CString(s, taken[t])
  <1>1. /\ taken[t] # 0 /\ taken'[t] = 0 /\ written' = written /\ pptr' = pptr
        /\ x \in Seq(P)
        /\ SubSeq(buf'[s], 1, pptr[s]) = d
    BY Posts
  <1>2. a \in Seq(P) /\ q \in Seq(P) /\ d \in Seq(P)
    BY TextTypes
  <1>3. /\ \A u \in Threads : u # t => BeingPosted(u, s) = <<>>
        /\ \A u \in Threads : BeingPosted(u, s)' = <<>>
    BY <1>1, PostsAlone
  <1>4. BeingPosted(t, s) = x
    BY <1>1 DEF BeingPosted
  <1>5. /\ t = "sim" => Text(s) = Joined(a, q, x, <<>>, d)
        /\ t = "main" => Text(s) = Joined(a, q, <<>>, x, d)
    <2>1. Text(s) = Joined(a, q, BeingPosted("sim", s), BeingPosted("main", s), d)
      BY TextTypes
    <2>2. /\ t = "sim" => BeingPosted("sim", s) = x /\ BeingPosted("main", s) = <<>>
          /\ t = "main" => BeingPosted("main", s) = x /\ BeingPosted("sim", s) = <<>>
      BY <1>3, <1>4 DEF Threads
    <2> HIDE DEF a, q, d, x
    <2> QED
      BY Zenon, <2>1, <2>2
  <1>6. Text(s)' = Joined(arrived'[s], PostedIn(queue', s), <<>>, <<>>, d)
    <2>1. BeingPosted("sim", s)' = <<>> /\ BeingPosted("main", s)' = <<>>
      BY <1>3 DEF Threads
    <2> QED
      BY Zenon, <1>1, <2>1 DEF Text, Joined, Posted, PostedIn, TextsOf
  <1>7. CASE t = "sim"
    <2> DEFINE r == [s |-> s, text |-> x]
               Q == [s : Streams, text : Seq(Nat)]
    <2>1. queue' = Append(queue, r) /\ arrived' = arrived
      BY <1>7, Posts
    <2>2. PostedIn(queue', s) = q \o x
      <3>1. /\ queue \in Seq(Q)
            /\ \A i \in 1 .. Len(queue) : queue[i].s = s => queue[i].text \in Seq(P)
        BY DEF Base, TypeOK
      <3>2. r.s = s /\ r.text = x
        OBVIOUS
      <3>3. r \in Q
        <4>1. P \subseteq Nat
          BY LenProperties DEF Places
        <4>2. x \in Seq(Nat)
          BY <1>1, <4>1, SeqMonotonic
        <4> HIDE DEF x
        <4> QED
          BY <4>2
      <3>4. r.text \in Seq(P)
        BY <1>1, <3>2
      <3> HIDE DEF Q, P, x, r
      <3>5. PostedIn(Append(queue, r), s) = PostedIn(queue, s) \o (IF r.s = s THEN r.text ELSE <<>>)
        BY ONLY <3>1, <3>3, <3>4, PostedAppend
      <3> QED
        BY Zenon, <2>1, <3>2, <3>5
    <2>3. Joined(a, q, x, <<>>, d) = Joined(a, q \o x, <<>>, <<>>, d)
      <3>1. a \in Seq(P) /\ q \in Seq(P) /\ x \in Seq(P)
        BY <1>1, <1>2
      <3> HIDE DEF P, a, q, x, d
      <3> QED
        BY ONLY <3>1, JoinsPosted
    <2>4. Text(s)' = Text(s)
      <3> HIDE DEF a, q, x, d
      <3>1. arrived'[s] = a
        BY <2>1 DEF a
      <3> QED
        BY Zenon, <1>5, <1>6, <1>7, <2>2, <2>3, <3>1
    <2> QED
      BY Zenon, <1>1, <2>4
  <1>8. CASE t = "main"
    <2>1. /\ WriteStd(s, x) /\ queue' = queue
      BY <1>8, Posts
    <2>2. arrived'[s] = a \o x
      BY <1>1, <2>1, Writes
    <2>3. Text(s)' = Joined(a \o x, q, <<>>, <<>>, d) /\ Text(s) = Joined(a, q, <<>>, x, d)
      BY Zenon, <1>5, <1>6, <1>8, <2>1, <2>2
    <2>4. a \in Seq(P) /\ q \in Seq(P) /\ x \in Seq(P) /\ d \in Seq(P)
      BY <1>1, <1>2
    <2> HIDE DEF P, a, q, x, d
    <2>5. /\ Len(Joined(a \o x, q, <<>>, <<>>, d)) = Len(Joined(a, q, <<>>, x, d))
          /\ ToSet(Joined(a \o x, q, <<>>, <<>>, d)) = ToSet(Joined(a, q, <<>>, x, d))
      BY ONLY <2>4, ArrivesEarly
    <2> QED
      BY Zenon, <1>1, <1>8, <2>3, <2>5
  <1> QED
    BY <1>7, <1>8 DEF Threads

LEMMA PostingKept ==
  ASSUME NEW u, NEW s, taken'[u] = taken[u],
         taken[u] # 0 => calls'[u] = calls[u] /\ written'[s] = written[s] /\ buf'[s] = buf[s]
  PROVE  BeingPosted(u, s)' = BeingPosted(u, s)
  <1>1. CASE taken[u] = 0
    BY <1>1 DEF BeingPosted
  <1>2. CASE taken[u] # 0
    <2>1. CString(s, taken[u])' = CStr(written'[s], buf'[s], taken'[u])
      BY DEF CString, CStr
    <2>2. CString(s, taken[u]) = CStr(written[s], buf[s], taken[u])
      BY DEF CString, CStr
    <2>3. CString(s, taken[u])' = CString(s, taken[u])
      BY Zenon, <1>2, <2>1, <2>2
    <2>4. Stream(u)' = Stream(u)
      BY <1>2 DEF Stream
    <2> QED
      BY Zenon, <1>2, <2>3, <2>4 DEF BeingPosted
  <1> QED
    BY <1>1, <1>2

LEMMA ElsewhereText ==
  ASSUME Base, NEW t \in Threads, NEW s \in Streams, Stream(t) # s, StreamStep(t)
  PROVE  Text(s)' = Text(s) /\ written'[s] = written[s] /\ pptr'[s] = pptr[s]
  <1>1. /\ calls[t] # <<>> /\ Stream(t) \in Streams
        /\ \A u \in Threads : u # t => taken'[u] = taken[u] /\ calls'[u] = calls[u]
        /\ written'[s] = written[s] /\ buf'[s] = buf[s] /\ pptr'[s] = pptr[s]
    <2>1. CASE Overflow(t)
      <3>1. /\ written' = [written EXCEPT ![Stream(t)] = Append(@, Head(calls[t]).kind)]
            /\ buf' = [buf EXCEPT ![Stream(t)] =
                         StoreAt(@, pptr[Stream(t)] + 1, Len(written[Stream(t)]) + 1)]
            /\ pptr' = [pptr EXCEPT ![Stream(t)] = @ + 1]
            /\ calls[t] # <<>> /\ Stream(t) \in Streams
        BY <2>1, Puts
      <3>2. /\ written \in [Streams -> Seq(Kinds)] /\ buf \in [Streams -> Seq(Nat)]
            /\ pptr \in [Streams -> 0 .. BufferSize + 1]
        BY DEF Base, TypeOK
      <3>3. written'[s] = written[s] /\ buf'[s] = buf[s] /\ pptr'[s] = pptr[s]
        BY <3>1, <3>2
      <3>4. \A u \in Threads : u # t => taken'[u] = taken[u] /\ calls'[u] = calls[u]
        BY <2>1 DEF Overflow, Base, TypeOK
      <3> QED
        BY <3>1, <3>3, <3>4
    <2>2. CASE SyncTake(t)
      BY <2>2, Takes
    <2>3. CASE SyncPost(t)
      BY <2>3, Posts
    <2> QED
      BY <2>1, <2>2, <2>3 DEF StreamStep
  <1>2. BeingPosted(t, s) = <<>>
    BY DEF BeingPosted
  <1>3. BeingPosted(t, s)' = <<>>
    <2>1. CASE Overflow(t)
      BY <2>1, Puts DEF Overflow, BeingPosted
    <2>2. CASE SyncTake(t)
      <3>1. taken'[t] # 0 => calls'[t] = calls[t]
        BY <2>2, Takes
      <3> QED
        BY <3>1 DEF BeingPosted, Stream
    <2>3. CASE SyncPost(t)
      BY <2>3, Posts DEF BeingPosted
    <2> QED
      BY <2>1, <2>2, <2>3 DEF StreamStep
  <1>4. \A u \in Threads : u # t => BeingPosted(u, s)' = BeingPosted(u, s)
    BY <1>1, PostingKept
  <1>5. BeingPosted("sim", s)' = BeingPosted("sim", s) /\ BeingPosted("main", s)' = BeingPosted("main", s)
    BY <1>2, <1>3, <1>4 DEF Threads
  <1>6. arrived'[s] = arrived[s] /\ PostedIn(queue', s) = PostedIn(queue, s)
    <2>1. CASE Overflow(t)
      BY <2>1 DEF Overflow, page
    <2>2. CASE SyncTake(t)
      BY <2>2, Takes
    <2>3. CASE SyncPost(t) /\ t = "sim"
      <3> DEFINE z == Stream(t)
                 x == CString(z, taken[t])
                 r == [s |-> z, text |-> x]
                 Q == [s : Streams, text : Seq(Nat)]
                 P == Places(s)
                 q == PostedIn(queue, s)
      <3>1. queue' = Append(queue, r) /\ arrived' = arrived /\ x \in Seq(Places(z))
        BY <2>3, Posts
      <3>2. /\ queue \in Seq(Q)
            /\ \A i \in 1 .. Len(queue) : queue[i].s = s => queue[i].text \in Seq(P)
        BY DEF Base, TypeOK
      <3>3. r.s # s
        OBVIOUS
      <3>4. r \in Q
        <4>1. Places(z) \subseteq Nat
          BY LenProperties DEF Places
        <4>2. x \in Seq(Nat)
          BY <3>1, <4>1, SeqMonotonic
        <4>3. z \in Streams
          BY <1>1
        <4> HIDE DEF x, z
        <4> QED
          BY <4>2, <4>3
      <3> HIDE DEF Q, P, x, r
      <3>5. PostedIn(Append(queue, r), s) = PostedIn(queue, s) \o (IF r.s = s THEN r.text ELSE <<>>)
        <4>1. r.s = s => r.text \in Seq(P)
          BY <3>3
        <4> QED
          BY ONLY <3>2, <3>4, <4>1, PostedAppend
      <3>6. q \in Seq(P)
        BY TextTypes DEF P
      <3>7. q \o <<>> = q
        <4> HIDE DEF q
        <4> QED
          BY <3>6, ConcatEmptySeq
      <3> QED
        BY Zenon, <3>1, <3>3, <3>5, <3>7
    <2>4. CASE SyncPost(t) /\ t = "main"
      <3>1. /\ WriteStd(Stream(t), CString(Stream(t), taken[t])) /\ queue' = queue
            /\ CString(Stream(t), taken[t]) \in Seq(Places(Stream(t)))
        BY <2>4, Posts
      <3>2. arrived'[s] = arrived[s]
        BY <1>1, <3>1, Writes
      <3> QED
        BY <3>1, <3>2
    <2> QED
      BY <2>1, <2>2, <2>3, <2>4 DEF StreamStep, Threads
  <1>7. Text(s)' = Joined(arrived'[s], PostedIn(queue', s), BeingPosted("sim", s)',
                          BeingPosted("main", s)', SubSeq(buf'[s], 1, pptr'[s]))
    BY Zenon DEF Text, Joined, Posted, PostedIn, TextsOf
  <1>8. Text(s) = Joined(arrived[s], PostedIn(queue, s), BeingPosted("sim", s),
                         BeingPosted("main", s), SubSeq(buf[s], 1, pptr[s]))
    BY Zenon DEF Text, Joined, Posted, PostedIn, TextsOf
  <1> QED
    BY Zenon, <1>1, <1>5, <1>6, <1>7, <1>8

\* What no step of a stream changes.
LEMMA QuietText ==
  ASSUME Base, NEW s \in Streams, UNCHANGED <<written, taken>>,
         \A t \in Threads : taken[t] # 0 => calls'[t] = calls[t] /\ buf' = buf,
         PostedIn(queue', s) = PostedIn(queue, s), arrived'[s] = arrived[s],
         SubSeq(buf'[s], 1, pptr'[s]) = SubSeq(buf[s], 1, pptr[s])
  PROVE  Text(s)' = Text(s)
  <1>1. \A u \in Threads : BeingPosted(u, s)' = BeingPosted(u, s)
    BY PostingKept
  <1>2. BeingPosted("sim", s)' = BeingPosted("sim", s) /\ BeingPosted("main", s)' = BeingPosted("main", s)
    BY <1>1 DEF Threads
  <1>3. Text(s)' = Joined(arrived'[s], PostedIn(queue', s), BeingPosted("sim", s)',
                          BeingPosted("main", s)', SubSeq(buf'[s], 1, pptr'[s]))
    BY Zenon DEF Text, Joined, Posted, PostedIn, TextsOf
  <1>4. Text(s) = Joined(arrived[s], PostedIn(queue, s), BeingPosted("sim", s),
                         BeingPosted("main", s), SubSeq(buf[s], 1, pptr[s]))
    BY Zenon DEF Text, Joined, Posted, PostedIn, TextsOf
  <1> QED
    BY Zenon, <1>2, <1>3, <1>4

LEMMA HandsText ==
  ASSUME Base, NEW cs, SimHands(cs) \/ MainHands(cs), NEW s \in Streams
  PROVE  Text(s)' = Text(s) /\ written' = written
  <1>1. UNCHANGED <<written, buf, pptr, taken, queue, arrived>>
    BY DEF SimHands, MainHands, Hands
  <1>2. \A t \in Threads : taken[t] # 0 => calls'[t] = calls[t]
    <2>1. \A t \in Threads : taken[t] # 0 => calls[t] # <<>>
      BY DEF Base, ArraysHold, Doing
    <2> QED
      BY <2>1 DEF SimHands, MainHands, Hands, Base, TypeOK, Threads
  <1> QED
    BY <1>1, <1>2, QuietText

LEMMA StartText ==
  ASSUME Base, Owners, Start, NEW s \in Streams
  PROVE  Text(s)' = Text(s) /\ written' = written
  <1>1. /\ \A t \in Threads : calls[t] = <<>> /\ taken[t] = 0
        /\ UNCHANGED <<written, calls, taken, queue, arrived>>
        /\ buf'[s] = <<>> /\ pptr'[s] = 0
    BY Starts
  <1>2. pptr[s] = 0
    <2>1. Flushed("main", s)
      BY DEF Owners, Start
    <2>2. Len(calls["main"]) = 0
      BY <1>1, EmptySeq DEF Threads
    <2> QED
      BY <2>1, <2>2 DEF Flushed, Pending
  <1>3. SubSeq(buf'[s], 1, pptr'[s]) = SubSeq(buf[s], 1, pptr[s])
    <2>1. <<>> \in Seq(Nat) /\ buf[s] \in Seq(Nat)
      BY EmptySeq DEF Base, TypeOK
    <2>2. SubSeq(<<>>, 1, 0) = <<>> /\ SubSeq(buf[s], 1, 0) = <<>>
      BY ONLY <2>1, Nothing
    <2> QED
      BY <1>1, <1>2, <2>2
  <1> QED
    BY <1>1, <1>3, QuietText

LEMMA DeliverText ==
  ASSUME Base, Deliver, NEW s \in Streams
  PROVE  Text(s)' = Text(s) /\ written' = written
  <1> DEFINE z == Head(queue).s
             x == Head(queue).text
             P == Places(s)
             Q == [s : Streams, text : Seq(Nat)]
             a == arrived[s]
             q == PostedIn(Tail(queue), s)
             d == SubSeq(buf[s], 1, pptr[s])
  <1>1. /\ z \in Streams /\ x \in Seq(Places(z)) /\ WriteStd(z, x)
        /\ queue' = Tail(queue) /\ Len(queue) \in Nat \ {0} /\ queue # <<>>
        /\ UNCHANGED <<written, buf, pptr, calls, taken>>
    BY Delivers
  <1>2. /\ queue \in Seq(Q)
        /\ \A i \in 1 .. Len(queue) : queue[i].s = s => queue[i].text \in Seq(P)
    BY DEF Base, TypeOK
  <1>3. PostedIn(queue, s) = (IF z = s THEN x ELSE <<>>) \o q
    <2>1. Len(queue) # 0
      BY <1>1
    <2> HIDE DEF P, Q
    <2> QED
      BY ONLY <1>2, <2>1, PostedHead
  <1>4. q \in Seq(P)
    <2> DEFINE p == Tail(queue)
    <2>1. p \in Seq(Q) /\ \A i \in 1 .. Len(p) : p[i].s = s => p[i].text \in Seq(P)
      <3>1. /\ Tail(queue) \in Seq(Q) /\ Len(Tail(queue)) = Len(queue) - 1
            /\ \A i \in 1 .. Len(queue) - 1 : Tail(queue)[i] = queue[i + 1]
        <4> HIDE DEF Q
        <4> QED
          BY <1>1, <1>2, HeadTailProperties
      <3>2. \A i \in 1 .. Len(queue) - 1 : i + 1 \in 1 .. Len(queue)
        BY <1>1
      <3> HIDE DEF Q, P
      <3> QED
        BY <1>2, <3>1, <3>2
    <2> HIDE DEF P, Q, p
    <2>2. PostedIn(p, s) \in Seq(P)
      BY ONLY <2>1, PostedInType
    <2> QED
      BY <2>2 DEF p
  <1>5. CASE z # s
    <2>1. arrived'[s] = arrived[s]
      BY <1>1, <1>5, Writes
    <2>2. <<>> \o q = q
      <3> HIDE DEF q, P
      <3> QED
        BY <1>4, ConcatEmptySeq
    <2>3. PostedIn(queue', s) = PostedIn(queue, s)
      BY Zenon, <1>1, <1>3, <1>5, <2>2
    <2> QED
      BY <1>1, <2>1, <2>3, QuietText
  <1>6. CASE z = s
    <2>1. arrived'[s] = a \o x /\ x \in Seq(P)
      BY <1>1, <1>6, Writes
    <2>2. \A u \in Threads : BeingPosted(u, s)' = BeingPosted(u, s)
      BY <1>1, PostingKept
    <2> DEFINE v == BeingPosted("sim", s)
               w == BeingPosted("main", s)
    <2>3. BeingPosted("sim", s)' = v /\ BeingPosted("main", s)' = w
      BY <2>2 DEF Threads
    <2>4. Text(s)' = Joined(a \o x, q, v, w, d)
      <3>1. Text(s)' = Joined(arrived'[s], PostedIn(queue', s), BeingPosted("sim", s)',
                              BeingPosted("main", s)', SubSeq(buf'[s], 1, pptr'[s]))
        BY Zenon DEF Text, Joined, Posted, PostedIn, TextsOf
      <3>2. SubSeq(buf'[s], 1, pptr'[s]) = d /\ PostedIn(queue', s) = q
        BY Zenon, <1>1
      <3> HIDE DEF a, x, q, v, w, d
      <3> QED
        BY Zenon, <2>1, <2>3, <3>1, <3>2
    <2>5. Text(s) = Joined(a, x \o q, v, w, d)
      <3>1. Text(s) = Joined(a, PostedIn(queue, s), v, w, d)
        BY Zenon DEF Text, Joined, Posted, PostedIn, TextsOf
      <3> QED
        BY Zenon, <1>3, <1>6, <3>1
    <2>6. a \in Seq(P) /\ x \in Seq(P) /\ q \in Seq(P)
      BY <1>4, <2>1, TextTypes
    <2> HIDE DEF a, x, q, v, w, d, P
    <2>7. Joined(a \o x, q, v, w, d) = Joined(a, x \o q, v, w, d)
      BY ONLY <2>6, JoinsArrived
    <2> QED
      BY Zenon, <1>1, <2>4, <2>5, <2>7
  <1> QED
    BY <1>5, <1>6

-----------------------------------------------------------------------------
(* What is printed on stdout arrives in order, but for what is cut off *)

\* CutOff, Exact and Complete, of what has been written and what is on its way.
CutIn(w, i) ==
  \E j \in 1 .. i :
    w[j] = "nul" /\ i - j < BufferSize /\ \A k \in j .. i - 1 : w[k] # "newline"

Exact(w, text) ==
  /\ \A i, j \in 1 .. Len(text) : i < j => text[i] < text[j]
  /\ \A i \in 1 .. Len(w) : i \in ToSet(text) \/ CutIn(w, i)

Complete(w, text) == ToSet(text) = 1 .. Len(w) /\ Len(text) = Len(w)

LEMMA ExactAppend ==
  ASSUME NEW w \in Seq(Kinds), NEW text \in Seq(1 .. Len(w)), NEW kind \in Kinds, Exact(w, text)
  PROVE  Exact(Append(w, kind), Append(text, Len(w) + 1))
  <1> DEFINE n == Len(w)
             l == Len(text)
             v == Append(w, kind)
             more == Append(text, n + 1)
  <1>1. n \in Nat /\ l \in Nat
    BY LenProperties
  <1>2. /\ Len(v) = n + 1 /\ \A i \in 1 .. n : v[i] = w[i]
    BY AppendProperties
  <1>3. /\ Len(more) = l + 1 /\ (\A i \in 1 .. l : more[i] = text[i]) /\ more[l + 1] = n + 1
    <2>1. text \in Seq(Nat)
      BY SeqMonotonic
    <2> QED
      BY <1>1, <2>1, AppendProperties
  <1>4. \A i \in 1 .. l : text[i] \in 1 .. n
    BY ElementOfSeq
  <1>5. \A i \in 1 .. n : CutIn(w, i) => CutIn(v, i)
    <2> TAKE i \in 1 .. n
    <2> HAVE CutIn(w, i)
    <2>1. PICK j \in 1 .. i : w[j] = "nul" /\ i - j < BufferSize /\ \A k \in j .. i - 1 : w[k] # "newline"
      BY DEF CutIn
    <2>2. j \in 1 .. n /\ \A k \in j .. i - 1 : k \in 1 .. n
      BY <1>1
    <2>3. v[j] = "nul" /\ \A k \in j .. i - 1 : v[k] # "newline"
      BY <1>2, <2>1, <2>2
    <2> QED
      BY <2>1, <2>3 DEF CutIn
  <1>6. /\ \A i, j \in 1 .. l : i < j => text[i] < text[j]
        /\ \A i \in 1 .. n : i \in ToSet(text) \/ CutIn(w, i)
    BY DEF Exact
  <1> HIDE DEF n, l, v, more
  <1>7. \A i, j \in 1 .. l + 1 : i < j => more[i] < more[j]
    <2> TAKE i, j \in 1 .. l + 1
    <2> HAVE i < j
    <2>1. i \in 1 .. l /\ (j \in 1 .. l \/ j = l + 1)
      BY <1>1
    <2>2. CASE j \in 1 .. l
      BY <1>3, <1>6, <2>1, <2>2
    <2>3. CASE j = l + 1
      BY <1>1, <1>3, <1>4, <2>1, <2>3
    <2> QED
      BY <2>1, <2>2, <2>3
  <1>8. ASSUME NEW i \in 1 .. n + 1 PROVE i \in ToSet(more) \/ CutIn(v, i)
    <2>1. CASE i = n + 1
      BY <1>1, <1>3, <2>1 DEF ToSet
    <2>2. CASE i \in 1 .. n /\ i \in ToSet(text)
      <3>1. PICK k \in 1 .. l : text[k] = i
        BY <2>2 DEF ToSet, l
      <3>2. more[k] = i /\ k \in 1 .. Len(more)
        BY <1>1, <1>3, <3>1
      <3> QED
        BY <3>2 DEF ToSet
    <2>3. CASE i \in 1 .. n /\ CutIn(w, i)
      BY <1>5, <2>3
    <2> QED
      BY <1>1, <1>6, <2>1, <2>2, <2>3
  <1>9. Exact(v, more)
    BY <1>2, <1>3, <1>7, <1>8 DEF Exact
  <1> QED
    BY <1>9 DEF v, more, n

LEMMA CompleteAppend ==
  ASSUME NEW w \in Seq(Kinds), NEW text \in Seq(1 .. Len(w)), NEW kind \in Kinds, Complete(w, text)
  PROVE  Complete(Append(w, kind), Append(text, Len(w) + 1))
  <1> DEFINE n == Len(w)
             v == Append(w, kind)
             more == Append(text, n + 1)
  <1>1. n \in Nat /\ Len(text) = n /\ ToSet(text) = 1 .. n
    BY LenProperties DEF Complete
  <1>2. Len(v) = n + 1
    BY AppendProperties
  <1>3. /\ Len(more) = n + 1 /\ (\A i \in 1 .. n : more[i] = text[i]) /\ more[n + 1] = n + 1
    <2>1. text \in Seq(Nat)
      BY SeqMonotonic
    <2> QED
      BY <1>1, <2>1, AppendProperties
  <1>0. (\A k \in 1 .. n : text[k] \in 1 .. n) /\ \A x \in 1 .. n : \E k \in 1 .. n : text[k] = x
    <2>1. /\ \A k \in 1 .. Len(text) : text[k] \in ToSet(text)
          /\ \A x \in ToSet(text) : \E k \in 1 .. Len(text) : text[k] = x
      BY DEF ToSet
    <2> HIDE DEF n
    <2> QED
      BY <1>1, <2>1
  <1> HIDE DEF n, v, more
  <1>4. ToSet(more) = 1 .. n + 1
    <2>1. ASSUME NEW x PROVE x \in ToSet(more) => x \in 1 .. n + 1
      <3> HAVE x \in ToSet(more)
      <3>1. PICK k \in 1 .. n + 1 : more[k] = x
        BY <1>3 DEF ToSet
      <3>2. CASE k = n + 1
        BY <1>1, <1>3, <3>1, <3>2
      <3>3. CASE k \in 1 .. n
        BY <1>1, <1>3, <1>0, <3>1, <3>3
      <3> QED
        BY <1>1, <3>2, <3>3
    <2>2. ASSUME NEW x PROVE x \in 1 .. n + 1 => x \in ToSet(more)
      <3> HAVE x \in 1 .. n + 1
      <3>1. CASE x = n + 1
        BY <1>1, <1>3, <3>1 DEF ToSet
      <3>2. CASE x \in 1 .. n
        <4>1. PICK k \in 1 .. n : text[k] = x
          BY <1>0, <3>2
        <4>2. k \in 1 .. n + 1 /\ more[k] = x
          BY <1>1, <1>3, <4>1
        <4> QED
          BY <1>3, <4>2 DEF ToSet
      <3> QED
        BY <1>1, <3>1, <3>2
    <2> QED
      BY <2>1, <2>2
  <1>5. Complete(v, more)
    BY <1>2, <1>3, <1>4 DEF Complete
  <1> QED
    BY <1>5 DEF v, more, n

\* What a NUL cuts off: the last p characters of w are in a buffer, which is taken up to the
\* first m of them.
LEMMA ExactCut ==
  ASSUME NEW w \in Seq(Kinds), NEW u \in Seq(1 .. Len(w)), NEW b \in Seq(1 .. Len(w)),
         NEW p \in 0 .. Len(b), p <= BufferSize, NEW m \in 0 .. p,
         m = p \/ w[b[m + 1]] = "nul",
         \A j \in 1 .. p : b[j] = Len(w) - p + j /\ (w[b[j]] = "newline" => j = p),
         Exact(w, u \o SubSeq(b, 1, p))
  PROVE  Exact(w, u \o SubSeq(b, 1, m))
  <1> DEFINE n == Len(w)
             l == Len(u)
             d == SubSeq(b, 1, p)
             e == SubSeq(b, 1, m)
             text == u \o d
             cut == u \o e
  <1>1. n \in Nat /\ l \in Nat /\ Len(b) \in Nat /\ BufferSize \in Nat /\ m \in 0 .. Len(b)
        /\ p \in Nat /\ m \in Nat /\ m <= p
    BY LenProperties, ConsoleAssumption DEF ConsoleAssumption
  <1>2. /\ d \in Seq(1 .. n) /\ Len(d) = p /\ \A i \in 1 .. p : d[i] = b[i]
    BY Parts
  <1>3. /\ e \in Seq(1 .. n) /\ Len(e) = m /\ \A i \in 1 .. m : e[i] = b[i]
    BY <1>1, Parts
  <1>0. Exact(w, text)
    OBVIOUS
  <1> HIDE DEF d, e
  <1>4. /\ Len(text) = l + p /\ (\A i \in 1 .. l : text[i] = u[i])
        /\ \A i \in 1 .. p : text[l + i] = d[i]
    <2>1. /\ Len(text) = Len(u) + Len(d)
          /\ \A i \in 1 .. Len(u) + Len(d) : text[i] = IF i <= Len(u) THEN u[i] ELSE d[i - Len(u)]
      BY ONLY <1>2, u \in Seq(1 .. Len(w)), ConcatProperties
    <2>2. \A i \in 1 .. p : l + i \in 1 .. l + p /\ ~(l + i <= l) /\ (l + i) - l = i
      BY <1>1
    <2>3. \A i \in 1 .. l : i \in 1 .. l + p /\ i <= l
      BY <1>1
    <2> HIDE DEF text
    <2>4. Len(text) = l + p /\ \A i \in 1 .. l + p : text[i] = IF i <= l THEN u[i] ELSE d[i - l]
      BY Zenon, <1>2, <2>1
    <2> HIDE DEF l
    <2> QED
      BY <2>2, <2>3, <2>4
  <1>5. /\ Len(cut) = l + m /\ (\A i \in 1 .. l : cut[i] = u[i])
        /\ \A i \in 1 .. m : cut[l + i] = e[i]
    <2>1. /\ Len(cut) = Len(u) + Len(e)
          /\ \A i \in 1 .. Len(u) + Len(e) : cut[i] = IF i <= Len(u) THEN u[i] ELSE e[i - Len(u)]
      BY ONLY <1>3, u \in Seq(1 .. Len(w)), ConcatProperties
    <2>2. \A i \in 1 .. m : l + i \in 1 .. l + m /\ ~(l + i <= l) /\ (l + i) - l = i
      BY <1>1
    <2>3. \A i \in 1 .. l : i \in 1 .. l + m /\ i <= l
      BY <1>1
    <2> HIDE DEF cut
    <2>4. Len(cut) = l + m /\ \A i \in 1 .. l + m : cut[i] = IF i <= l THEN u[i] ELSE e[i - l]
      BY Zenon, <1>3, <2>1
    <2> HIDE DEF l
    <2> QED
      BY <2>2, <2>3, <2>4
  <1>6. /\ \A i, j \in 1 .. Len(text) : i < j => text[i] < text[j]
        /\ \A i \in 1 .. n : i \in ToSet(text) \/ CutIn(w, i)
    BY <1>0 DEF Exact
  <1>7. \A x \in ToSet(text) : \E k \in 1 .. Len(text) : text[k] = x
    BY DEF ToSet
  <1>8. \A k \in 1 .. Len(cut) : cut[k] \in ToSet(cut)
    BY DEF ToSet
  <1> HIDE DEF text, cut, l
  <1>9. \A k \in 1 .. l + m : k \in 1 .. l + p /\ cut[k] = text[k]
    <2> TAKE k \in 1 .. l + m
    <2>1. k \in 1 .. l + p
      BY <1>1
    <2>2. CASE k \in 1 .. l
      BY <1>4, <1>5, <2>1, <2>2
    <2>3. CASE k \notin 1 .. l
      <3>1. k - l \in 1 .. m /\ k - l \in 1 .. p /\ l + (k - l) = k
        BY <1>1, <2>3
      <3>2. cut[l + (k - l)] = e[k - l] /\ text[l + (k - l)] = d[k - l]
        BY <1>4, <1>5, <3>1
      <3>3. e[k - l] = d[k - l]
        BY <1>2, <1>3, <3>1
      <3> QED
        BY <2>1, <3>1, <3>2, <3>3
    <2> QED
      BY <2>2, <2>3
  <1>10. \A i, j \in 1 .. Len(cut) : i < j => cut[i] < cut[j]
    BY <1>4, <1>5, <1>6, <1>9
  <1>11. ASSUME NEW i \in 1 .. n PROVE i \in ToSet(cut) \/ CutIn(w, i)
    <2>1. CASE CutIn(w, i)
      BY <2>1
    <2>2. CASE i \in ToSet(text)
      <3>1. PICK k \in 1 .. l + p : text[k] = i
        BY <1>4, <1>7, <2>2
      <3>2. CASE k \in 1 .. l + m
        BY <1>5, <1>8, <1>9, <3>1, <3>2
      <3>3. CASE k \notin 1 .. l + m
        <4> DEFINE h == k - l
                   j == b[m + 1]
        <4>1. h \in m + 1 .. p /\ h \in 1 .. p /\ l + h = k /\ m + 1 \in 1 .. p /\ m # p
          BY <1>1, <3>1, <3>3
        <4>2. i = n - p + h
          <5>1. text[l + h] = d[h] /\ d[h] = b[h] /\ b[h] = n - p + h
            BY <1>2, <1>4, <4>1
          <5> HIDE DEF h
          <5> QED
            BY <3>1, <4>1, <5>1
        <4>3. j = n - p + (m + 1) /\ w[j] = "nul"
          BY <4>1
        <4>4. j \in 1 .. n
          BY <1>1, <4>1, ElementOfSeq
        <4> HIDE DEF h, j
        <4>5. j \in 1 .. i /\ i - j < BufferSize
          BY <1>1, <4>1, <4>2, <4>3, <4>4
        <4>6. ASSUME NEW x \in j .. i - 1 PROVE w[x] # "newline"
          <5>1. x - (n - p) \in 1 .. p /\ x - (n - p) # p /\ x = n - p + (x - (n - p))
            <6>1. /\ n \in Nat /\ p \in Nat /\ m \in Nat /\ h \in m + 1 .. p
                  /\ i = n - p + h /\ j = n - p + (m + 1)
              BY <1>1, <4>1, <4>2, <4>3
            <6> HIDE DEF n
            <6> QED
              BY ONLY <6>1, x \in j .. i - 1
          <5>2. b[x - (n - p)] = n - p + (x - (n - p))
            BY <5>1
          <5>3. b[x - (n - p)] = x
            BY <5>1, <5>2
          <5> QED
            BY <5>1, <5>3
        <4> QED
          BY <4>3, <4>5, <4>6 DEF CutIn
      <3> QED
        BY <3>2, <3>3
    <2> QED
      BY <1>6, <2>1, <2>2
  <1>12. Exact(w, cut)
    BY <1>10, <1>11 DEF Exact
  <1> QED
    BY <1>12 DEF cut, e

LEMMA ExactIs ==
  /\ StdoutExact <=> \A c \in Ctxs : Exact(written[Out(c)], Text(Out(c)))
  /\ StderrComplete <=> \A c \in Ctxs \ raced : Complete(written[Err(c)], Text(Err(c)))
  BY Zenon DEF StdoutExact, StderrComplete, Exact, Complete, CutOff, CutIn, Out, Err

LEMMA StdoutAlone ==
  ASSUME Base, Owners, NEW t \in Threads, NEW c \in Ctxs, calls[t] # <<>>, Stream(t) = Out(c)
  PROVE  /\ Alone(t, Out(c))
         /\ t = "main" => pptr[Out(c)] = 0 /\ taken[t] = 0
  <1>1. Out(c)[2] = "out"
    BY DEF Out
  <1>2. \A u \in Threads : calls[u] # <<>> /\ Stream(u) = Out(c) => t = u
    BY <1>1, OwnStdout DEF Threads
  <1>3. t = "main" => pptr[Out(c)] = 0 /\ taken[t] = 0
    BY <1>1, OwnStdout DEF Owners
  <1> QED
    BY <1>2, <1>3 DEF Alone

LEMMA StreamStdout ==
  ASSUME Base, Owners, LastWritten, StdoutExact, NEW t \in Threads, StreamStep(t)
  PROVE  StdoutExact'
  <1> SUFFICES ASSUME NEW c \in Ctxs PROVE Exact(written'[Out(c)], Text(Out(c))')
    BY ExactIs DEF StdoutExact, Exact, CutOff, CutIn, Out
  <1> DEFINE s == Out(c)
             w == written[s]
             P == Places(s)
  <1>1. s \in Streams /\ Exact(w, Text(s)) /\ Fresh(s)
    BY ExactIs DEF LastWritten, Out, Streams, Sinks
  <1>2. w \in Seq(Kinds) /\ P = 1 .. Len(w)
    BY <1>1 DEF Base, TypeOK, Places
  <1>3. calls[t] # <<>>
    BY Puts, Takes, Posts DEF StreamStep
  <1>4. Text(s) \in Seq(P) /\ buf[s] \in Seq(P) /\ pptr[s] \in 0 .. Len(buf[s])
    BY <1>1, TextTypes
  <1> HIDE DEF s, P
  <1>5. CASE Stream(t) # s
    <2>1. Text(s)' = Text(s) /\ written'[s] = w
      BY <1>1, <1>5, ElsewhereText
    <2> QED
      BY <1>1, <2>1 DEF s
  <1>6. CASE Stream(t) = s /\ Overflow(t)
    <2>1. Alone(t, s)
      BY <1>3, <1>6, StdoutAlone DEF s
    <2>2. /\ Text(s)' = Append(Text(s), Len(w) + 1)
          /\ written'[s] = Append(w, Head(calls[t]).kind)
      BY <1>1, <1>6, <2>1, OverflowText
    <2>3. Head(calls[t]).kind \in Kinds
      BY <1>6, Puts
    <2> HIDE DEF w
    <2>4. Exact(Append(w, Head(calls[t]).kind), Append(Text(s), Len(w) + 1))
      BY ONLY <1>1, <1>2, <1>4, <2>3, ExactAppend
    <2> QED
      BY Zenon, <2>2, <2>4 DEF s
  <1>7. CASE Stream(t) = s /\ SyncTake(t)
    <2>1. Alone(t, s)
      BY <1>3, <1>7, StdoutAlone DEF s
    <2>2. PICK u \in Seq(P), m \in 0 .. pptr[s] :
            /\ Text(s) = u \o SubSeq(buf[s], 1, pptr[s])
            /\ Text(s)' = u \o SubSeq(buf[s], 1, m)
            /\ m = pptr[s] \/ w[buf[s][m + 1]] = "nul"
      BY <1>1, <1>7, <2>1, TakeText DEF P
    <2>3. written'[s] = w
      BY <1>7, Takes
    <2>4. pptr[s] <= BufferSize
      <3>1. /\ pptr[s] < BufferSize + Waiting("sim", s) + Waiting("main", s)
            /\ pptr[s] \in 0 .. BufferSize + 1
        BY <1>1 DEF Base, TypeOK, ArraysHold
      <3>2. \A x \in Threads : Waiting(x, s) \in {0, 1} /\ (x # t => Waiting(x, s) = 0)
        BY <2>1, NotWaiting DEF Alone
      <3>3. Waiting("sim", s) + Waiting("main", s) <= 1 /\ Waiting("sim", s) \in {0, 1} /\ Waiting("main", s) \in {0, 1}
        BY <3>2 DEF Threads
      <3>4. BufferSize \in Nat
        BY ConsoleAssumption DEF ConsoleAssumption
      <3> HIDE DEF w
      <3> QED
        BY ONLY <3>1, <3>3, <3>4
    <2>5. \A j \in 1 .. pptr[s] : /\ buf[s][j] = Len(w) - pptr[s] + j
                                  /\ w[buf[s][j]] = "newline" => j = pptr[s]
      BY <1>1 DEF Fresh
    <2> DEFINE b == buf[s]
               p == pptr[s]
    <2>6. /\ u \in Seq(1 .. Len(w)) /\ b \in Seq(1 .. Len(w)) /\ p \in 0 .. Len(b) /\ m \in 0 .. p
          /\ p <= BufferSize
          /\ m = p \/ w[b[m + 1]] = "nul"
          /\ \A j \in 1 .. p : b[j] = Len(w) - p + j /\ (w[b[j]] = "newline" => j = p)
          /\ Exact(w, u \o SubSeq(b, 1, p))
      BY Zenon, <1>1, <1>2, <1>4, <2>2, <2>4, <2>5
    <2> HIDE DEF w, b, p
    <2>7. Exact(w, u \o SubSeq(b, 1, m))
      BY ONLY <1>2, <2>6, ExactCut
    <2> QED
      BY Zenon, <2>2, <2>3, <2>7 DEF s, w, b
  <1>8. CASE Stream(t) = s /\ SyncPost(t)
    <2>1. Alone(t, s) /\ t = "sim"
      BY <1>3, <1>8, StdoutAlone, Posts DEF s, Threads
    <2>2. Text(s)' = Text(s) /\ written' = written
      BY <1>1, <1>8, <2>1, PostText
    <2> QED
      BY <1>1, <2>2 DEF s
  <1> QED
    BY <1>5, <1>6, <1>7, <1>8 DEF StreamStep

-----------------------------------------------------------------------------
(* What is printed on stderr arrives, if one thread at a time is in the stream *)

RacesSeen == \A c \in Ctxs : InStderr("sim", c) /\ InStderr("main", c) => c \in raced

LEMMA NextRaces ==
  ASSUME TypeOK, Next
  PROVE  RacesSeen' /\ raced \subseteq raced'
  <1>1. Watched
    BY DEF Next
  <1> QED
    BY <1>1 DEF Watched, RacesSeen, Threads

LEMMA InitRaces == Init => RacesSeen
  BY DEF Init, RacesSeen, InStderr, Threads

LEMMA StreamStderr ==
  ASSUME Base, Owners, RacesSeen, StderrComplete, NEW t \in Threads, StreamStep(t),
         raced \subseteq raced'
  PROVE  StderrComplete'
  <1> SUFFICES ASSUME NEW c \in Ctxs \ raced PROVE Complete(written'[Err(c)], Text(Err(c))')
    BY DEF StderrComplete, Complete, Err
  <1> DEFINE s == Err(c)
             w == written[s]
             P == Places(s)
  <1>1. s \in Streams /\ Complete(w, Text(s))
    BY ExactIs DEF Err, Streams, Sinks
  <1>2. /\ w \in Seq(Kinds) /\ P = 1 .. Len(w)
        /\ \A i \in 1 .. Len(w) : w[i] # "nul"
    BY <1>1 DEF Base, TypeOK, Places, Owners
  <1>3. calls[t] # <<>>
    BY Puts, Takes, Posts DEF StreamStep
  <1>4. Text(s) \in Seq(P) /\ buf[s] \in Seq(P) /\ pptr[s] \in 0 .. Len(buf[s])
    BY <1>1, TextTypes
  <1>5. Stream(t) = s => Alone(t, s)
    BY <1>3 DEF RacesSeen, InStderr, Alone, Threads, Err
  <1> HIDE DEF s, P
  <1>6. CASE Stream(t) # s
    <2>1. Text(s)' = Text(s) /\ written'[s] = w
      BY <1>1, <1>6, ElsewhereText
    <2> QED
      BY <1>1, <2>1 DEF s
  <1>7. CASE Stream(t) = s /\ Overflow(t)
    <2>1. /\ Text(s)' = Append(Text(s), Len(w) + 1)
          /\ written'[s] = Append(w, Head(calls[t]).kind)
      BY <1>1, <1>5, <1>7, OverflowText
    <2>2. Head(calls[t]).kind \in Kinds
      BY <1>7, Puts
    <2> HIDE DEF w
    <2>3. Complete(Append(w, Head(calls[t]).kind), Append(Text(s), Len(w) + 1))
      BY ONLY <1>1, <1>2, <1>4, <2>2, CompleteAppend
    <2> QED
      BY Zenon, <2>1, <2>3 DEF s
  <1>8. CASE Stream(t) = s /\ SyncTake(t)
    <2>1. PICK u \in Seq(P), m \in 0 .. pptr[s] :
            /\ Text(s) = u \o SubSeq(buf[s], 1, pptr[s])
            /\ Text(s)' = u \o SubSeq(buf[s], 1, m)
            /\ (\A i \in 1 .. pptr[s] : w[buf[s][i]] # "nul") => m = pptr[s]
      BY <1>1, <1>5, <1>8, TakeText DEF P
    <2>2. written'[s] = w
      BY <1>8, Takes
    <2>3. \A i \in 1 .. pptr[s] : w[buf[s][i]] # "nul"
      <3>1. \A i \in 1 .. pptr[s] : i \in 1 .. Len(buf[s])
        BY <1>4, LenProperties
      <3>2. \A i \in 1 .. Len(buf[s]) : buf[s][i] \in 1 .. Len(w)
        BY <1>2, <1>4, ElementOfSeq
      <3> QED
        BY <1>2, <3>1, <3>2
    <2> QED
      BY Zenon, <1>1, <2>1, <2>2, <2>3 DEF s
  <1>9. CASE Stream(t) = s /\ SyncPost(t)
    <2>1. ToSet(Text(s)') = ToSet(Text(s)) /\ Len(Text(s)') = Len(Text(s)) /\ written' = written
      BY <1>1, <1>5, <1>9, PostText
    <2> QED
      BY Zenon, <1>1, <2>1 DEF Complete, s
  <1> QED
    BY <1>6, <1>7, <1>8, <1>9 DEF StreamStep

\* The steps that print nothing and take nothing.
LEMMA TextKept ==
  ASSUME StdoutExact, StderrComplete, raced \subseteq raced',
         \A s \in Streams : Text(s)' = Text(s) /\ written'[s] = written[s]
  PROVE  StdoutExact' /\ StderrComplete'
  <1>1. ASSUME NEW c \in Ctxs PROVE Exact(written'[Out(c)], Text(Out(c))')
    <2> DEFINE s == Out(c)
    <2>1. s \in Streams /\ Exact(written[s], Text(s))
      BY ExactIs DEF Out, Streams, Sinks
    <2>2. Text(s)' = Text(s) /\ written'[s] = written[s]
      BY <2>1
    <2> QED
      BY Zenon, <2>1, <2>2
  <1>2. ASSUME NEW c \in Ctxs \ raced PROVE Complete(written'[Err(c)], Text(Err(c))')
    <2> DEFINE s == Err(c)
    <2>1. s \in Streams /\ Complete(written[s], Text(s))
      BY ExactIs DEF Err, Streams, Sinks
    <2>2. Text(s)' = Text(s) /\ written'[s] = written[s]
      BY <2>1
    <2> QED
      BY Zenon, <2>1, <2>2
  <1>3. StdoutExact'
    BY <1>1 DEF StdoutExact, Exact, CutOff, CutIn, Out
  <1>4. StderrComplete'
    BY <1>2 DEF StderrComplete, Complete, Err
  <1> QED
    BY <1>3, <1>4

LEMMA NextTexts ==
  ASSUME Base, Owners, LastWritten, RacesSeen, StdoutExact, StderrComplete, Next
  PROVE  StdoutExact' /\ StderrComplete'
  <1>1. \/ StreamStep("sim") \/ StreamStep("main")
        \/ (\E cs : SimHands(cs)) \/ (\E cs : MainHands(cs))
        \/ Start \/ Deliver
    BY NextSteps DEF Base, TypeOK, PageOK
  <1>2. raced \subseteq raced'
    BY NextRaces DEF Base
  <1>3. CASE \E t \in Threads : StreamStep(t)
    BY <1>2, <1>3, StreamStdout, StreamStderr
  <1>4. CASE \E cs : SimHands(cs) \/ MainHands(cs)
    BY <1>2, <1>4, HandsText, TextKept
  <1>5. CASE Start
    BY <1>2, <1>5, StartText, TextKept
  <1>6. CASE Deliver
    BY <1>2, <1>6, DeliverText, TextKept
  <1> QED
    BY <1>1, <1>3, <1>4, <1>5, <1>6 DEF Threads

LEMMA InitTexts == Init => StdoutExact /\ StderrComplete
  <1> SUFFICES ASSUME Init PROVE StdoutExact /\ StderrComplete
    OBVIOUS
  <1>1. ASSUME NEW s \in Streams PROVE Len(written[s]) = 0 /\ Len(Text(s)) = 0
    <2>1. /\ written[s] = <<>> /\ buf[s] = <<>> /\ pptr[s] = 0 /\ arrived[s] = <<>> /\ queue = <<>>
          /\ taken["sim"] = 0 /\ taken["main"] = 0
      BY DEF Init, Threads
    <2>2. PostedIn(queue, s) \in Seq({})
      <3>1. queue \in Seq({}) /\ \A i \in 1 .. Len(queue) : queue[i].s = s => queue[i].text \in Seq({})
        BY <2>1, EmptySeq
      <3> QED
        BY ONLY <3>1, PostedInType
    <2>3. SubSeq(buf[s], 1, pptr[s]) = <<>>
      BY <2>1, EmptySeq, Nothing
    <2>4. \A S : \A u \in Seq(S) : S = {} => Len(u) = 0
      <3> SUFFICES ASSUME NEW S, NEW u \in Seq(S), S = {} PROVE Len(u) = 0
        OBVIOUS
      <3>1. Len(u) \in Nat /\ \A i \in 1 .. Len(u) : u[i] \in S
        BY LenProperties, ElementOfSeq
      <3> QED
        BY <3>1
    <2> DEFINE q == PostedIn(queue, s)
    <2>5. Text(s) = Joined(<<>>, q, <<>>, <<>>, <<>>)
      BY Zenon, <2>1, <2>3 DEF Text, Joined, Posted, PostedIn, TextsOf, BeingPosted
    <2>6. q \in Seq({}) /\ <<>> \in Seq({})
      BY <2>2, EmptySeq
    <2> HIDE DEF q
    <2>7. Joined(<<>>, q, <<>>, <<>>, <<>>) \in Seq({})
      BY ONLY <2>6, JoinedType
    <2> QED
      BY <2>1, <2>4, <2>5, <2>7, EmptySeq
  <1>2. ASSUME NEW c \in Ctxs PROVE Exact(written[Out(c)], Text(Out(c)))
    <2>1. Out(c) \in Streams
      BY DEF Out, Streams, Sinks
    <2>2. Len(written[Out(c)]) = 0 /\ Len(Text(Out(c))) = 0
      BY <1>1, <2>1
    <2> QED
      BY <2>2 DEF Exact
  <1>3. ASSUME NEW c \in Ctxs PROVE Complete(written[Err(c)], Text(Err(c)))
    <2>1. Err(c) \in Streams
      BY DEF Err, Streams, Sinks
    <2>2. Len(written[Err(c)]) = 0 /\ Len(Text(Err(c))) = 0
      BY <1>1, <2>1
    <2> QED
      BY <2>2 DEF Complete, ToSet
  <1> QED
    BY <1>2, <1>3, ExactIs

-----------------------------------------------------------------------------
(* What the panes show *)

LEMMA ReverseIs ==
  ASSUME NEW S, NEW s \in Seq(S)
  PROVE  /\ Reverse(s) \in Seq(S) /\ Len(Reverse(s)) = Len(s) /\ Len(s) \in Nat
         /\ \A i \in 1 .. Len(s) : Reverse(s)[i] = s[(Len(s) - i) + 1]
  <1> DEFINE n == Len(s)
             r == Reverse(s)
  <1>1. n \in Nat /\ \A i \in 1 .. n : s[i] \in S
    BY LenProperties, ElementOfSeq
  <1>2. r = [i \in 1 .. n |-> s[(n - i) + 1]]
    BY Zenon DEF Reverse
  <1> HIDE DEF n, r
  <1>3. \A i \in 1 .. n : (n - i) + 1 \in 1 .. n
    BY <1>1
  <1>4. r \in [1 .. n -> S]
    BY <1>1, <1>2, <1>3
  <1>5. r \in Seq(S) /\ Len(r) = n
    BY <1>1, <1>4
  <1> QED
    BY <1>1, <1>2, <1>5 DEF n, r

\* The last characters, one by one.
Ends(s, t) ==
  Len(s) <= Len(t) /\ \A i \in 1 .. Len(s) : s[i] = t[(Len(t) - Len(s)) + i]

LEMMA SuffixIs ==
  ASSUME NEW S, NEW s \in Seq(S), NEW t \in Seq(S)
  PROVE  IsSuffix(s, t) <=> Ends(s, t)
  <1> DEFINE m == Len(s)
             n == Len(t)
             x == Reverse(s)
             y == Reverse(t)
             u == SubSeq(x, 1, m)
             v == SubSeq(y, 1, m)
  <1>1. m \in Nat /\ x \in Seq(S) /\ Len(x) = m /\ \A i \in 1 .. m : x[i] = s[(m - i) + 1]
    BY ReverseIs
  <1>2. n \in Nat /\ y \in Seq(S) /\ Len(y) = n /\ \A i \in 1 .. n : y[i] = t[(n - i) + 1]
    BY ReverseIs
  <1>3. IsSuffix(s, t) <=> m <= n /\ u = v
    BY Zenon, <1>1, <1>2 DEF IsSuffix, IsPrefix
  <1> HIDE DEF x, y, m, n
  <1>4. ASSUME m <= n
        PROVE  u = v <=> \A i \in 1 .. m : x[i] = y[i]
    <2>1. m \in 0 .. Len(x) /\ m \in 0 .. Len(y)
      BY <1>1, <1>2, <1>4
    <2>2. u \in Seq(S) /\ Len(u) = m /\ \A i \in 1 .. m : u[i] = x[i]
      BY <1>1, <2>1, Parts
    <2>3. v \in Seq(S) /\ Len(v) = m /\ \A i \in 1 .. m : v[i] = y[i]
      BY <1>2, <2>1, Parts
    <2> HIDE DEF u, v
    <2>4. (\A i \in 1 .. m : u[i] = v[i]) => u = v
      BY ONLY <2>2, <2>3, SeqEqual
    <2> QED
      BY <2>2, <2>3, <2>4
  <1>5. ASSUME m <= n
        PROVE  (\A i \in 1 .. m : x[i] = y[i]) <=> (\A i \in 1 .. m : s[i] = t[(n - m) + i])
    <2>1. \A i \in 1 .. m : (m - i) + 1 \in 1 .. m /\ i \in 1 .. n
                            /\ (m - ((m - i) + 1)) + 1 = i
                            /\ (n - ((m - i) + 1)) + 1 = (n - m) + i
                            /\ (n - m) + ((m - i) + 1) = (n - i) + 1
      BY <1>1, <1>2, <1>5
    <2>2. ASSUME \A i \in 1 .. m : x[i] = y[i], NEW i \in 1 .. m
          PROVE  s[i] = t[(n - m) + i]
      <3> DEFINE j == (m - i) + 1
      <3>1. x[j] = y[j] /\ j \in 1 .. m /\ j \in 1 .. n
        BY <2>1, <2>2
      <3>2. x[j] = s[(m - j) + 1] /\ y[j] = t[(n - j) + 1]
        BY <1>1, <1>2, <3>1
      <3>3. (m - j) + 1 = i /\ (n - j) + 1 = (n - m) + i
        BY <2>1
      <3> HIDE DEF j
      <3> QED
        BY <3>1, <3>2, <3>3
    <2>3. ASSUME \A i \in 1 .. m : s[i] = t[(n - m) + i], NEW i \in 1 .. m
          PROVE  x[i] = y[i]
      <3> DEFINE j == (m - i) + 1
      <3>1. s[j] = t[(n - m) + j] /\ j \in 1 .. m /\ i \in 1 .. n
        BY <2>1, <2>3
      <3>2. x[i] = s[j] /\ y[i] = t[(n - i) + 1]
        BY <1>1, <1>2, <3>1
      <3>3. (n - m) + j = (n - i) + 1
        BY <2>1
      <3> HIDE DEF j
      <3> QED
        BY <3>1, <3>2, <3>3
    <2> QED
      BY <2>2, <2>3
  <1>6. Ends(s, t) <=> m <= n /\ \A i \in 1 .. m : s[i] = t[(n - m) + i]
    BY Zenon DEF Ends, m, n
  <1> QED
    BY <1>3, <1>4, <1>5, <1>6

LEMMA SuffixKept ==
  ASSUME NEW S, NEW s \in Seq(S), NEW t \in Seq(S), NEW x \in Seq(S), IsSuffix(s, t)
  PROVE  IsSuffix(s \o x, t \o x)
  <1> DEFINE m == Len(s)
             n == Len(t)
             l == Len(x)
             u == s \o x
             v == t \o x
  <1>1. m \in Nat /\ n \in Nat /\ l \in Nat
    BY LenProperties
  <1>2. /\ u \in Seq(S) /\ Len(u) = m + l
        /\ \A i \in 1 .. m + l : u[i] = IF i <= m THEN s[i] ELSE x[i - m]
    BY ONLY s \in Seq(S), x \in Seq(S), ConcatProperties
  <1>3. /\ v \in Seq(S) /\ Len(v) = n + l
        /\ \A i \in 1 .. n + l : v[i] = IF i <= n THEN t[i] ELSE x[i - n]
    BY ONLY t \in Seq(S), x \in Seq(S), ConcatProperties
  <1>4. m <= n /\ \A i \in 1 .. m : s[i] = t[(n - m) + i]
    BY SuffixIs DEF Ends
  <1> HIDE DEF m, n, l, u, v
  <1>5. \A i \in 1 .. m + l : u[i] = v[((n + l) - (m + l)) + i]
    <2> TAKE i \in 1 .. m + l
    <2> DEFINE j == ((n + l) - (m + l)) + i
    <2>1. j = (n - m) + i /\ j \in 1 .. n + l
      BY <1>1, <1>4
    <2> HIDE DEF j
    <2>2. CASE i <= m
      <3>1. i \in 1 .. m /\ j <= n
        BY <1>1, <1>4, <2>1, <2>2
      <3>2. u[i] = s[i] /\ v[j] = t[j]
        BY <1>2, <1>3, <2>1, <2>2, <3>1
      <3> QED
        BY <1>4, <2>1, <3>1, <3>2 DEF j
    <2>3. CASE ~(i <= m)
      <3>1. ~(j <= n) /\ j - n = i - m
        BY <1>1, <1>4, <2>1, <2>3
      <3>2. u[i] = x[i - m] /\ v[j] = x[j - n]
        BY <1>2, <1>3, <2>1, <2>3, <3>1
      <3> QED
        BY <3>1, <3>2 DEF j
    <2> QED
      BY <2>2, <2>3
  <1>6. Len(u) <= Len(v)
    BY <1>1, <1>2, <1>3, <1>4
  <1>7. Ends(u, v)
    BY <1>2, <1>3, <1>5, <1>6 DEF Ends
  <1>8. IsSuffix(u, v)
    BY ONLY <1>2, <1>3, <1>7, SuffixIs
  <1> QED
    BY <1>8 DEF u, v

LEMMA SuffixSame ==
  ASSUME NEW S, NEW s \in Seq(S)
  PROVE  IsSuffix(s, s) /\ IsSuffix(<<>>, s)
  <1>1. Len(s) \in Nat /\ <<>> \in Seq(S) /\ Len(<<>>) = 0
    BY LenProperties, EmptySeq
  <1>2. \A i \in 1 .. Len(s) : (Len(s) - Len(s)) + i = i
    BY <1>1
  <1>3. Ends(s, s)
    BY <1>1, <1>2 DEF Ends
  <1>4. Ends(<<>>, s)
    BY <1>1 DEF Ends
  <1> QED
    BY <1>1, <1>3, <1>4, SuffixIs

LEMMA WritePane ==
  ASSUME Base, NEW s \in Streams, NEW text \in Seq(Places(s)), WriteStd(s, text),
         UNCHANGED <<ctx, missed>>, main' = main, PaneIsTail
  PROVE  PaneIsTail'
  <1> SUFFICES ASSUME main # "switch", ~missed, NEW k \in Sinks
               PROVE  IsSuffix(pane'[k], arrived'[<<ctx, k>>])
    BY DEF PaneIsTail
  <1> DEFINE z == <<ctx, k>>
             p == pane[k]
             a == arrived[z]
  <1>1. z \in Streams /\ p \in Seq(Nat) /\ a \in Seq(Nat) /\ IsSuffix(p, a)
    BY DEF Base, TypeOK, Streams, PaneIsTail
  <1>2. text \in Seq(Nat)
    <2>1. Places(s) \subseteq Nat
      BY LenProperties DEF Places
    <2> QED
      BY <2>1, SeqMonotonic
  <1>3. /\ pane \in [Sinks -> Seq(Nat)] /\ arrived \in [Streams -> Seq(Nat)]
        /\ s[1] \in Ctxs /\ s[2] \in Sinks /\ s = <<s[1], s[2]>>
    BY DEF Base, TypeOK, Streams
  <1>4. CASE s = z
    <2>1. s[1] = ctx /\ s[2] = k
      BY <1>4
    <2>2. pane'[k] = p \o text /\ arrived'[z] = a \o text
      BY <1>1, <1>3, <1>4, <2>1 DEF WriteStd
    <2>3. IsSuffix(p \o text, a \o text)
      <3> HIDE DEF p, a
      <3> QED
        BY ONLY <1>1, <1>2, SuffixKept
    <2> QED
      BY Zenon, <2>2, <2>3
  <1>5. CASE s # z
    <2>1. s[1] = ctx => s[2] # k
      BY <1>3, <1>5
    <2>2. pane'[k] = p
      BY <1>3, <2>1 DEF WriteStd
    <2>3. arrived'[z] = a
      BY <1>1, <1>3, <1>5 DEF WriteStd
    <2> QED
      BY <1>1, <2>2, <2>3
  <1> QED
    BY <1>4, <1>5

LEMMA NextPane ==
  ASSUME Base, PaneIsTail, Next
  PROVE  PaneIsTail'
  <1>1. ASSUME UNCHANGED <<arrived, ctx, pane, missed>>, main # "switch" \/ main' = main
        PROVE  PaneIsTail'
    BY <1>1 DEF PaneIsTail
  <1>2. ASSUME NEW t \in Threads, StreamStep(t) PROVE PaneIsTail'
    <2>1. main' = main
      BY <1>2 DEF StreamStep
    <2>2. CASE Overflow(t)
      BY <1>1, <2>1, <2>2 DEF Overflow, page
    <2>3. CASE SyncTake(t)
      BY <1>1, <2>1, <2>3 DEF SyncTake, page
    <2>4. CASE SyncPost(t) /\ t = "sim"
      <3>1. UNCHANGED <<arrived, ctx, pane, missed>>
        BY <2>4, Posts
      <3> QED
        BY <1>1, <2>1, <3>1
    <2>5. CASE SyncPost(t) /\ t = "main"
      <3> DEFINE s == Stream(t)
                 text == CString(s, taken[t])
      <3>1. /\ s \in Streams /\ text \in Seq(Places(s)) /\ WriteStd(s, text)
            /\ UNCHANGED <<ctx, missed>>
        BY <2>5, Posts
      <3> HIDE DEF s, text
      <3> QED
        BY <2>1, <3>1, WritePane
    <2> QED
      BY <1>2, <2>2, <2>3, <2>4, <2>5 DEF StreamStep, Threads
  <1>3. CASE SimThread \/ SimCycle
    BY <1>1, <1>2, <1>3
      DEF SimThread, SimCycle, SimGoOn, SimBreakpoint, SimReported, SimFinish, SimStop, SimExit,
          SimStep, OnlyCalls, page, Threads
  <1>4. CASE BreakpointReturn \/ Join \/ BuildError \/ Breakpoint
    BY <1>1, <1>4 DEF BreakpointReturn, Join, BuildError, Breakpoint, MainStep, OnlyCalls, page
  <1>5. CASE Start
    BY <1>1, <1>5 DEF Start, page
  <1>6. CASE SwitchShow
    <2> SUFFICES ASSUME NEW k \in Sinks PROVE IsSuffix(pane'[k], arrived'[<<ctx', k>>])
      BY DEF PaneIsTail
    <2>1. pane'[k] = arrived[<<ctx, k>>] /\ arrived' = arrived /\ ctx' = ctx
      BY <1>6 DEF SwitchShow
    <2>2. arrived[<<ctx, k>>] \in Seq(Nat)
      BY DEF Base, TypeOK, Streams
    <2> QED
      BY <2>1, <2>2, SuffixSame
  <1>7. CASE SwitchMiss
    BY <1>7 DEF SwitchMiss, Announced, PaneIsTail
  <1>8. CASE SwitchClick
    BY <1>8 DEF SwitchClick, MainStep, PaneIsTail
  <1>9. CASE ResetClick
    <2> SUFFICES ASSUME NEW k \in Sinks PROVE IsSuffix(pane'[k], arrived'[<<ctx', k>>])
      BY DEF PaneIsTail
    <2>1. pane'[k] = <<>> /\ arrived' = arrived /\ ctx' \in Ctxs
      BY <1>9 DEF ResetClick
    <2>2. arrived[<<ctx', k>>] \in Seq(Nat)
      BY <2>1 DEF Base, TypeOK, Streams
    <2> QED
      BY <2>1, <2>2, SuffixSame
  <1>10. CASE Deliver
    <2> DEFINE s == Head(queue).s
               text == Head(queue).text
    <2>1. /\ s \in Streams /\ text \in Seq(Places(s)) /\ WriteStd(s, text)
          /\ UNCHANGED <<ctx, missed>> /\ main' = main
      BY <1>10, Delivers
    <2> HIDE DEF s, text
    <2> QED
      BY <2>1, WritePane
  <1>11. SimThread \/ SimCycle \/ MainThread \/ BuildError \/ Clicks \/ Deliver
    BY DEF Next
  <1> QED
    BY <1>2, <1>3, <1>4, <1>5, <1>6, <1>7, <1>8, <1>9, <1>10, <1>11 DEF MainThread, Clicks, Threads

LEMMA InitPane == Init => PaneIsTail
  <1> SUFFICES ASSUME Init, NEW k \in Sinks PROVE IsSuffix(pane[k], arrived[<<ctx, k>>])
    BY DEF PaneIsTail
  <1>1. pane[k] = <<>> /\ arrived[<<ctx, k>>] = <<>>
    BY DEF Init, Streams
  <1> QED
    BY <1>1, EmptySeq, SuffixSame

-----------------------------------------------------------------------------
(* The inductive invariant, and the theorems *)

IInv ==
  /\ Base /\ Owners /\ LastWritten /\ RacesSeen
  /\ StdoutExact /\ StderrComplete /\ PaneIsTail

LEMMA Invariant == Spec => []IInv
  <1>1. Init => IInv
    BY InitBase, InitOwners, InitLast, InitRaces, InitTexts, InitPane DEF IInv
  <1>2. IInv /\ [Next]_vars => IInv'
    <2> SUFFICES ASSUME IInv, [Next]_vars PROVE IInv'
      OBVIOUS
    <2>1. CASE Next
      BY <2>1, NextBase, NextOwners, NextLast, NextRaces, NextTexts, NextPane DEF IInv, Base
    <2>2. CASE UNCHANGED vars
      <3>1. /\ UNCHANGED <<written, buf, pptr, calls, taken, queue, sim, main>>
            /\ UNCHANGED <<arrived, ctx, pane, missed, raced>>
        BY <2>2 DEF vars, streams, page
      <3>2. Base'
        BY <3>1 DEF IInv, Base, TypeOK, ArraysHold, BuildsAlone, Places, Doing, Stream, Waiting, ToSync
      <3>3. Owners' /\ LastWritten' /\ RacesSeen'
        BY <3>1 DEF IInv, Owners, SimCalls, MainCalls, Flushed, Pending, Stream, LastWritten, Fresh,
                    ToSync, RacesSeen, InStderr
      <3>4. StdoutExact' /\ StderrComplete'
        <4>1. \A s \in Streams : Text(s)' = Text(s) /\ written'[s] = written[s]
          BY <3>1, QuietText DEF IInv
        <4> QED
          BY <3>1, <4>1, TextKept DEF IInv
      <3>5. PaneIsTail'
        BY <3>1 DEF IInv, PaneIsTail
      <3> QED
        BY <3>2, <3>3, <3>4, <3>5 DEF IInv
    <2> QED
      BY <2>1, <2>2
  <1> QED
    BY <1>1, <1>2, PTL DEF Spec

\* The streams, the queue and the page's texts are what they should be at every step: no
\* buffer is written beyond the one place it has to spare, and a place in a buffer, in a text
\* that has been posted or in one that has arrived is one of a character that was written to
\* that stream (image_print_stream.cpp, execution.js).
THEOREM ConsoleTypes == Spec => []TypeOK
  <1>1. IInv => TypeOK
    BY DEF IInv, Base
  <1> QED
    BY <1>1, Invariant, PTL

\* What a program prints on stdout reaches the page once and in the order of printing, and
\* all of it is there or on its way, but for what a NUL cuts off in its buffer: however many
\* contexts there are, whatever size the buffers have and however late posts are run.
THEOREM StdoutArrives == Spec => []StdoutExact
  <1>1. IInv => StdoutExact
    BY DEF IInv
  <1> QED
    BY <1>1, Invariant, PTL

\* No message on stderr is lost or doubled, as long as the simulator thread and the page's
\* thread have never been in the stream at once.
THEOREM StderrArrives == Spec => []StderrComplete
  <1>1. IInv => StderrComplete
    BY DEF IInv
  <1> QED
    BY <1>1, Invariant, PTL

\* The panes end as the text of their context does, unless the last change of context did
\* not get the lock: also while a program prints, after a reset and with posts of programs
\* that are gone still in the queue (execution.js, index.js).
THEOREM PanesShowTheEnd == Spec => []PaneIsTail
  <1>1. IInv => PaneIsTail
    BY DEF IInv
  <1> QED
    BY <1>1, Invariant, PTL
===============================================================================
