------------------------------ MODULE FlatMemory ------------------------------
(***************************************************************************)
(* What a user program may rely on in its memory: one array of bytes in    *)
(* which what was stored last is found again, and zero where nothing was   *)
(* stored.  The data end at brk, which sbrk moves, and what is given back  *)
(* is forgotten.  The stack reaches down to low and further when it is     *)
(* used below.  An access may be refused when it is not aligned or where   *)
(* no memory is; it then changes nothing.                                  *)
(*                                                                         *)
(* Home is where user memory can be.  What lies elsewhere (the kernel's    *)
(* data, the special segment, devices) answers as it likes, but an access  *)
(* there changes no byte of the user's.                                    *)
(***************************************************************************)
EXTENDS Words

CONSTANTS
  Addrs,                 \* addresses of accesses
  Values,                \* words that are stored
  Text, Data, Stack      \* the three parts of Home

VARIABLES
  cell, brk, low,
  done                   \* the last store: what it asked for, and whether it was refused
vars == <<cell, brk, low, done>>

Home == Text \cup Data \cup Stack
Mapped == Text \cup {a \in Data : a < brk} \cup {a \in Stack : a >= low}
Span(a, n) == a .. a + n - 1

Did(op, a, n, v, code) == [op |-> op, addr |-> a, size |-> n, value |-> v, fault |-> code]

Init(b, l) ==
  /\ cell = [a \in Home |-> 0]
  /\ brk = b /\ low = l
  /\ done = Did("none", 0, 0, 0, "none")

\* What a load finds: the bytes as a number; those of the text are not sign-extended.
Found(a, n) ==
  LET ByteAt(k) == IF k < n THEN cell[a + k] * 2^(k * ByteBits) ELSE 0
      x == ByteAt(0) + ByteAt(1) + ByteAt(2) + ByteAt(3)
  IN  IF a \in Text THEN x ELSE SignExtend(x, n * ByteBits)

\* The stack may grow, and then to below a.
MayGrow(a) == \/ low' = low
              \/ a \in Stack /\ a < low /\ low' <= a

Load(a, n) ==
  /\ a % n = 0 /\ Span(a, n) \subseteq Home
  /\ MayGrow(a) /\ UNCHANGED <<cell, brk, done>>

Store(a, n, v) ==
  /\ done' = Did("write", a, n, v, "none")
  /\ a % n = 0 /\ Span(a, n) \subseteq Home
  /\ cell' = [b \in Home |-> IF b \in Span(a, n)
                             THEN (v \div 2^((b - a) * ByteBits)) % 2^ByteBits ELSE cell[b]]
  /\ MayGrow(a) /\ UNCHANGED brk

Refuse(a, n) ==
  /\ done'.addr = a /\ done'.size = n /\ done'.fault # "none"
  /\ a % n # 0 \/ ~(Span(a, n) \subseteq Mapped)
  /\ UNCHANGED <<cell, brk, low>>

Elsewhere(a, n) ==
  /\ done'.addr = a /\ done'.size = n
  /\ Span(a, n) \cap Home = {}
  /\ UNCHANGED <<cell, brk, low>>

\* Bytes that come to lie beyond the break are zero when they come back.
Sbrk ==
  /\ done' = Did("sbrk", brk, 0, 0, "none")
  /\ brk' \in Data \cup {b + 1 : b \in Data}
  /\ cell' = [a \in Home |-> IF a \in Data /\ a >= brk' THEN 0 ELSE cell[a]]
  /\ UNCHANGED low

Next ==
  \/ \E a \in Addrs, n \in {1, 2, 4} : Load(a, n) \/ Refuse(a, n) \/ Elsewhere(a, n)
  \/ \E a \in Addrs, n \in {1, 2, 4}, v \in Values : Store(a, n, v)
  \/ Sbrk
=============================================================================
