------------------------------ MODULE MemImage ------------------------------
(***************************************************************************)
(* mem.cpp: the memory of one MIPS image, as operators from one mem_image  *)
(* to the next.  A segment is an array of bytes; the three pointers to an  *)
(* array (words, halves, bytes) are three ways of reading it, the least    *)
(* significant byte first.  The text segment holds the encodings of its    *)
(* instructions; what a load makes of a word that has none is left out.    *)
(*                                                                         *)
(* An access gives a record: the memory after it, the value read and the   *)
(* exception it raised.                                                    *)
(*                                                                         *)
(* ExpandDataUnrounded, ExpandStackAtBottom and ReadMemUnsigned are not    *)
(* the code but mistakes next to it, which the properties must tell from   *)
(* the code.                                                               *)
(***************************************************************************)
EXTENDS Words

CONSTANTS
  TEXT_BOT, DATA_BOT, STACK_TOP, K_DATA_BOT,       \* mem_image.h
  SPECIAL_BOT, SPECIAL_TOP, MM_IO_BOT, MM_IO_TOP,
  TEXT_SIZE, DATA_SIZE, STACK_SIZE, K_DATA_SIZE,   \* spim.h
  StackWindow       \* how far below the stack an access makes it grow (16 MB)

Zeros(n) == [i \in 0 .. n - 1 |-> 0]

\* make_memory: fresh segments, all zero.
MakeMemory ==
  [text |-> Zeros(TEXT_SIZE), data |-> Zeros(DATA_SIZE), stack |-> Zeros(STACK_SIZE),
   k_data |-> Zeros(K_DATA_SIZE), special |-> Zeros(SPECIAL_TOP - SPECIAL_BOT),
   data_top |-> DATA_BOT + DATA_SIZE, stack_bot |-> STACK_TOP - STACK_SIZE,
   k_data_top |-> K_DATA_BOT + K_DATA_SIZE]

NoFault == [code |-> "none", addr |-> 0]
RaiseFault(m, code, a) == [mem |-> m, value |-> 0, fault |-> [code |-> code, addr |-> a]]
Done(m, v) == [mem |-> m, value |-> v, fault |-> NoFault]

\* The data segments that address a lies in: one at most, or none.
Bottom(m) == [data |-> DATA_BOT, stack |-> m.stack_bot, k_data |-> K_DATA_BOT,
              special |-> SPECIAL_BOT]
Top(m) == [data |-> m.data_top, stack |-> STACK_TOP, k_data |-> m.k_data_top,
           special |-> SPECIAL_TOP]
SegmentsAt(m, a) == {s \in DOMAIN Bottom(m) : Bottom(m)[s] <= a /\ a < Top(m)[s]}

InText(a) == TEXT_BOT <= a /\ a < TEXT_BOT + TEXT_SIZE

\* n bytes of an array as a number, and the array with them replaced.
Fetch(f, i, n) ==
  LET ByteAt(k) == IF k < n THEN f[i + k] * 2^(k * ByteBits) ELSE 0
  IN  ByteAt(0) + ByteAt(1) + ByteAt(2) + ByteAt(3)
Put(f, i, n, v) ==
  [j \in DOMAIN f |->
     IF j \in i .. i + n - 1 THEN (v \div 2^((j - i) * ByteBits)) % 2^ByteBits ELSE f[j]]

ExpandDataUnrounded(m, addl_bytes) ==
  LET size == m.data_top - DATA_BOT + addl_bytes
  IN  [m EXCEPT !.data_top = DATA_BOT + size,
                !.data = [i \in 0 .. size - 1 |-> IF i \in DOMAIN m.data THEN m.data[i] ELSE 0]]

\* expand_data, by sbrk and by the assembler.  A message is printed for a negative
\* argument and beyond the limit, and the segment is resized all the same.
ExpandData(m, addl_bytes) ==
  LET size == m.data_top - DATA_BOT + RoundUpWord(addl_bytes)
  IN  [m EXCEPT !.data_top = DATA_BOT + size,
                !.data = [i \in 0 .. size - 1 |-> IF i \in DOMAIN m.data THEN m.data[i] ELSE 0]]

ExpandStackAtBottom(m, addl_bytes) ==
  LET delta == RoundUpWord(addl_bytes)
      old == STACK_TOP - m.stack_bot
      more == IF delta > old THEN delta ELSE old
  IN  [m EXCEPT !.stack_bot = @ - more,
                !.stack = [i \in 0 .. old + more - 1 |-> IF i < old THEN m.stack[i] ELSE 0]]

\* expand_stack: the stack doubles at least; the old contents stay at the top.
ExpandStack(m, addl_bytes) ==
  LET delta == RoundUpWord(addl_bytes)
      old == STACK_TOP - m.stack_bot
      more == IF delta > old THEN delta ELSE old
  IN  [m EXCEPT !.stack_bot = @ - more,
                !.stack = [i \in 0 .. old + more - 1 |-> IF i < more THEN 0 ELSE m.stack[i - more]]]

\* expand_k_data: the bytes from a quarter of the old size to a quarter of the new are
\* zeroed, since the pointer to bytes is advanced by words.  What realloc adds holds
\* whatever the heap held: garbage.
ExpandKData(m, addl_bytes, garbage) ==
  LET old == m.k_data_top - K_DATA_BOT
      size == old + RoundUpWord(addl_bytes)
  IN  [m EXCEPT !.k_data_top = K_DATA_BOT + size,
                !.k_data = [i \in 0 .. size - 1 |->
                   IF i \in old \div BYTES_PER_WORD .. size \div BYTES_PER_WORD - 1 THEN 0
                   ELSE IF i < old THEN m.k_data[i] ELSE garbage]]

\* Below the stack, above the data and not too far down.
GrowsStack(m, a) == m.data_top < a /\ a < m.stack_bot /\ m.stack_bot - StackWindow < a

GrownFor(m, a) == ExpandStack(m, m.stack_bot - a + 4)

\* bad_mem_read: not in a data segment, or not aligned.  Bytes and halves of the text
\* are not sign-extended, those of the data are.
BadMemRead(m, a, n) ==
  IF a % n # 0 THEN RaiseFault(m, "AdEL", a)
  ELSE IF InText(a) THEN Done(m, Fetch(m.text, a - TEXT_BOT, n))
  ELSE IF GrowsStack(m, a) THEN Done(GrownFor(m, a), 0)
  ELSE IF a \in MM_IO_BOT .. MM_IO_TOP THEN Done(m, 0)
  ELSE RaiseFault(m, "DBE", a)

ReadMemUnsigned(m, a, n) ==
  IF SegmentsAt(m, a) # {} /\ a % n = 0 THEN
    LET s == CHOOSE x \in SegmentsAt(m, a) : TRUE
    IN  Done(m, Fetch(m[s], a - Bottom(m)[s], n))
  ELSE BadMemRead(m, a, n)

\* read_mem_byte, read_mem_half, read_mem_word: n is 1, 2 or 4.
ReadMem(m, a, n) ==
  IF SegmentsAt(m, a) # {} /\ a % n = 0 THEN
    LET s == CHOOSE x \in SegmentsAt(m, a) : TRUE
    IN  Done(m, SignExtend(Fetch(m[s], a - Bottom(m)[s], n), n * ByteBits))
  ELSE BadMemRead(m, a, n)

PutAt(m, s, i, n, v) == [m EXCEPT ![s] = Put(@, i, n, v)]

BadMemWrite(m, a, v, n) ==
  IF a % n # 0 THEN RaiseFault(m, "AdES", a)
  ELSE IF InText(a) THEN Done(PutAt(m, "text", a - TEXT_BOT, n, v), 0)
  ELSE IF GrowsStack(m, a) THEN
    LET g == GrownFor(m, a) IN Done(PutAt(g, "stack", a - g.stack_bot, n, v), 0)
  ELSE IF a \in MM_IO_BOT .. MM_IO_TOP THEN Done(m, 0)
  ELSE RaiseFault(m, "DBE", a)

\* A byte of the special segment is stored through the pointer to words: the word whose
\* number is the byte's place gets the byte, sign-extended.  Places past the last word
\* write beyond the array (the model has no such stores).
SpecialByte(m, i, v) ==
  PutAt(m, "special", i * BYTES_PER_WORD, BYTES_PER_WORD,
        SignExtend(v % 2^ByteBits, ByteBits))

BeyondSpecial(a, n) ==
  n = 1 /\ a \in SPECIAL_BOT .. SPECIAL_TOP - 1
    /\ (a - SPECIAL_BOT + 1) * BYTES_PER_WORD > SPECIAL_TOP - SPECIAL_BOT

\* set_mem_byte, set_mem_half, set_mem_word.
SetMem(m, a, v, n) ==
  IF SegmentsAt(m, a) # {} /\ a % n = 0 THEN
    LET s == CHOOSE x \in SegmentsAt(m, a) : TRUE
        i == a - Bottom(m)[s]
    IN  Done(IF n = 1 /\ s = "special" THEN SpecialByte(m, i, v) ELSE PutAt(m, s, i, n, v), 0)
  ELSE BadMemWrite(m, a, v, n)
=============================================================================
