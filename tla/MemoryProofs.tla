----------------------------- MODULE MemoryProofs -----------------------------
(***************************************************************************)
(* Proofs about Memory, for every size and place of the segments in the    *)
(* order of mem_image.h, all addresses and all values.                     *)
(***************************************************************************)
EXTENDS Memory, TLAPS

Sizes == {1, 2, 4}
ArrayOf(n) == [0 .. n - 1 -> Byte]
Homes == TextHome \cup DataHome \cup StackHome

Aligned(a, n) == a % n = 0

\* Byte b of what is stored at a.
ByteOf(v, b, a) == (v \div 2^((b - a) * ByteBits)) % 2^ByteBits

-----------------------------------------------------------------------------
(* The inductive invariant: arrays between bounds in whole words *)

Fields(m) ==
  m \in [text : {m.text}, data : {m.data}, stack : {m.stack}, k_data : {m.k_data},
         special : {m.special}, data_top : {m.data_top}, stack_bot : {m.stack_bot},
         k_data_top : {m.k_data_top}]

Bounds(m) ==
  /\ m.data_top \in DATA_BOT .. DATA_BOT + MaxData /\ m.data_top % BYTES_PER_WORD = 0
  /\ m.stack_bot \in DATA_BOT + MaxData .. STACK_TOP /\ m.stack_bot % BYTES_PER_WORD = 0
  /\ m.k_data_top \in Nat /\ K_DATA_BOT <= m.k_data_top /\ m.k_data_top % BYTES_PER_WORD = 0

Contents(m) ==
  /\ m.text \in ArrayOf(TEXT_SIZE)
  /\ m.data \in ArrayOf(m.data_top - DATA_BOT)
  /\ m.stack \in ArrayOf(STACK_TOP - m.stack_bot)
  /\ m.k_data \in ArrayOf(m.k_data_top - K_DATA_BOT)
  /\ m.special \in ArrayOf(SPECIAL_TOP - SPECIAL_BOT)

MInv(m) == Fields(m) /\ Bounds(m) /\ Contents(m)

\* What the assumption says, in a form that the provers use at once.
LEMMA Layout ==
  /\ TEXT_BOT \in Nat /\ TEXT_BOT % 4 = 0 /\ TEXT_SIZE \in Nat /\ TEXT_SIZE % 4 = 0
  /\ DATA_BOT \in Nat /\ DATA_BOT % 4 = 0 /\ DATA_SIZE \in Nat /\ DATA_SIZE % 4 = 0
  /\ STACK_TOP \in Nat /\ STACK_TOP % 4 = 0 /\ STACK_SIZE \in Nat /\ STACK_SIZE % 4 = 0
  /\ K_DATA_BOT \in Nat /\ K_DATA_BOT % 4 = 0 /\ K_DATA_SIZE \in Nat /\ K_DATA_SIZE % 4 = 0
  /\ SPECIAL_BOT \in Nat /\ SPECIAL_BOT % 4 = 0 /\ SPECIAL_TOP \in Nat /\ SPECIAL_TOP % 4 = 0
  /\ MM_IO_BOT \in Nat /\ MM_IO_TOP \in Nat /\ StackWindow \in Nat
  /\ MaxData \in Nat /\ MaxKData \in Nat
  /\ TEXT_BOT + TEXT_SIZE <= DATA_BOT
  /\ DATA_SIZE <= MaxData /\ DATA_BOT + MaxData + STACK_SIZE <= STACK_TOP
  /\ STACK_TOP <= K_DATA_BOT /\ STACK_TOP <= SPECIAL_BOT /\ STACK_TOP <= MM_IO_BOT
  /\ SPECIAL_BOT <= SPECIAL_TOP
  BY MemoryAssumption DEF BYTES_PER_WORD

LEMMA Numbers ==
  /\ 2^ByteBits \in Nat \ {0} /\ 2^WordBits \in Nat \ {0} /\ 2^(ByteBits - 1) \in Nat
  /\ Values \subseteq Nat /\ Addrs \subseteq Nat /\ Garbage \subseteq Byte /\ 0 \in Byte
  <1>1. ByteBits \in 0 .. WordBits /\ WordBits \in 0 .. WordBits /\ ByteBits - 1 \in 0 .. WordBits
    BY ByteBitsAssumption DEF WordBits
  <1>2. /\ 2^ByteBits \in Nat \ {0} /\ 2^WordBits \in Nat \ {0} /\ 2^(ByteBits - 1) \in Nat
    BY <1>1, MemoryAssumption
  <1>3. Words \subseteq Nat /\ 0 \in Byte
    BY <1>2 DEF Words, Byte
  <1> QED
    BY <1>2, <1>3, MemoryAssumption

LEMMA WholeWords ==
  ASSUME NEW x \in Int
  PROVE  /\ RoundUpWord(x) \in Int /\ RoundUpWord(x) % 4 = 0
         /\ RoundUpWord(x) >= x /\ RoundUpWord(x) < x + 4
  BY DEF RoundUpWord, RoundDown, BYTES_PER_WORD

LEMMA AnyByte ==
  ASSUME NEW v \in Nat, NEW n \in Sizes, NEW a \in Int, NEW b \in a .. a + n - 1
  PROVE  ByteOf(v, b, a) \in Byte
  <1>1. b - a \in 0 .. 3
    BY DEF Sizes
  <1>2. (b - a) * ByteBits \in 0 .. WordBits
    BY <1>1, ByteBitsAssumption DEF WordBits
  <1>3. v \div 2^((b - a) * ByteBits) \in Nat
    BY <1>2, MemoryAssumption
  <1> QED
    BY <1>3, Numbers DEF ByteOf, Byte

-----------------------------------------------------------------------------
(* Stores *)

LEMMA PutKeeps ==
  ASSUME NEW size \in Int, NEW f \in ArrayOf(size), NEW i \in Int, NEW n \in Sizes, NEW v \in Nat
  PROVE  Put(f, i, n, v) \in ArrayOf(size)
  <1>1. DOMAIN f = 0 .. size - 1 /\ \A j \in 0 .. size - 1 : f[j] \in Byte
    BY DEF ArrayOf
  <1>2. Put(f, i, n, v) =
          [j \in 0 .. size - 1 |-> IF j \in i .. i + n - 1 THEN ByteOf(v, j, i) ELSE f[j]]
    BY <1>1 DEF Put, ByteOf
  <1>3. \A j \in i .. i + n - 1 : ByteOf(v, j, i) \in Byte
    BY AnyByte
  <1> QED
    BY <1>1, <1>2, <1>3 DEF ArrayOf

LEMMA PutBytes ==
  ASSUME NEW size \in Int, NEW f \in ArrayOf(size), NEW i \in Int, NEW n \in Sizes, NEW v \in Nat
  PROVE  \A j \in 0 .. size - 1 :
           Put(f, i, n, v)[j] = IF j \in i .. i + n - 1 THEN ByteOf(v, j, i) ELSE f[j]
  BY DEF Put, ByteOf, ArrayOf

\* No access that is aligned reaches over the end of a segment.
LEMMA SpanInside ==
  ASSUME NEW n \in Sizes, NEW a \in Int, Aligned(a, n), NEW top \in Int, top % 4 = 0, a < top
  PROVE  a + n <= top
  <1>1. CASE n = 1
    BY <1>1 DEF Aligned
  <1>2. CASE n = 2
    BY <1>2 DEF Aligned
  <1>3. CASE n = 4
    BY <1>3 DEF Aligned
  <1> QED
    BY <1>1, <1>2, <1>3 DEF Sizes

\* A store into the text, the data or the stack changes the bytes of its span and no others.
LEMMA StoreText ==
  ASSUME NEW m, MInv(m), NEW n \in Sizes, NEW v \in Nat, NEW a \in Nat, Aligned(a, n), InText(a)
  PROVE  LET p == PutAt(m, "text", a - TEXT_BOT, n, v)
         IN  /\ MInv(p) /\ p.data_top = m.data_top /\ p.stack_bot = m.stack_bot
             /\ a .. a + n - 1 \subseteq Homes
             /\ \A b \in Homes :
                  CellOf(p, b) = IF b \in a .. a + n - 1 THEN ByteOf(v, b, a) ELSE CellOf(m, b)
  <1> DEFINE f == Put(m.text, a - TEXT_BOT, n, v)
             p == PutAt(m, "text", a - TEXT_BOT, n, v)
  <1>1. /\ f \in ArrayOf(TEXT_SIZE)
        /\ \A j \in 0 .. TEXT_SIZE - 1 :
             f[j] = IF j \in a - TEXT_BOT .. a - TEXT_BOT + n - 1 THEN ByteOf(v, j, a - TEXT_BOT)
                    ELSE m.text[j]
    <2>1. m.text \in ArrayOf(TEXT_SIZE) /\ TEXT_SIZE \in Int /\ a - TEXT_BOT \in Int
      BY Layout DEF MInv, Contents
    <2>2. f \in ArrayOf(TEXT_SIZE)
      BY <2>1, PutKeeps
    <2> QED
      BY <2>1, <2>2, PutBytes
  <1>2. /\ p.text = f /\ p.data = m.data /\ p.stack = m.stack /\ p.k_data = m.k_data
        /\ p.special = m.special /\ p.data_top = m.data_top /\ p.stack_bot = m.stack_bot
        /\ p.k_data_top = m.k_data_top /\ Fields(p)
    BY DEF PutAt, MInv, Fields
  <1>3. MInv(p)
    BY <1>1, <1>2 DEF MInv, Bounds, Contents
  <1>4. a + n <= TEXT_BOT + TEXT_SIZE
    BY SpanInside, Layout DEF InText
  <1>5. a .. a + n - 1 \subseteq TextHome
    BY <1>4, Layout DEF TextHome, InText, Sizes
  <1>6. ASSUME NEW b \in Homes
        PROVE  CellOf(p, b) = IF b \in a .. a + n - 1 THEN ByteOf(v, b, a) ELSE CellOf(m, b)
    <2>1. CASE b \in TextHome
      <3>1. b - TEXT_BOT \in 0 .. TEXT_SIZE - 1 /\ b \in Int
        BY <2>1, Layout DEF TextHome
      <3>2. /\ b \in a .. a + n - 1 <=> b - TEXT_BOT \in a - TEXT_BOT .. a - TEXT_BOT + n - 1
            /\ ByteOf(v, b - TEXT_BOT, a - TEXT_BOT) = ByteOf(v, b, a)
        <4>1. (b - TEXT_BOT) - (a - TEXT_BOT) = b - a
          BY <3>1, Layout
        <4> QED
          BY <3>1, <4>1, Layout DEF ByteOf, Sizes
      <3>3. CellOf(p, b) = f[b - TEXT_BOT] /\ CellOf(m, b) = m.text[b - TEXT_BOT]
        BY <2>1, <1>2, Layout DEF CellOf, TextHome, DataHome, StackHome
      <3> QED
        BY <1>1, <3>1, <3>2, <3>3
    <2>2. CASE b \notin TextHome
      <3>1. CellOf(p, b) = CellOf(m, b)
        BY <2>2, <1>2 DEF CellOf
      <3> QED
        BY <2>2, <3>1, <1>5
    <2> QED
      BY <2>1, <2>2
  <1> QED
    BY <1>2, <1>3, <1>5, <1>6 DEF Homes

LEMMA StoreData ==
  ASSUME NEW m, MInv(m), NEW n \in Sizes, NEW v \in Nat, NEW a \in Nat, Aligned(a, n),
         "data" \in SegmentsAt(m, a)
  PROVE  LET p == PutAt(m, "data", a - DATA_BOT, n, v)
         IN  /\ MInv(p) /\ p.data_top = m.data_top /\ p.stack_bot = m.stack_bot
             /\ a .. a + n - 1 \subseteq Homes
             /\ \A b \in Homes :
                  CellOf(p, b) = IF b \in a .. a + n - 1 THEN ByteOf(v, b, a) ELSE CellOf(m, b)
  <1> DEFINE f == Put(m.data, a - DATA_BOT, n, v)
             p == PutAt(m, "data", a - DATA_BOT, n, v)
             len == m.data_top - DATA_BOT
  <1>0. DATA_BOT \in Int /\ len \in Int /\ m.data \in ArrayOf(len)
    BY Layout DEF MInv, Bounds, Contents
  <1>7. DATA_BOT <= a /\ a < m.data_top
    BY DEF SegmentsAt, Bottom, Top
  <1>1. /\ f \in ArrayOf(len)
        /\ \A j \in 0 .. len - 1 :
             f[j] = IF j \in a - DATA_BOT .. a - DATA_BOT + n - 1 THEN ByteOf(v, j, a - DATA_BOT)
                    ELSE m.data[j]
    <2> DEFINE i == a - DATA_BOT
               g == m.data
    <2>1. i \in Int /\ len \in Int /\ g \in ArrayOf(len)
      BY <1>0
    <2> HIDE DEF f, p, len, i, g
    <2>2. Put(g, i, n, v) \in ArrayOf(len)
      BY <2>1, PutKeeps
    <2>3. \A j \in 0 .. len - 1 :
            Put(g, i, n, v)[j] = IF j \in i .. i + n - 1 THEN ByteOf(v, j, i) ELSE g[j]
      BY ONLY <2>1, PutBytes, n \in Sizes, v \in Nat
    <2> QED
      BY <2>2, <2>3 DEF f, g, i
  <1>2. /\ p.text = m.text /\ p.data = f /\ p.stack = m.stack /\ p.k_data = m.k_data
        /\ p.special = m.special /\ p.data_top = m.data_top /\ p.stack_bot = m.stack_bot
        /\ p.k_data_top = m.k_data_top /\ Fields(p)
    BY DEF PutAt, MInv, Fields
  <1>3. MInv(p)
    BY <1>1, <1>2 DEF MInv, Bounds, Contents
  <1>4. a + n <= m.data_top
    BY <1>0, <1>7, SpanInside, Layout DEF MInv, Bounds, BYTES_PER_WORD
  <1>5. a .. a + n - 1 \subseteq DataHome
    BY <1>4, <1>7, Layout DEF DataHome, MInv, Bounds, Sizes
  <1>6. ASSUME NEW b \in Homes
        PROVE  CellOf(p, b) = IF b \in a .. a + n - 1 THEN ByteOf(v, b, a) ELSE CellOf(m, b)
    <2>1. CASE b \in DataHome /\ b < m.data_top
      <3>1. b - DATA_BOT \in 0 .. len - 1 /\ b \in Int
        BY <2>1, Layout DEF DataHome, MInv, Bounds
      <3>2. /\ b \in a .. a + n - 1 <=> b - DATA_BOT \in a - DATA_BOT .. a - DATA_BOT + n - 1
            /\ ByteOf(v, b - DATA_BOT, a - DATA_BOT) = ByteOf(v, b, a)
        <4>1. (b - DATA_BOT) - (a - DATA_BOT) = b - a
          BY <1>0, <3>1
        <4> QED
          BY <1>0, <3>1, <4>1 DEF ByteOf, Sizes
      <3>3. CellOf(p, b) = f[b - DATA_BOT] /\ CellOf(m, b) = m.data[b - DATA_BOT]
        BY <2>1, <1>2, Layout DEF CellOf, TextHome, DataHome, StackHome
      <3> QED
        BY <1>1, <3>1, <3>2, <3>3
    <2>2. CASE ~(b \in DataHome /\ b < m.data_top)
      <3>1. CellOf(p, b) = CellOf(m, b)
        BY <2>2, <1>2 DEF CellOf
      <3>2. b \notin a .. a + n - 1
        BY <2>2, <1>4, <1>5, <1>7, Layout DEF MInv, Bounds, Sizes
      <3> QED
        BY <3>1, <3>2
    <2> QED
      BY <2>1, <2>2
  <1> QED
    BY <1>2, <1>3, <1>5, <1>6 DEF Homes

LEMMA StoreStack ==
  ASSUME NEW m, MInv(m), NEW n \in Sizes, NEW v \in Nat, NEW a \in Nat, Aligned(a, n),
         "stack" \in SegmentsAt(m, a)
  PROVE  LET p == PutAt(m, "stack", a - m.stack_bot, n, v)
         IN  /\ MInv(p) /\ p.data_top = m.data_top /\ p.stack_bot = m.stack_bot
             /\ a .. a + n - 1 \subseteq Homes
             /\ \A b \in Homes :
                  CellOf(p, b) = IF b \in a .. a + n - 1 THEN ByteOf(v, b, a) ELSE CellOf(m, b)
  <1> DEFINE f == Put(m.stack, a - m.stack_bot, n, v)
             p == PutAt(m, "stack", a - m.stack_bot, n, v)
             len == STACK_TOP - m.stack_bot
  <1>0. m.stack_bot \in Int /\ len \in Int /\ m.stack \in ArrayOf(len)
    BY Layout DEF MInv, Bounds, Contents
  <1>7. m.stack_bot <= a /\ a < STACK_TOP
    BY DEF SegmentsAt, Bottom, Top
  <1>1. /\ f \in ArrayOf(len)
        /\ \A j \in 0 .. len - 1 :
             f[j] = IF j \in a - m.stack_bot .. a - m.stack_bot + n - 1 THEN ByteOf(v, j, a - m.stack_bot)
                    ELSE m.stack[j]
    <2> DEFINE i == a - m.stack_bot
               g == m.stack
    <2>1. i \in Int /\ len \in Int /\ g \in ArrayOf(len)
      BY <1>0
    <2> HIDE DEF f, p, len, i, g
    <2>2. Put(g, i, n, v) \in ArrayOf(len)
      BY <2>1, PutKeeps
    <2>3. \A j \in 0 .. len - 1 :
            Put(g, i, n, v)[j] = IF j \in i .. i + n - 1 THEN ByteOf(v, j, i) ELSE g[j]
      BY ONLY <2>1, PutBytes, n \in Sizes, v \in Nat
    <2> QED
      BY <2>2, <2>3 DEF f, g, i
  <1>2. /\ p.text = m.text /\ p.data = m.data /\ p.stack = f /\ p.k_data = m.k_data
        /\ p.special = m.special /\ p.data_top = m.data_top /\ p.stack_bot = m.stack_bot
        /\ p.k_data_top = m.k_data_top /\ Fields(p)
    BY DEF PutAt, MInv, Fields
  <1>3. MInv(p)
    BY <1>1, <1>2 DEF MInv, Bounds, Contents
  <1>4. a + n <= STACK_TOP
    BY <1>0, <1>7, SpanInside, Layout DEF MInv, Bounds, BYTES_PER_WORD
  <1>5. a .. a + n - 1 \subseteq StackHome
    BY <1>4, <1>7, Layout DEF StackHome, MInv, Bounds, Sizes
  <1>6. ASSUME NEW b \in Homes
        PROVE  CellOf(p, b) = IF b \in a .. a + n - 1 THEN ByteOf(v, b, a) ELSE CellOf(m, b)
    <2>1. CASE b \in StackHome /\ b >= m.stack_bot
      <3>1. b - m.stack_bot \in 0 .. len - 1 /\ b \in Int
        BY <2>1, Layout DEF StackHome, MInv, Bounds
      <3>2. /\ b \in a .. a + n - 1 <=> b - m.stack_bot \in a - m.stack_bot .. a - m.stack_bot + n - 1
            /\ ByteOf(v, b - m.stack_bot, a - m.stack_bot) = ByteOf(v, b, a)
        <4>1. (b - m.stack_bot) - (a - m.stack_bot) = b - a
          BY <1>0, <3>1
        <4> QED
          BY <1>0, <3>1, <4>1 DEF ByteOf, Sizes
      <3>3. CellOf(p, b) = f[b - m.stack_bot] /\ CellOf(m, b) = m.stack[b - m.stack_bot]
        BY <2>1, <1>2, Layout DEF CellOf, TextHome, DataHome, StackHome
      <3> QED
        BY <1>1, <3>1, <3>2, <3>3
    <2>2. CASE ~(b \in StackHome /\ b >= m.stack_bot)
      <3>1. CellOf(p, b) = CellOf(m, b)
        BY <2>2, <1>2 DEF CellOf
      <3>2. b \notin a .. a + n - 1
        BY <2>2, <1>4, <1>5, <1>7, Layout DEF MInv, Bounds, Sizes
      <3> QED
        BY <3>1, <3>2
    <2> QED
      BY <2>1, <2>2
  <1> QED
    BY <1>2, <1>3, <1>5, <1>6 DEF Homes

\* A store elsewhere changes none of them.
LEMMA StoreKernel ==
  ASSUME NEW m, MInv(m), NEW n \in Sizes, NEW v \in Nat, NEW i \in Int,
         NEW s \in {"k_data", "special"}
  PROVE  LET p == PutAt(m, s, i, n, v)
         IN  /\ MInv(p) /\ p.data_top = m.data_top /\ p.stack_bot = m.stack_bot
             /\ \A b \in Homes : CellOf(p, b) = CellOf(m, b)
  <1> DEFINE p == PutAt(m, s, i, n, v)
  <1>1. /\ Put(m.k_data, i, n, v) \in ArrayOf(m.k_data_top - K_DATA_BOT)
        /\ Put(m.special, i, n, v) \in ArrayOf(SPECIAL_TOP - SPECIAL_BOT)
    <2> DEFINE k_len == m.k_data_top - K_DATA_BOT
               s_len == SPECIAL_TOP - SPECIAL_BOT
    <2>1. k_len \in Int /\ s_len \in Int
      BY Layout DEF MInv, Bounds
    <2>4. m.k_data \in ArrayOf(k_len) /\ m.special \in ArrayOf(s_len)
      BY DEF MInv, Contents
    <2> HIDE DEF k_len, s_len
    <2>2. Put(m.k_data, i, n, v) \in ArrayOf(k_len)
      BY <2>1, <2>4, PutKeeps
    <2>3. Put(m.special, i, n, v) \in ArrayOf(s_len)
      BY <2>1, <2>4, PutKeeps
    <2> QED
      BY <2>2, <2>3 DEF k_len, s_len
  <1>2. /\ p.text = m.text /\ p.data = m.data /\ p.stack = m.stack
        /\ p.k_data = (IF s = "k_data" THEN Put(m.k_data, i, n, v) ELSE m.k_data)
        /\ p.special = (IF s = "special" THEN Put(m.special, i, n, v) ELSE m.special)
        /\ p.data_top = m.data_top /\ p.stack_bot = m.stack_bot
        /\ p.k_data_top = m.k_data_top /\ Fields(p)
    BY DEF PutAt, MInv, Fields
  <1>3. MInv(p)
    BY <1>1, <1>2 DEF MInv, Bounds, Contents
  <1> QED
    BY <1>2, <1>3 DEF CellOf

-----------------------------------------------------------------------------
(* Growth *)

\* The stack grows at its low end and keeps what it held.
LEMMA StackGrows ==
  ASSUME NEW m, MInv(m), NEW a \in Nat, GrowsStack(m, a), Apart(GrownFor(m, a))
  PROVE  LET g == GrownFor(m, a)
         IN  /\ MInv(g) /\ g.data_top = m.data_top /\ g.stack_bot < m.stack_bot /\ g.stack_bot <= a
             /\ a \in StackHome /\ a < m.stack_bot
             /\ \A b \in Homes : CellOf(g, b) = CellOf(m, b)
  <1> DEFINE g == GrownFor(m, a)
             delta == RoundUpWord(m.stack_bot - a + 4)
             old == STACK_TOP - m.stack_bot
             more == IF delta > old THEN delta ELSE old
  <1>1. /\ m.stack_bot \in Int /\ STACK_TOP \in Int /\ m.stack_bot % 4 = 0 /\ STACK_TOP % 4 = 0
        /\ DATA_BOT + MaxData <= m.stack_bot /\ m.stack_bot <= STACK_TOP /\ a < m.stack_bot
    BY Layout DEF MInv, Bounds, BYTES_PER_WORD, GrowsStack
  <1>2. /\ delta \in Int /\ delta % 4 = 0 /\ delta >= m.stack_bot - a + 4
    BY <1>1, WholeWords
  <1>3. more \in Int /\ more % 4 = 0 /\ more >= m.stack_bot - a + 4 /\ old \in Int /\ 0 <= old
    <2> HIDE DEF delta
    <2> QED
      BY <1>1, <1>2
  <1> HIDE DEF more
  <1>4. g = [m EXCEPT !.stack_bot = @ - more,
               !.stack = [i \in 0 .. old + more - 1 |-> IF i < more THEN 0 ELSE m.stack[i - more]]]
    BY DEF GrownFor, ExpandStack, more
  <1>5. /\ g.text = m.text /\ g.data = m.data /\ g.k_data = m.k_data /\ g.special = m.special
        /\ g.data_top = m.data_top /\ g.k_data_top = m.k_data_top /\ Fields(g)
        /\ g.stack_bot = m.stack_bot - more
        /\ g.stack = [i \in 0 .. old + more - 1 |-> IF i < more THEN 0 ELSE m.stack[i - more]]
    BY <1>4 DEF MInv, Fields
  <1>12. Apart(g)
    OBVIOUS
  <1>13. old = STACK_TOP - m.stack_bot
    OBVIOUS
  <1> HIDE DEF g, old, delta
  <1>6. /\ g.stack_bot \in Int /\ g.stack_bot = m.stack_bot - more /\ g.stack_bot % 4 = 0
        /\ DATA_BOT + MaxData <= g.stack_bot /\ g.stack_bot <= a - 4
        /\ STACK_TOP - g.stack_bot = old + more
    <2>1. DATA_BOT + MaxData <= g.stack_bot
      BY <1>12 DEF Apart
    <2>2. g.stack_bot = m.stack_bot - more
      BY <1>5
    <2>3. g.stack_bot <= a - 4
      BY <1>1, <1>3, <2>2
    <2>4. g.stack_bot % 4 = 0
      BY <1>1, <1>3, <2>2
    <2>5. g.stack_bot \in Int /\ STACK_TOP - g.stack_bot = old + more
      BY <1>1, <1>3, <1>13, <2>2
    <2> QED
      BY <2>1, <2>2, <2>3, <2>4, <2>5
  <1>7. \A i \in 0 .. old - 1 : m.stack[i] \in Byte
    BY <1>13 DEF MInv, Contents, ArrayOf
  <1>8. g.stack \in ArrayOf(STACK_TOP - g.stack_bot)
    <2> DEFINE byte(i) == IF i < more THEN 0 ELSE m.stack[i - more]
               size == old + more
    <2>1. old + more - 1 = size - 1
      BY <1>3
    <2>2. \A i \in 0 .. size - 1 : i < more \/ i - more \in 0 .. old - 1
      BY <1>1, <1>3
    <2>3. \A i \in 0 .. size - 1 : byte(i) \in Byte
      BY <1>7, <2>2, Numbers
    <2>4. g.stack = [i \in 0 .. size - 1 |-> byte(i)]
      BY <1>5, <2>1
    <2>5. g.stack \in ArrayOf(size)
      <3> HIDE DEF byte, size
      <3> QED
        BY <2>3, <2>4 DEF ArrayOf
    <2> QED
      BY <1>6, <2>5
  <1>9. MInv(g)
    <2>1. Bounds(g)
      BY <1>1, <1>5, <1>6, Layout DEF MInv, Bounds, BYTES_PER_WORD
    <2>2. Contents(g)
      BY <1>5, <1>8 DEF MInv, Contents
    <2> QED
      BY <1>5, <2>1, <2>2 DEF MInv
  <1>10. ASSUME NEW b \in Homes
         PROVE  CellOf(g, b) = CellOf(m, b)
    <2>1. CASE b \in StackHome /\ b >= m.stack_bot
      <3>1. /\ b - g.stack_bot \in 0 .. old + more - 1 /\ ~(b - g.stack_bot < more)
            /\ (b - g.stack_bot) - more = b - m.stack_bot /\ b >= g.stack_bot
        BY <2>1, <1>1, <1>3, <1>6, <1>13, Layout DEF StackHome
      <3>2. CellOf(g, b) = g.stack[b - g.stack_bot] /\ CellOf(m, b) = m.stack[b - m.stack_bot]
        BY <2>1, <3>1, Layout DEF CellOf, TextHome, DataHome, StackHome
      <3> QED
        BY <3>1, <3>2, <1>5
    <2>2. CASE b \in StackHome /\ ~(b >= m.stack_bot)
      <3>1. b \notin TextHome /\ b \notin DataHome
        BY <2>2, Layout DEF TextHome, DataHome, StackHome
      <3>2. CellOf(m, b) = 0
        BY <2>2, <3>1 DEF CellOf
      <3>3. CASE b >= g.stack_bot
        <4>1. b - g.stack_bot \in 0 .. old + more - 1 /\ b - g.stack_bot < more
          BY <2>2, <3>3, <1>1, <1>3, <1>6, <1>13, Layout DEF StackHome
        <4>2. CellOf(g, b) = g.stack[b - g.stack_bot]
          BY <2>2, <3>1, <3>3 DEF CellOf
        <4> QED
          BY <3>2, <4>1, <4>2, <1>5
      <3>4. CASE ~(b >= g.stack_bot)
        BY <3>1, <3>2, <3>4 DEF CellOf
      <3> QED
        BY <3>3, <3>4
    <2>3. CASE b \notin StackHome
      BY <2>3, <1>5 DEF CellOf
    <2> QED
      BY <2>1, <2>2, <2>3
  <1>11. a \in StackHome
    BY <1>1, <1>6, Layout DEF StackHome
  <1> QED
    BY <1>1, <1>3, <1>5, <1>6, <1>9, <1>10, <1>11 DEF g

-----------------------------------------------------------------------------
(* Accesses *)

LEMMA Reads ==
  ASSUME NEW m, NEW a \in Nat, NEW n \in Sizes
  PROVE  LET r == ReadMem(m, a, n)
         IN  r.mem = m \/ (Aligned(a, n) /\ GrowsStack(m, a) /\ r.mem = GrownFor(m, a))
  <1>1. \/ BadMemRead(m, a, n).mem = m
        \/ Aligned(a, n) /\ GrowsStack(m, a) /\ BadMemRead(m, a, n).mem = GrownFor(m, a)
    BY DEF BadMemRead, RaiseFault, Done, Aligned
  <1> QED
    BY <1>1 DEF ReadMem, Done

\* The ways in which a store can go.
Refused(m, r, a, n) ==
  r.mem = m /\ r.fault.code # "none" /\ (~Aligned(a, n) \/ (~InText(a) /\ SegmentsAt(m, a) = {}))
IntoText(m, r, a, n, v) ==
  Aligned(a, n) /\ InText(a) /\ r.fault = NoFault /\ r.mem = PutAt(m, "text", a - TEXT_BOT, n, v)
IntoData(m, r, a, n, v) ==
  /\ Aligned(a, n) /\ "data" \in SegmentsAt(m, a) /\ r.fault = NoFault
  /\ r.mem = PutAt(m, "data", a - DATA_BOT, n, v)
IntoStack(m, r, a, n, v) ==
  /\ Aligned(a, n) /\ "stack" \in SegmentsAt(m, a) /\ r.fault = NoFault
  /\ r.mem = PutAt(m, "stack", a - m.stack_bot, n, v)
BelowStack(m, r, a, n, v) ==
  /\ Aligned(a, n) /\ GrowsStack(m, a) /\ r.fault = NoFault
  /\ r.mem = PutAt(GrownFor(m, a), "stack", a - GrownFor(m, a).stack_bot, n, v)
IntoKernel(m, r, a) ==
  /\ STACK_TOP <= a /\ r.fault = NoFault
  /\ \/ r.mem = m
     \/ \E s \in {"k_data", "special"}, i \in Int, n \in Sizes, v \in Nat : r.mem = PutAt(m, s, i, n, v)

LEMMA Writes ==
  ASSUME NEW m, MInv(m), NEW a \in Nat, NEW n \in Sizes, NEW v \in Nat
  PROVE  LET r == SetMem(m, a, v, n)
         IN  \/ Refused(m, r, a, n) \/ IntoText(m, r, a, n, v) \/ IntoData(m, r, a, n, v)
             \/ IntoStack(m, r, a, n, v) \/ BelowStack(m, r, a, n, v) \/ IntoKernel(m, r, a)
  <1> DEFINE r == SetMem(m, a, v, n)
  <1>1. CASE SegmentsAt(m, a) # {} /\ a % n = 0
    <2> DEFINE s == CHOOSE x \in SegmentsAt(m, a) : TRUE
               i == a - Bottom(m)[s]
    <2>1. s \in SegmentsAt(m, a)
      BY <1>1
    <2> HIDE DEF s
    <2>2. r = Done(IF n = 1 /\ s = "special" THEN SpecialByte(m, i, v) ELSE PutAt(m, s, i, n, v), 0)
      BY <1>1 DEF SetMem, s
    <2>3. s \in {"data", "stack", "k_data", "special"} /\ Bottom(m)[s] <= a
      BY <2>1 DEF SegmentsAt, Bottom
    <2>4. CASE s = "data"
      BY <1>1, <2>1, <2>2, <2>4 DEF IntoData, Done, Bottom, Aligned
    <2>5. CASE s = "stack"
      BY <1>1, <2>1, <2>2, <2>5 DEF IntoStack, Done, Bottom, Aligned
    <2>6. CASE s \in {"k_data", "special"}
      <3>1. STACK_TOP <= a /\ Bottom(m)[s] \in Int /\ i \in Int
        <4>1. Bottom(m)[s] = K_DATA_BOT \/ Bottom(m)[s] = SPECIAL_BOT
          BY <2>6 DEF Bottom
        <4> QED
          BY <2>3, <4>1, Layout
      <3>2. r.fault = NoFault
        BY <2>2 DEF Done
      <3>3. CASE ~(n = 1 /\ s = "special")
        <4>1. r.mem = PutAt(m, s, i, n, v)
          BY <2>2, <3>3 DEF Done
        <4> QED
          BY <2>6, <3>1, <3>2, <4>1 DEF IntoKernel
      <3>4. CASE n = 1 /\ s = "special"
        <4> DEFINE w == SignExtend(v % 2^ByteBits, ByteBits)
        <4>1. w \in Nat
          <5>1. v % 2^ByteBits \in Int /\ 2^ByteBits \in Int
            BY Numbers
          <5>2. SignedOf(v % 2^ByteBits, ByteBits) \in Int
            BY <5>1 DEF SignedOf
          <5> QED
            BY <5>2, Numbers DEF SignExtend, Word
        <4>2. r.mem = PutAt(m, "special", i * BYTES_PER_WORD, BYTES_PER_WORD, w)
          BY <2>2, <3>4 DEF Done, SpecialByte
        <4>3. i * BYTES_PER_WORD \in Int /\ BYTES_PER_WORD \in Sizes
          BY <3>1 DEF BYTES_PER_WORD, Sizes
        <4> HIDE DEF w
        <4> QED
          BY <3>1, <3>2, <4>1, <4>2, <4>3 DEF IntoKernel
      <3> QED
        BY <3>3, <3>4
    <2> QED
      BY <2>3, <2>4, <2>5, <2>6
  <1>2. CASE ~(SegmentsAt(m, a) # {} /\ a % n = 0)
    <2>1. r = BadMemWrite(m, a, v, n)
      BY <1>2 DEF SetMem
    <2>2. CASE a % n # 0
      BY <2>1, <2>2 DEF BadMemWrite, RaiseFault, Refused, Aligned
    <2>3. CASE a % n = 0 /\ InText(a)
      BY <2>1, <2>3 DEF BadMemWrite, Done, IntoText, Aligned
    <2>4. CASE a % n = 0 /\ ~InText(a) /\ GrowsStack(m, a)
      BY <2>1, <2>4 DEF BadMemWrite, Done, BelowStack, Aligned
    <2>5. CASE a % n = 0 /\ ~InText(a) /\ ~GrowsStack(m, a)
      <3>1. CASE a \in MM_IO_BOT .. MM_IO_TOP
        <4>1. STACK_TOP <= a
          BY <3>1, Layout
        <4> QED
          BY <2>1, <2>5, <3>1, <4>1 DEF BadMemWrite, Done, IntoKernel
      <3>2. CASE a \notin MM_IO_BOT .. MM_IO_TOP
        BY <1>2, <2>1, <2>5, <3>2 DEF BadMemWrite, RaiseFault, Refused
      <3> QED
        BY <3>1, <3>2
    <2> QED
      BY <2>2, <2>3, <2>4, <2>5
  <1> QED
    BY <1>1, <1>2

-----------------------------------------------------------------------------
(* Steps *)

\* A step that stores as the flat memory does.
LEMMA StoresFlat ==
  ASSUME NEW a \in Addrs, NEW n \in Sizes, NEW v \in Values,
         Aligned(a, n), a .. a + n - 1 \subseteq Homes,
         \A b \in Homes :
           CellOf(mem', b) = IF b \in a .. a + n - 1 THEN ByteOf(v, b, a) ELSE CellOf(mem, b),
         mem'.data_top = mem.data_top,
         \/ mem'.stack_bot = mem.stack_bot
         \/ a \in StackHome /\ a < mem.stack_bot /\ mem'.stack_bot <= a,
         done' = Flat!Did("write", a, n, v, "none")
  PROVE  Flat!Next
  <1>1. Flat!Span(a, n) = a .. a + n - 1 /\ Flat!Home = Homes
    BY DEF Flat!Span, Flat!Home, Homes
  <1>2. [b \in Homes |-> CellOf(mem', b)] =
          [b \in Homes |-> IF b \in a .. a + n - 1 THEN (v \div 2^((b - a) * ByteBits)) % 2^ByteBits
                           ELSE [c \in Homes |-> CellOf(mem, c)][b]]
    BY DEF ByteOf
  <1>3. Flat!MayGrow(a)
    BY DEF Flat!MayGrow
  <1>4. Flat!Store(a, n, v)
    BY <1>1, <1>2, <1>3 DEF Flat!Store, Aligned, Homes
  <1> QED
    BY <1>4 DEF Flat!Next, Sizes

LEMMA SameCells ==
  ASSUME \A b \in Homes : CellOf(mem', b) = CellOf(mem, b)
  PROVE  [b \in TextHome \cup DataHome \cup StackHome |-> CellOf(mem, b)]' =
           [b \in TextHome \cup DataHome \cup StackHome |-> CellOf(mem, b)]
  BY DEF Homes

LEMMA SomeStore ==
  ASSUME MInv(mem), NEW a \in Addrs, NEW n \in Sizes, NEW v \in Values, Write(a, n, v)
  PROVE  MInv(mem') /\ Flat!Next
  <1> DEFINE r == SetMem(mem, a, v, n)
  <1>1. /\ mem' = r.mem /\ Apart(r.mem)
        /\ done' = Flat!Did("write", a, n, v, r.fault.code)
    BY DEF Write, Access, Did, Flat!Did
  <1>2. a \in Nat /\ v \in Nat
    BY Numbers
  <1>3. \/ Refused(mem, r, a, n) \/ IntoText(mem, r, a, n, v) \/ IntoData(mem, r, a, n, v)
        \/ IntoStack(mem, r, a, n, v) \/ BelowStack(mem, r, a, n, v) \/ IntoKernel(mem, r, a)
    BY <1>2, Writes
  <1> HIDE DEF r
  <1>4. ASSUME r.fault = NoFault PROVE done' = Flat!Did("write", a, n, v, "none")
    BY <1>1, <1>4 DEF NoFault
  <1>5. CASE Refused(mem, r, a, n)
    <2>1. mem' = mem /\ r.fault.code # "none"
      BY <1>1, <1>5 DEF Refused
    <2>2. a % n # 0 \/ ~(Flat!Span(a, n) \subseteq Flat!Mapped)
      <3>1. CASE ~Aligned(a, n)
        BY <3>1 DEF Aligned
      <3>2. CASE ~InText(a) /\ SegmentsAt(mem, a) = {}
        <4>1. a \in Flat!Span(a, n)
          BY <1>2 DEF Flat!Span, Sizes
        <4>2. ~(mem.stack_bot <= a /\ a < STACK_TOP) /\ ~(DATA_BOT <= a /\ a < mem.data_top)
          BY <3>2 DEF SegmentsAt, Bottom, Top
        <4>3. a \notin Flat!Mapped
          BY <1>2, <3>2, <4>2, Layout DEF Flat!Mapped, InText, TextHome, DataHome, StackHome, MInv, Bounds
        <4> QED
          BY <4>1, <4>3
      <3> QED
        BY <1>5, <3>1, <3>2 DEF Refused
    <2>3. Flat!Refuse(a, n)
      BY <1>1, <2>1, <2>2 DEF Flat!Refuse, Flat!Did
    <2> QED
      BY <2>1, <2>3 DEF Flat!Next, Sizes
  <1>6. CASE IntoText(mem, r, a, n, v)
    <2>1. /\ Aligned(a, n) /\ InText(a) /\ r.fault = NoFault
          /\ mem' = PutAt(mem, "text", a - TEXT_BOT, n, v)
      BY <1>1, <1>6 DEF IntoText
    <2> QED
      BY <1>2, <1>4, <2>1, StoreText, StoresFlat
  <1>7. CASE IntoData(mem, r, a, n, v)
    <2>1. /\ Aligned(a, n) /\ "data" \in SegmentsAt(mem, a) /\ r.fault = NoFault
          /\ mem' = PutAt(mem, "data", a - DATA_BOT, n, v)
      BY <1>1, <1>7 DEF IntoData
    <2> QED
      BY <1>2, <1>4, <2>1, StoreData, StoresFlat
  <1>8. CASE IntoStack(mem, r, a, n, v)
    <2>1. /\ Aligned(a, n) /\ "stack" \in SegmentsAt(mem, a) /\ r.fault = NoFault
          /\ mem' = PutAt(mem, "stack", a - mem.stack_bot, n, v)
      BY <1>1, <1>8 DEF IntoStack
    <2> QED
      BY <1>2, <1>4, <2>1, StoreStack, StoresFlat
  <1>9. CASE BelowStack(mem, r, a, n, v)
    <2> DEFINE g == GrownFor(mem, a)
    <2>1. /\ Aligned(a, n) /\ GrowsStack(mem, a) /\ r.fault = NoFault
          /\ mem' = PutAt(g, "stack", a - g.stack_bot, n, v)
      BY <1>1, <1>9 DEF BelowStack
    <2>2. Apart(g)
      <3>1. mem'.stack_bot = g.stack_bot
        BY <2>1 DEF PutAt, GrownFor, ExpandStack, MInv, Fields
      <3> QED
        BY <1>1, <3>1 DEF Apart
    <2>3. /\ MInv(g) /\ g.data_top = mem.data_top /\ g.stack_bot <= a
          /\ a \in StackHome /\ a < mem.stack_bot
          /\ \A b \in Homes : CellOf(g, b) = CellOf(mem, b)
      BY <1>2, <2>1, <2>2, StackGrows
    <2> HIDE DEF g
    <2>4. "stack" \in SegmentsAt(g, a)
      BY <1>2, <2>3, Layout DEF SegmentsAt, Bottom, Top, StackHome
    <2>5. /\ MInv(mem') /\ mem'.data_top = g.data_top /\ mem'.stack_bot = g.stack_bot
          /\ a .. a + n - 1 \subseteq Homes
          /\ \A b \in Homes :
               CellOf(mem', b) = IF b \in a .. a + n - 1 THEN ByteOf(v, b, a) ELSE CellOf(g, b)
      BY <1>2, <2>1, <2>3, <2>4, StoreStack
    <2> QED
      BY <1>4, <2>1, <2>3, <2>5, StoresFlat
  <1>10. CASE IntoKernel(mem, r, a)
    <2>1. /\ MInv(mem') /\ mem'.data_top = mem.data_top /\ mem'.stack_bot = mem.stack_bot
          /\ \A b \in Homes : CellOf(mem', b) = CellOf(mem, b)
      <3>1. CASE mem' = mem
        BY <3>1
      <3>2. CASE mem' # mem
        <4>1. PICK s \in {"k_data", "special"}, i \in Int, k \in Sizes, w \in Nat :
                mem' = PutAt(mem, s, i, k, w)
          BY <1>1, <1>10, <3>2 DEF IntoKernel
        <4> QED
          BY <4>1, StoreKernel
      <3> QED
        BY <3>1, <3>2
    <2>2. Flat!Span(a, n) \cap Flat!Home = {}
      BY <1>2, <1>10, Layout DEF IntoKernel, Flat!Span, Flat!Home, TextHome, DataHome, StackHome, Sizes
    <2>3. Flat!Elsewhere(a, n)
      BY <1>1, <2>1, <2>2, SameCells DEF Flat!Elsewhere, Flat!Did
    <2> QED
      BY <2>1, <2>3 DEF Flat!Next, Sizes
  <1> QED
    BY <1>3, <1>5, <1>6, <1>7, <1>8, <1>9, <1>10

LEMMA SomeLoad ==
  ASSUME MInv(mem), NEW a \in Addrs, NEW n \in Sizes, Read(a, n)
  PROVE  MInv(mem') /\ [Flat!Next]_(Flat!vars)
  <1> DEFINE r == ReadMem(mem, a, n)
  <1>1. mem' = r.mem /\ Apart(r.mem) /\ done' = done /\ a \in Nat
    BY Numbers DEF Read, Access
  <1>2. CASE r.mem = mem
    BY <1>1, <1>2, SameCells DEF Flat!vars
  <1>3. CASE Aligned(a, n) /\ GrowsStack(mem, a) /\ r.mem = GrownFor(mem, a)
    <2>1. mem' = GrownFor(mem, a) /\ Apart(GrownFor(mem, a))
      BY <1>1, <1>3
    <2>2. /\ MInv(mem') /\ mem'.data_top = mem.data_top /\ mem'.stack_bot <= a
          /\ a \in StackHome /\ a < mem.stack_bot
          /\ \A b \in Homes : CellOf(mem', b) = CellOf(mem, b)
      BY <1>1, <1>3, <2>1, StackGrows
    <2>3. a + n <= mem.stack_bot
      BY <1>1, <1>3, <2>2, SpanInside, Layout DEF MInv, Bounds, BYTES_PER_WORD
    <2>4. Flat!Span(a, n) \subseteq Flat!Home
      BY <2>2, <2>3, Layout DEF Flat!Span, Flat!Home, StackHome, MInv, Bounds, Sizes
    <2>5. Flat!Load(a, n)
      BY <1>1, <1>3, <2>2, <2>4, SameCells DEF Flat!Load, Flat!MayGrow, Aligned
    <2> QED
      BY <2>2, <2>5 DEF Flat!Next, Sizes
  <1> QED
    BY <1>1, <1>2, <1>3, Reads

\* What sbrk brings is zero, and what it takes is forgotten.
LEMMA SomeSbrk ==
  ASSUME MInv(mem), NEW addl_bytes \in {-4, 0, 1, 4}, Sbrk(addl_bytes)
  PROVE  MInv(mem') /\ Flat!Next
  <1> DEFINE size == mem.data_top - DATA_BOT + RoundUpWord(addl_bytes)
  <1>1. /\ mem.data_top \in Int /\ mem.data_top % 4 = 0 /\ DATA_BOT <= mem.data_top
        /\ size \in Int /\ size % 4 = 0
    <2> DEFINE old == mem.data_top - DATA_BOT
               more == RoundUpWord(addl_bytes)
    <2>1. more \in Int /\ more % 4 = 0
      BY WholeWords
    <2>2. mem.data_top \in Int /\ mem.data_top % 4 = 0 /\ DATA_BOT <= mem.data_top
      BY Layout DEF MInv, Bounds, BYTES_PER_WORD
    <2>3. old \in Int /\ old % 4 = 0
      BY <2>2, Layout
    <2> HIDE DEF old, more
    <2>4. old + more \in Int /\ (old + more) % 4 = 0
      BY <2>1, <2>3
    <2> QED
      BY <2>2, <2>4 DEF old, more
  <1>2. /\ size \in 1 .. MaxData
        /\ mem' = [mem EXCEPT !.data_top = DATA_BOT + size,
                     !.data = [i \in 0 .. size - 1 |-> IF i \in DOMAIN mem.data THEN mem.data[i] ELSE 0]]
        /\ done' = Flat!Did("sbrk", mem.data_top, 0, 0, "none")
    BY DEF Sbrk, ExpandData, Did, Flat!Did, Done, NoFault
  <1> HIDE DEF size
  <1>3. /\ mem'.text = mem.text /\ mem'.stack = mem.stack /\ mem'.k_data = mem.k_data
        /\ mem'.special = mem.special /\ mem'.stack_bot = mem.stack_bot
        /\ mem'.k_data_top = mem.k_data_top /\ Fields(mem')
        /\ mem'.data_top = DATA_BOT + size
        /\ mem'.data = [i \in 0 .. size - 1 |-> IF i \in DOMAIN mem.data THEN mem.data[i] ELSE 0]
    BY <1>2 DEF MInv, Fields
  <1>4. DOMAIN mem.data = 0 .. mem.data_top - DATA_BOT - 1 /\ \A i \in DOMAIN mem.data : mem.data[i] \in Byte
    BY DEF MInv, Contents, ArrayOf
  <1>5. MInv(mem')
    <2>1. Bounds(mem')
      BY <1>1, <1>2, <1>3, Layout DEF MInv, Bounds, BYTES_PER_WORD
    <2>2. mem'.data \in ArrayOf(size)
      BY <1>3, <1>4, Numbers DEF ArrayOf
    <2>3. mem'.data_top - DATA_BOT = size
      BY <1>1, <1>3, Layout
    <2>4. Contents(mem')
      BY <1>3, <2>2, <2>3 DEF MInv, Contents
    <2> QED
      BY <1>3, <2>1, <2>4 DEF MInv
  <1>6. ASSUME NEW b \in Homes
        PROVE  CellOf(mem', b) = IF b \in DataHome /\ b >= mem'.data_top THEN 0 ELSE CellOf(mem, b)
    <2>1. CASE b \in DataHome
      <3>1. b \notin TextHome /\ b \notin StackHome /\ b - DATA_BOT \in Nat /\ b \in Int
        BY <2>1, Layout DEF TextHome, DataHome, StackHome
      <3>2. CASE b >= mem'.data_top
        <4>1. ~(b < mem'.data_top)
          BY <3>1, <3>2, <1>1, <1>3, Layout
        <4> QED
          BY <2>1, <3>1, <3>2, <4>1 DEF CellOf
      <3>3. CASE ~(b >= mem'.data_top)
        <4>1. b < mem'.data_top /\ b - DATA_BOT \in 0 .. size - 1
          BY <3>1, <3>3, <1>1, <1>2, <1>3, Layout
        <4>2. CellOf(mem', b) = mem'.data[b - DATA_BOT]
          BY <2>1, <3>1, <4>1 DEF CellOf
        <4>3. b < mem.data_top <=> b - DATA_BOT \in DOMAIN mem.data
          BY <3>1, <1>1, <1>4, Layout
        <4>4. CellOf(mem, b) = IF b < mem.data_top THEN mem.data[b - DATA_BOT] ELSE 0
          BY <2>1, <3>1 DEF CellOf
        <4> QED
          BY <3>3, <4>1, <4>2, <4>3, <4>4, <1>3
      <3> QED
        BY <3>2, <3>3
    <2>2. CASE b \notin DataHome
      BY <2>2, <1>3 DEF CellOf
    <2> QED
      BY <2>1, <2>2
  <1>7. mem'.data_top \in DataHome \cup {b + 1 : b \in DataHome}
    <2>1. DATA_BOT + size - 1 \in DataHome /\ (DATA_BOT + size - 1) + 1 = DATA_BOT + size
      BY <1>1, <1>2, Layout DEF DataHome
    <2> QED
      BY <1>3, <2>1
  <1>8. [b \in Homes |-> CellOf(mem', b)] =
          [b \in Homes |-> IF b \in DataHome /\ b >= mem'.data_top THEN 0
                           ELSE [c \in Homes |-> CellOf(mem, c)][b]]
    BY <1>6
  <1>9. Flat!Sbrk
    BY <1>2, <1>3, <1>7, <1>8 DEF Flat!Sbrk, Flat!Home, Homes
  <1> QED
    BY <1>5, <1>9 DEF Flat!Next

\* The kernel's data grow, whatever is in what they gain.
LEMMA SomeKGrow ==
  ASSUME MInv(mem), NEW addl_bytes \in {1, 4}, KGrow(addl_bytes)
  PROVE  MInv(mem') /\ UNCHANGED Flat!vars
  <1> DEFINE old == mem.k_data_top - K_DATA_BOT
             size == old + RoundUpWord(addl_bytes)
             zeroed == old \div BYTES_PER_WORD .. size \div BYTES_PER_WORD - 1
  <1>1. /\ old \in Nat /\ size \in Nat /\ old <= size /\ size % 4 = 0 /\ mem.k_data \in ArrayOf(old)
        /\ RoundUpWord(addl_bytes) \in Int
    <2> DEFINE more == RoundUpWord(addl_bytes)
    <2>1. more \in Int /\ more % 4 = 0 /\ 0 <= more
      BY WholeWords
    <2>2. old \in Nat /\ old % 4 = 0
      BY Layout DEF MInv, Bounds, BYTES_PER_WORD
    <2>3. mem.k_data \in ArrayOf(old)
      BY DEF MInv, Contents
    <2> HIDE DEF more, old
    <2>4. old + more \in Nat /\ old <= old + more /\ (old + more) % 4 = 0
      BY <2>1, <2>2
    <2> QED
      BY <2>1, <2>2, <2>3, <2>4 DEF more
  <1>2. PICK garbage \in Garbage :
          mem' = [mem EXCEPT !.k_data_top = K_DATA_BOT + size,
                    !.k_data = [i \in 0 .. size - 1 |->
                                  IF i \in zeroed THEN 0 ELSE IF i < old THEN mem.k_data[i] ELSE garbage]]
    BY DEF KGrow, ExpandKData
  <1>3. done' = done
    BY DEF KGrow
  <1> DEFINE byte(i) == IF i \in zeroed THEN 0 ELSE IF i < old THEN mem.k_data[i] ELSE garbage
  <1>4. \A i \in 0 .. size - 1 : byte(i) \in Byte
    <2>1. \A i \in 0 .. old - 1 : mem.k_data[i] \in Byte
      BY <1>1 DEF ArrayOf
    <2>2. garbage \in Byte /\ 0 \in Byte
      BY Numbers
    <2> HIDE DEF zeroed, old, size
    <2> QED
      BY <1>1, <2>1, <2>2
  <1>5. (K_DATA_BOT + size) - K_DATA_BOT = size /\ (K_DATA_BOT + size) % 4 = 0
    <2> HIDE DEF size
    <2> QED
      BY <1>1, Layout
  <1> HIDE DEF byte, size
  <1>6. /\ mem'.text = mem.text /\ mem'.data = mem.data /\ mem'.stack = mem.stack
        /\ mem'.special = mem.special /\ mem'.data_top = mem.data_top
        /\ mem'.stack_bot = mem.stack_bot /\ Fields(mem')
        /\ mem'.k_data_top = K_DATA_BOT + size /\ mem'.k_data = [i \in 0 .. size - 1 |-> byte(i)]
    BY <1>2 DEF MInv, Fields, byte
  <1>7. mem'.k_data \in ArrayOf(size)
    BY <1>4, <1>6 DEF ArrayOf
  <1>8. Bounds(mem')
    BY <1>1, <1>5, <1>6, Layout DEF MInv, Bounds, BYTES_PER_WORD
  <1>9. Contents(mem')
    BY <1>5, <1>6, <1>7 DEF MInv, Contents
  <1>10. \A b \in Homes : CellOf(mem', b) = CellOf(mem, b)
    BY <1>6 DEF CellOf
  <1> QED
    BY <1>3, <1>6, <1>8, <1>9, <1>10, SameCells DEF MInv, Flat!vars

-----------------------------------------------------------------------------
(* What loads find *)

Cells == [b \in TextHome \cup DataHome \cup StackHome |-> CellOf(mem, b)]

LEMMA Signs ==
  ASSUME NEW n \in Sizes
  PROVE  SignExtend(0, n * ByteBits) = 0
  <1>1. n * ByteBits - 1 \in 0 .. WordBits /\ n * ByteBits \in 0 .. WordBits
    <2>1. ByteBits \in Nat /\ ByteBits >= 1 /\ WordBits = 4 * ByteBits
      BY ByteBitsAssumption DEF WordBits
    <2>2. CASE n = 1
      BY <2>1, <2>2
    <2>3. CASE n = 2
      BY <2>1, <2>3
    <2>4. CASE n = 4
      BY <2>1, <2>4
    <2> QED
      BY <2>2, <2>3, <2>4 DEF Sizes
  <1>2. 2^(n * ByteBits - 1) \in Nat \ {0} /\ 2^WordBits \in Nat \ {0}
    BY <1>1, Numbers, MemoryAssumption
  <1>3. SignedOf(0, n * ByteBits) = 0
    BY <1>2 DEF SignedOf
  <1>4. 0 % 2^WordBits = 0
    BY <1>2
  <1> QED
    BY <1>3, <1>4 DEF SignExtend, Word

\* Bytes that are those of an array are found as one number; so are zeros.
LEMMA FoundIsFetch ==
  ASSUME NEW a \in Int, NEW n \in Sizes, NEW f, NEW i \in Int,
         \A k \in 0 .. n - 1 : Cells[a + k] = f[i + k]
  PROVE  Flat!Found(a, n) = IF a \in TextHome THEN Fetch(f, i, n)
                            ELSE SignExtend(Fetch(f, i, n), n * ByteBits)
  <1> DEFINE here(k) == IF k < n THEN Cells[a + k] * 2^(k * ByteBits) ELSE 0
             there(k) == IF k < n THEN f[i + k] * 2^(k * ByteBits) ELSE 0
             found == here(0) + here(1) + here(2) + here(3)
  <1>1. \A k \in {0, 1, 2, 3} : k < n => k \in 0 .. n - 1
    BY DEF Sizes
  <1>2. \A k \in {0, 1, 2, 3} : here(k) = there(k)
    BY <1>1
  <1>3. Flat!Found(a, n) = IF a \in TextHome THEN found ELSE SignExtend(found, n * ByteBits)
    BY Zenon DEF Flat!Found, Cells, Flat!SignExtend, Flat!SignedOf, Flat!Word, Flat!WordBits,
                 SignExtend, SignedOf, Word, WordBits
  <1>4. Fetch(f, i, n) = there(0) + there(1) + there(2) + there(3)
    BY Zenon DEF Fetch
  <1>5. found = Fetch(f, i, n)
    <2> HIDE DEF here, there
    <2> QED
      BY <1>2, <1>4
  <1> HIDE DEF found
  <1> QED
    BY <1>3, <1>5

LEMMA FoundNothing ==
  ASSUME NEW a \in Int, NEW n \in Sizes, a \notin TextHome, \A k \in 0 .. n - 1 : Cells[a + k] = 0
  PROVE  Flat!Found(a, n) = 0
  <1> DEFINE f == [j \in Int |-> 0]
  <1>1. \A k \in 0 .. n - 1 : a + k \in Int /\ Cells[a + k] = f[a + k]
    OBVIOUS
  <1>2. Flat!Found(a, n) = SignExtend(Fetch(f, a, n), n * ByteBits)
    <2> HIDE DEF f
    <2> QED
      BY <1>1, FoundIsFetch
  <1>3. Fetch(f, a, n) = 0
    <2>1. \A k \in 0 .. 3 : 2^(k * ByteBits) \in Nat
      <3>1. \A k \in 0 .. 3 : k * ByteBits \in 0 .. WordBits
        BY ByteBitsAssumption DEF WordBits
      <3> QED
        BY <3>1, MemoryAssumption
    <2>2. \A k \in 0 .. 3 : f[a + k] = 0 /\ 0 * 2^(k * ByteBits) = 0
      BY <2>1
    <2>3. \A k \in 0 .. 3 : f[a + k] * 2^(k * ByteBits) = 0
      BY <2>2
    <2> HIDE DEF f
    <2> QED
      BY <2>3 DEF Fetch
  <1> QED
    BY <1>2, <1>3, Signs

\* Where user memory is, at most one segment holds an address, and it is the expected one.
LEMMA HomeSegments ==
  ASSUME MInv(mem), NEW a \in Nat, a \in Homes
  PROVE  /\ a \in TextHome <=> InText(a)
         /\ a \notin MM_IO_BOT .. MM_IO_TOP
         /\ SegmentsAt(mem, a) = IF a \in DataHome /\ a < mem.data_top THEN {"data"}
                                 ELSE IF a \in StackHome /\ a >= mem.stack_bot THEN {"stack"}
                                 ELSE {}
  <1>1. /\ mem.data_top \in Int /\ mem.stack_bot \in Int
        /\ DATA_BOT <= mem.data_top /\ mem.data_top <= DATA_BOT + MaxData
        /\ DATA_BOT + MaxData <= mem.stack_bot /\ mem.stack_bot <= STACK_TOP
    BY Layout DEF MInv, Bounds
  <1>2. a < STACK_TOP /\ (a \in TextHome <=> InText(a)) /\ a \notin MM_IO_BOT .. MM_IO_TOP
    BY Layout DEF Homes, TextHome, DataHome, StackHome, InText
  <1>3. /\ "data" \in SegmentsAt(mem, a) <=> a \in DataHome /\ a < mem.data_top
        /\ "stack" \in SegmentsAt(mem, a) <=> a \in StackHome /\ a >= mem.stack_bot
        /\ "k_data" \notin SegmentsAt(mem, a) /\ "special" \notin SegmentsAt(mem, a)
    BY <1>1, <1>2, Layout DEF SegmentsAt, Bottom, Top, DataHome, StackHome
  <1>4. SegmentsAt(mem, a) \subseteq {"data", "stack", "k_data", "special"}
    BY DEF SegmentsAt, Bottom
  <1>5. ~(a \in DataHome /\ a \in StackHome)
    BY Layout DEF DataHome, StackHome
  <1> QED
    BY <1>2, <1>3, <1>4, <1>5

\* One segment, of the cells at and after its bottom.
LEMMA LoadFrom ==
  ASSUME MInv(mem), NEW a \in Nat, NEW n \in Sizes, Aligned(a, n), a \in Homes,
         NEW x \in {"data", "stack"}, SegmentsAt(mem, a) = {x}
  PROVE  ReadMem(mem, a, n).value = Flat!Found(a, n)
  <1> DEFINE i == a - Bottom(mem)[x]
  <1>1. ReadMem(mem, a, n).value = SignExtend(Fetch(mem[x], i, n), n * ByteBits)
    <2>1. SegmentsAt(mem, a) # {} /\ a % n = 0
      BY DEF Aligned
    <2>2. (CHOOSE y \in SegmentsAt(mem, a) : TRUE) = x
      OBVIOUS
    <2> QED
      BY <2>1, <2>2 DEF ReadMem, Done
  <1>2. /\ mem.data_top \in Int /\ mem.stack_bot \in Int
        /\ DATA_BOT <= mem.data_top /\ mem.data_top <= DATA_BOT + MaxData
        /\ DATA_BOT + MaxData <= mem.stack_bot /\ mem.stack_bot <= STACK_TOP
        /\ mem.data_top % 4 = 0
    BY Layout DEF MInv, Bounds, BYTES_PER_WORD
  <1>3. /\ i \in Int /\ a \notin TextHome
        /\ \A k \in 0 .. n - 1 : Cells[a + k] = mem[x][i + k]
    <2>1. CASE x = "data"
      <3>1. DATA_BOT <= a /\ a < mem.data_top /\ i = a - DATA_BOT
        BY <2>1 DEF SegmentsAt, Bottom, Top
      <3>2. a + n <= mem.data_top
        BY <1>2, <3>1, SpanInside
      <3>3. ASSUME NEW k \in 0 .. n - 1
            PROVE  Cells[a + k] = mem.data[i + k]
        <4>1. /\ a + k \in DataHome /\ a + k < mem.data_top /\ a + k \notin TextHome
              /\ a + k \notin StackHome /\ (a + k) - DATA_BOT = i + k
          BY <1>2, <3>1, <3>2, Layout DEF TextHome, DataHome, StackHome, Sizes
        <4> QED
          BY <4>1 DEF Cells, CellOf
      <3> QED
        BY <2>1, <3>1, <3>3, Layout DEF TextHome
    <2>2. CASE x = "stack"
      <3>1. mem.stack_bot <= a /\ a < STACK_TOP /\ i = a - mem.stack_bot
        BY <2>2 DEF SegmentsAt, Bottom, Top
      <3>2. a + n <= STACK_TOP
        BY <1>2, <3>1, SpanInside, Layout
      <3>3. ASSUME NEW k \in 0 .. n - 1
            PROVE  Cells[a + k] = mem.stack[i + k]
        <4>1. /\ a + k \in StackHome /\ a + k >= mem.stack_bot /\ a + k \notin TextHome
              /\ a + k \notin DataHome /\ (a + k) - mem.stack_bot = i + k
          BY <1>2, <3>1, <3>2, Layout DEF TextHome, DataHome, StackHome, Sizes
        <4> QED
          BY <4>1 DEF Cells, CellOf
      <3> QED
        BY <1>2, <2>2, <3>1, <3>3, Layout DEF TextHome
    <2> QED
      BY <2>1, <2>2
  <1> QED
    BY <1>1, <1>3, FoundIsFetch

LEMMA LoadText ==
  ASSUME MInv(mem), NEW a \in Nat, NEW n \in Sizes, Aligned(a, n), a \in TextHome
  PROVE  ReadMem(mem, a, n) = Done(mem, Flat!Found(a, n))
  <1>1. InText(a) /\ SegmentsAt(mem, a) = {}
    BY HomeSegments, Layout DEF Homes, TextHome, DataHome, StackHome
  <1>2. ReadMem(mem, a, n) = Done(mem, Fetch(mem.text, a - TEXT_BOT, n))
    BY <1>1 DEF ReadMem, BadMemRead, Aligned
  <1>3. a + n <= TEXT_BOT + TEXT_SIZE
    BY <1>1, SpanInside, Layout DEF InText
  <1>4. ASSUME NEW k \in 0 .. n - 1
        PROVE  Cells[a + k] = mem.text[(a - TEXT_BOT) + k]
    <2>1. a + k \in TextHome /\ (a + k) - TEXT_BOT = (a - TEXT_BOT) + k
      BY <1>1, <1>3, Layout DEF TextHome, InText, Sizes
    <2>2. a + k \notin DataHome /\ a + k \notin StackHome
      BY <2>1, Layout DEF TextHome, DataHome, StackHome
    <2> QED
      BY <2>1, <2>2 DEF Cells, CellOf
  <1> QED
    BY <1>2, <1>4, FoundIsFetch, Layout

\* Where the data do not reach yet, or the stack: nothing is found.
LEMMA LoadNothing ==
  ASSUME MInv(mem), NEW a \in Nat, NEW n \in Sizes, Aligned(a, n), a \in Homes, a \notin TextHome,
         SegmentsAt(mem, a) = {}
  PROVE  Flat!Found(a, n) = 0 /\ ReadMem(mem, a, n).value = 0
  <1>1. ReadMem(mem, a, n).value = 0
    BY HomeSegments DEF ReadMem, BadMemRead, Done, RaiseFault
  <1>2. /\ mem.data_top \in Int /\ mem.stack_bot \in Int
        /\ DATA_BOT <= mem.data_top /\ mem.data_top <= DATA_BOT + MaxData
        /\ DATA_BOT + MaxData <= mem.stack_bot /\ mem.stack_bot <= STACK_TOP
        /\ mem.stack_bot % 4 = 0
    BY Layout DEF MInv, Bounds, BYTES_PER_WORD
  <1>3. mem.data_top <= a /\ a < mem.stack_bot
    <2>1. ~(a \in DataHome /\ a < mem.data_top) /\ ~(a \in StackHome /\ a >= mem.stack_bot)
      BY HomeSegments
    <2> QED
      BY <1>2, <2>1, Layout DEF Homes, DataHome, StackHome
  <1>4. a + n <= mem.stack_bot
    BY <1>2, <1>3, SpanInside
  <1>5. ASSUME NEW k \in 0 .. n - 1
        PROVE  Cells[a + k] = 0
    <2>1. mem.data_top <= a + k /\ a + k < mem.stack_bot /\ a + k \in Int
      BY <1>2, <1>3, <1>4 DEF Sizes
    <2>2. a + k \in Homes /\ a + k \notin TextHome
      BY <1>2, <2>1, Layout DEF Homes, TextHome, DataHome, StackHome
    <2>3. CellOf(mem, a + k) = 0
      BY <1>2, <2>1, <2>2 DEF CellOf
    <2> QED
      BY <2>2, <2>3 DEF Cells, Homes
  <1> QED
    BY <1>1, <1>5, FoundNothing

LEMMA OneLoad ==
  ASSUME MInv(mem), NEW a \in Addrs, NEW n \in Sizes
  PROVE  LET r == ReadMem(mem, a, n)
         IN  /\ r.fault = NoFault /\ a \in Flat!Home => r.value = Flat!Found(a, n)
             /\ r.fault # NoFault => r.value = 0 /\ r.mem = mem
             /\ a % n = 0 /\ Flat!Span(a, n) \subseteq Flat!Mapped => r.fault = NoFault
  <1> DEFINE r == ReadMem(mem, a, n)
  <1>1. a \in Nat /\ Flat!Home = Homes
    BY Numbers DEF Flat!Home, Homes
  <1>2. r.fault = NoFault \/ (r.value = 0 /\ r.mem = mem)
    BY DEF ReadMem, BadMemRead, RaiseFault, Done
  <1>3. ASSUME ~Aligned(a, n)
        PROVE  r.fault # NoFault
    BY <1>3 DEF ReadMem, BadMemRead, RaiseFault, NoFault, Aligned
  <1>4. ASSUME r.fault = NoFault, a \in Homes
        PROVE  r.value = Flat!Found(a, n)
    <2>1. Aligned(a, n)
      BY <1>3, <1>4
    <2>2. CASE a \in TextHome
      BY <1>1, <2>1, <2>2, LoadText DEF Done
    <2>3. CASE a \notin TextHome /\ SegmentsAt(mem, a) = {}
      BY <1>1, <1>4, <2>1, <2>3, LoadNothing
    <2>4. CASE SegmentsAt(mem, a) # {}
      <3>1. SegmentsAt(mem, a) = {"data"} \/ SegmentsAt(mem, a) = {"stack"}
        BY <1>1, <1>4, <2>4, HomeSegments
      <3> QED
        BY <1>1, <1>4, <2>1, <3>1, LoadFrom
    <2> QED
      BY <2>2, <2>3, <2>4
  <1>5. ASSUME a % n = 0, Flat!Span(a, n) \subseteq Flat!Mapped
        PROVE  r.fault = NoFault
    <2>1. a \in Flat!Mapped
      BY <1>1, <1>5 DEF Flat!Span, Sizes
    <2>2. a \in Homes /\ (a \in TextHome \/ (a \in DataHome /\ a < mem.data_top)
                          \/ (a \in StackHome /\ a >= mem.stack_bot))
      BY <2>1 DEF Flat!Mapped, Homes
    <2>3. CASE a \in TextHome
      BY <1>1, <1>5, <2>3, LoadText DEF Done, Aligned
    <2>4. CASE a \notin TextHome
      <3>1. SegmentsAt(mem, a) # {}
        BY <1>1, <2>2, <2>4, HomeSegments
      <3> QED
        BY <1>5, <3>1 DEF ReadMem, Done
    <2> QED
      BY <2>3, <2>4
  <1> QED
    BY <1>1, <1>2, <1>4, <1>5

-----------------------------------------------------------------------------
(* Theorems *)

LEMMA AtFirst ==
  ASSUME Init
  PROVE  MInv(mem) /\ Flat!Init(DATA_BOT + DATA_SIZE, STACK_TOP - STACK_SIZE)
  <1>1. \A n \in Int : Zeros(n) \in ArrayOf(n)
    BY Numbers DEF Zeros, ArrayOf
  <1>2. /\ mem.text = Zeros(TEXT_SIZE) /\ mem.data = Zeros(DATA_SIZE) /\ mem.stack = Zeros(STACK_SIZE)
        /\ mem.k_data = Zeros(K_DATA_SIZE) /\ mem.special = Zeros(SPECIAL_TOP - SPECIAL_BOT)
        /\ mem.data_top = DATA_BOT + DATA_SIZE /\ mem.stack_bot = STACK_TOP - STACK_SIZE
        /\ mem.k_data_top = K_DATA_BOT + K_DATA_SIZE /\ Fields(mem)
    BY DEF Init, MakeMemory, Fields
  <1>3. Bounds(mem)
    BY <1>2, Layout DEF Bounds, BYTES_PER_WORD
  <1>4. /\ mem.data_top - DATA_BOT = DATA_SIZE /\ STACK_TOP - mem.stack_bot = STACK_SIZE
        /\ mem.k_data_top - K_DATA_BOT = K_DATA_SIZE /\ SPECIAL_TOP - SPECIAL_BOT \in Int
    BY <1>2, Layout
  <1>5. Contents(mem)
    BY <1>1, <1>2, <1>4, Layout DEF Contents
  <1>6. ASSUME NEW b \in Homes
        PROVE  CellOf(mem, b) = 0
    <2>1. CASE b \in TextHome
      <3>1. b - TEXT_BOT \in 0 .. TEXT_SIZE - 1
        BY <2>1, Layout DEF TextHome
      <3>2. CellOf(mem, b) = mem.text[b - TEXT_BOT]
        BY <2>1, Layout DEF CellOf, TextHome, DataHome, StackHome
      <3> QED
        BY <3>1, <3>2, <1>2 DEF Zeros
    <2>2. CASE b \in DataHome /\ b < mem.data_top
      <3>1. b - DATA_BOT \in 0 .. DATA_SIZE - 1
        BY <2>2, <1>2, Layout DEF DataHome
      <3>2. CellOf(mem, b) = mem.data[b - DATA_BOT]
        BY <2>2, Layout DEF CellOf, TextHome, DataHome, StackHome
      <3> QED
        BY <3>1, <3>2, <1>2 DEF Zeros
    <2>3. CASE b \in StackHome /\ b >= mem.stack_bot
      <3>1. b - mem.stack_bot \in 0 .. STACK_SIZE - 1
        BY <2>3, <1>2, Layout DEF StackHome
      <3>2. CellOf(mem, b) = mem.stack[b - mem.stack_bot]
        BY <2>3, Layout DEF CellOf, TextHome, DataHome, StackHome
      <3> QED
        BY <3>1, <3>2, <1>2 DEF Zeros
    <2>4. CASE ~(b \in TextHome) /\ ~(b \in DataHome /\ b < mem.data_top)
               /\ ~(b \in StackHome /\ b >= mem.stack_bot)
      BY <2>4 DEF CellOf
    <2> QED
      BY <2>1, <2>2, <2>3, <2>4
  <1>7. Flat!Init(DATA_BOT + DATA_SIZE, STACK_TOP - STACK_SIZE)
    <2>1. [b \in Homes |-> CellOf(mem, b)] = [b \in Homes |-> 0]
      BY <1>6
    <2>2. done = Flat!Did("none", 0, 0, 0, "none")
      BY DEF Init, Did, Flat!Did, Done, NoFault
    <2> QED
      BY <1>2, <2>1, <2>2 DEF Flat!Init, Flat!Home, Homes
  <1> QED
    BY <1>2, <1>3, <1>5, <1>7 DEF MInv

LEMMA AnyStep ==
  ASSUME MInv(mem), [Next]_vars
  PROVE  MInv(mem') /\ [Flat!Next]_(Flat!vars)
  <1>1. CASE UNCHANGED vars
    BY <1>1, SameCells DEF vars, Flat!vars
  <1>2. ASSUME NEW a \in Addrs, NEW n \in {1, 2, 4}, Read(a, n)
        PROVE  MInv(mem') /\ [Flat!Next]_(Flat!vars)
    BY <1>2, SomeLoad DEF Sizes
  <1>3. ASSUME NEW a \in Addrs, NEW n \in {1, 2, 4}, NEW v \in Values, Write(a, n, v)
        PROVE  MInv(mem') /\ [Flat!Next]_(Flat!vars)
    BY <1>3, SomeStore DEF Sizes
  <1>4. ASSUME NEW addl_bytes \in {-4, 0, 1, 4}, Sbrk(addl_bytes)
        PROVE  MInv(mem') /\ [Flat!Next]_(Flat!vars)
    BY <1>4, SomeSbrk
  <1>5. ASSUME NEW addl_bytes \in {1, 4}, KGrow(addl_bytes)
        PROVE  MInv(mem') /\ [Flat!Next]_(Flat!vars)
    BY <1>5, SomeKGrow
  <1> QED
    BY <1>1, <1>2, <1>3, <1>4, <1>5 DEF Next

\* The invariant says what TypeOK says.
LEMMA TypesFollow == ASSUME MInv(mem) PROVE TypeOK
  <1>1. mem.text \in [0 .. TEXT_SIZE - 1 -> Byte]
    BY DEF MInv, Contents, ArrayOf
  <1>2. ASSUME NEW s \in DOMAIN Bottom(mem)
        PROVE  /\ mem[s] \in [0 .. Top(mem)[s] - Bottom(mem)[s] - 1 -> Byte]
               /\ Bottom(mem)[s] % BYTES_PER_WORD = 0 /\ Top(mem)[s] % BYTES_PER_WORD = 0
    <2>1. CASE s = "data"
      BY <2>1, Layout DEF Bottom, Top, MInv, Bounds, Contents, ArrayOf, BYTES_PER_WORD
    <2>2. CASE s = "stack"
      BY <2>2, Layout DEF Bottom, Top, MInv, Bounds, Contents, ArrayOf, BYTES_PER_WORD
    <2>3. CASE s = "k_data"
      BY <2>3, Layout DEF Bottom, Top, MInv, Bounds, Contents, ArrayOf, BYTES_PER_WORD
    <2>4. CASE s = "special"
      BY <2>4, Layout DEF Bottom, Top, MInv, Bounds, Contents, ArrayOf, BYTES_PER_WORD
    <2> QED
      BY <2>1, <2>2, <2>3, <2>4 DEF Bottom
  <1> QED
    BY <1>1, <1>2 DEF TypeOK

\* mem.cpp's arrays fit their bounds, in whole words, for every layout of the segments: the
\* stack that is copied when it grows, the data that sbrk resizes, and the kernel's data.
THEOREM MemoryTypes == Spec => []TypeOK
  <1>1. Init => MInv(mem)
    BY AtFirst
  <1>2. MInv(mem) /\ [Next]_vars => MInv(mem)'
    BY AnyStep
  <1>3. MInv(mem) => TypeOK
    BY TypesFollow
  <1> QED
    BY <1>1, <1>2, <1>3, PTL DEF Spec

\* The segments of mem.cpp are one flat memory to a user program, for every layout of the
\* segments, all addresses, widths and values: each step of Memory is one of FlatMemory or
\* leaves it as it is.
THEOREM MemoryIsFlat == Spec => ImplementsFlatMemory
  <1>1. Init => MInv(mem) /\ Flat!Init(DATA_BOT + DATA_SIZE, STACK_TOP - STACK_SIZE)
    BY AtFirst
  <1>2. MInv(mem) /\ [Next]_vars => MInv(mem)' /\ [Flat!Next]_(Flat!vars)
    BY AnyStep
  <1> QED
    BY <1>1, <1>2, PTL DEF Spec, ImplementsFlatMemory

\* A load of any width finds what the flat memory holds, for every layout of the segments:
\* in each of them, where the stack has still to grow, and with the sign that each has.
\* What is aligned and in a segment never faults, and a fault changes nothing.
THEOREM LoadsAreExact == Spec => []LoadsFindStores
  <1>1. Init => MInv(mem)
    BY AtFirst
  <1>2. MInv(mem) /\ [Next]_vars => MInv(mem)'
    BY AnyStep
  <1>3. MInv(mem) => LoadsFindStores
    BY OneLoad DEF LoadsFindStores, Sizes
  <1> QED
    BY <1>1, <1>2, <1>3, PTL DEF Spec
===============================================================================
