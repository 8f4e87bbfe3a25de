-------------------------------- MODULE Memory --------------------------------
(***************************************************************************)
(* The memory of one image in use: loads and stores of bytes, halves and   *)
(* words by instructions, sbrk, and the assembler that makes room for      *)
(* kernel data.  done is what the last store or sbrk was, and how it went. *)
(***************************************************************************)
EXTENDS MemImage

CONSTANTS
  Addrs, Values,        \* addresses and words of the accesses
  Garbage,              \* bytes that fresh memory may hold
  MaxData, MaxKData,    \* bounds on the sizes of the segments
  MaxWritten            \* bound on the bytes that are not zero

\* The order of mem_image.h, in whole words, with room between the data and the stack.
ASSUME MemoryAssumption ==
  /\ \A b \in {TEXT_BOT, DATA_BOT, STACK_TOP, K_DATA_BOT, SPECIAL_BOT, SPECIAL_TOP,
              TEXT_SIZE, DATA_SIZE, STACK_SIZE, K_DATA_SIZE} : b \in Nat /\ b % BYTES_PER_WORD = 0
  /\ MaxData \in Nat /\ MaxKData \in Nat /\ MaxWritten \in Nat
  /\ TEXT_BOT + TEXT_SIZE <= DATA_BOT
  /\ DATA_SIZE <= MaxData /\ DATA_BOT + MaxData + STACK_SIZE <= STACK_TOP
  /\ \A b \in {K_DATA_BOT, SPECIAL_BOT, MM_IO_BOT} : STACK_TOP <= b
  /\ SPECIAL_BOT <= SPECIAL_TOP
  /\ {StackWindow, MM_IO_BOT, MM_IO_TOP} \subseteq Nat
  /\ Addrs \subseteq Nat /\ Values \subseteq Words /\ Garbage \subseteq Byte
  /\ \A n \in 0 .. WordBits : 2^n \in Nat \ {0}

VARIABLES mem, done
vars == <<mem, done>>

Did(op, a, n, v, r) == [op |-> op, addr |-> a, size |-> n, value |-> v, fault |-> r.fault.code]

Init ==
  /\ mem = MakeMemory
  /\ done = Did("none", 0, 0, 0, Done(mem, 0))

\* Bounds: the stack stays above the data at their largest, and few bytes are written.
Apart(m) == DATA_BOT + MaxData <= m.stack_bot
Written(m) ==
  MapThenSumSet(LAMBDA s : Cardinality({i \in DOMAIN m[s] : m[s][i] # 0}),
                {"text", "data", "stack", "k_data", "special"})

Access(r) ==
  /\ Apart(r.mem) /\ Written(r.mem) <= MaxWritten
  /\ mem' = r.mem

\* What a load gives is in LoadsFindStores.
Read(a, n) == Access(ReadMem(mem, a, n)) /\ UNCHANGED done

Write(a, n, v) ==
  LET r == SetMem(mem, a, v, n)
  IN  ~BeyondSpecial(a, n) /\ Access(r) /\ done' = Did("write", a, n, v, r)

\* The sbrk system call returns the old break.  To shrink the segment to nothing or less
\* ends the simulator, since realloc then gives no memory.
Sbrk(addl_bytes) ==
  /\ mem.data_top - DATA_BOT + RoundUpWord(addl_bytes) \in 1 .. MaxData
  /\ mem' = ExpandData(mem, addl_bytes)
  /\ done' = Did("sbrk", mem.data_top, 0, 0, Done(mem, 0))

KGrow(addl_bytes) ==
  /\ mem.k_data_top - K_DATA_BOT + RoundUpWord(addl_bytes) <= MaxKData
  /\ \E g \in Garbage : mem' = ExpandKData(mem, addl_bytes, g)
  /\ UNCHANGED done

Next ==
  \/ \E a \in Addrs, n \in {1, 2, 4} : Read(a, n)
  \/ \E a \in Addrs, n \in {1, 2, 4}, v \in Values : Write(a, n, v)
  \/ \E addl_bytes \in {-4, 0, 1, 4} : Sbrk(addl_bytes)
  \/ \E addl_bytes \in {1, 4} : KGrow(addl_bytes)

Spec == Init /\ [][Next]_vars

-----------------------------------------------------------------------------
(* Properties *)

\* Type invariant (mem.cpp's pointers and arrays): each array is as long as the distance
\* of its bounds, in whole words, and holds bytes; the stack ends above the data.
TypeOK ==
  /\ \A s \in DOMAIN Bottom(mem) :
       /\ mem[s] \in [0 .. Top(mem)[s] - Bottom(mem)[s] - 1 -> Byte]
       /\ Bottom(mem)[s] % BYTES_PER_WORD = 0 /\ Top(mem)[s] % BYTES_PER_WORD = 0
  /\ mem.text \in [0 .. TEXT_SIZE - 1 -> Byte]

\* The byte at an address of user memory; zero where no segment reaches.
TextHome == TEXT_BOT .. TEXT_BOT + TEXT_SIZE - 1
DataHome == DATA_BOT .. DATA_BOT + MaxData - 1
StackHome == DATA_BOT + MaxData .. STACK_TOP - 1

CellOf(m, a) ==
  CASE a \in TextHome -> m.text[a - TEXT_BOT]
    [] a \in DataHome /\ a < m.data_top -> m.data[a - DATA_BOT]
    [] a \in StackHome /\ a >= m.stack_bot -> m.stack[a - m.stack_bot]
    [] OTHER -> 0

Flat == INSTANCE FlatMemory WITH
  Text <- TextHome, Data <- DataHome, Stack <- StackHome,
  cell <- [a \in TextHome \cup DataHome \cup StackHome |-> CellOf(mem, a)],
  brk <- mem.data_top, low <- mem.stack_bot

\* The three overlapping arrays of each segment, the stack that is copied to a new array
\* when it grows and the data that sbrk reallocates are one flat memory to the program:
\* a store changes the bytes of its span and no others, growing changes none, what sbrk
\* brings is zero, and a fault changes nothing.
ImplementsFlatMemory ==
  /\ Flat!Init(DATA_BOT + DATA_SIZE, STACK_TOP - STACK_SIZE)
  /\ [][Flat!Next]_(Flat!vars)

\* What a load of any width gives is what the flat memory holds there, also when it makes
\* the stack grow; it faults exactly where it is not aligned or no segment is near.
LoadsFindStores ==
  \A a \in Addrs, n \in {1, 2, 4} :
    LET r == ReadMem(mem, a, n)
    IN  /\ r.fault = NoFault /\ a \in Flat!Home => r.value = Flat!Found(a, n)
        /\ r.fault # NoFault => r.value = 0 /\ r.mem = mem
        /\ a % n = 0 /\ Flat!Span(a, n) \subseteq Flat!Mapped => r.fault = NoFault

\* "Zero new memory" (mem.cpp:325): expand_k_data keeps what the kernel's data held and
\* adds zeros.
KDataGrowsByZeros ==
  [][mem'.k_data_top > mem.k_data_top =>
       mem'.k_data = [i \in DOMAIN mem'.k_data |->
                        IF i \in DOMAIN mem.k_data THEN mem.k_data[i] ELSE 0]]_vars
=============================================================================
