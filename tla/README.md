# A TLA+ model of JsSpim

JsSpim is SPIM, the MIPS simulator, compiled to WebAssembly and driven by a page. The page's
event loop is one thread; the simulator is another (`src/spim/worker.cpp`), which steps one
or two MIPS images in lockstep. The images are filled by the assembler
(`parser.y`, `sym-tbl.cpp`, `data.cpp`, `inst.cpp`) and executed by `run.cpp`.

This directory holds TLA+ modules that model the program, TLC configurations that check them
on small instances, and proofs that TLAPS checks for every instance. `PROJECT.json` lists
the components, runs, mutants, findings, hazards and theorems, and maps each definition to
the lines it stands for.

## The parts of the system

| Part | State | Operations | What makes it correct | Modelled in |
|---|---|---|---|---|
| Simulator thread (`worker.cpp`, `run_spim_cycle_multi_ctx`) | `steps_left`, `finished` under `settings_mtx` + `steps_left_cv`; images under `simulator_mtx`; `status`, delay under nothing | the loop of `simulate()`: wait, delay, cycle, settle | no lost wakeup, no cycle that was not asked for, the thread can always be joined | `SimWorker`, `PlaySession` |
| Control interface (`worker.cpp`, `spim.cpp`) | the same | step, play, pause, setDelay, breakpoints, getStatus, lock/unlockSimulator, reset | every call returns; a locked view is stable; reset() rebuilds alone | `SimWorker` |
| Page (`execution.js`, `index.js`, `instruction.js`) | `playing`, frames requested, context, its own breakpoint sets, what is on display | click handlers, `updateUI` frames, `changeContext`, `Execution.init` | display never torn; page and images agree on breakpoints; the page polls while it believes the program runs; every handler ends | `Frontend` |
| Symbol table (`sym-tbl.cpp`, label lists of `parser.y`) | hash table, uses to patch, local list, labels of the current line | record, use, resolve, make global, move with alignment, flush | one pass = two passes; scope of names | `SymbolTable` |
| Layout (`data.cpp`, `inst.cpp`, directives of `parser.y`) | next free address of each segment, gp items, alignment, bytes and instructions stored | directives; loads, stores, la, branches and jumps with a symbol | memory holds what the program says | `Assembler`, `AssemblerReference` |
| CPU (`run.cpp`, `syscall.cpp`, `reg.h`) | registers, HI/LO, CP0, PC, FCSR | `spim_step`, exceptions, system calls | arithmetic, comparisons and conversions are exact; an exception is invisible to the program apart from the instruction that is skipped | `Alu`, `Fpu`, `Instructions`, `Cpu`, `UserMachine` |
| Encoding (`inst.cpp`, `op.h`) | none; instructions kept in parts and as words | `inst_encode`, `inst_decode` | what is stored in the text and decoded again acts as before | `Encoding` |
| Pseudo-instructions (`parser.y`, `inst.cpp`) | none; the text that is being filled | expansion into instructions, with `$at` in between and immediates split at 16 bits | the sequence does what the name says, and touches nothing else | `Expansion` |
| Exception handler (`exceptions.s`) | two words of kernel data, `$k0`, `$k1` | save, report, step EPC, restore, `eret` | gives back what it borrows, always comes back | `ExceptionHandler`, `Cpu` |
| Memory (`mem.cpp`) | segments and their bounds | loads, stores, sbrk, growth of stack and kernel data | accesses see the last store, growth keeps contents | `MemImage`, `Memory`, `FlatMemory` |
| Print streams (`image_print_stream.cpp`, `writeStdOut` and `changeContext` on the page) | a buffer for each stream of each image, what has been posted, the page's strings and panes | put, flush, post, deliver, switch | no output lost, doubled or reordered; the panes show the output of their context; a printed line appears | `Console` |
| Panes of the page (`register.js`, `memory.js`, `memory-content.js`) | lines and words on display, their marks | draw, refresh, switch | what is shown is the machine's; marks tell what changed | `Panes` |
| Formatting, scanner and grammar, build files, samples | | | | not modelled |

The page calls the control interface (embind); the calls and the thread share the settings,
the images and the status word. The thread never calls the page except for output, which is
posted. `reset()` joins the thread, reads `exceptions.s` and the program of each context
through the assembler, and starts a new thread.

What is hard: the interleaving of the two threads around two mutexes, a condition variable
and three variables with no lock at all; timed lock attempts that fail; event handlers that
outlive the state they were started in; on the assembler's side, one-pass patching where the
order of patches, alignment and scope interact; output that is buffered by one thread, flushed by
two and delivered to a third place later; panes that are brought up to date from views made
before the memory behind them moved.

## Modules

* `PlaySession`: the abstract promise of step, play, pause and reset. Its user makes one call at
  a time (`call`), and each call has its effect on `left`, the cycles that are owed and have not
  begun, exactly once before it ends: n more, endlessly many, none. A cycle begins only if one is
  owed, which it takes away, and only a cycle that is under way outlives a pause or a reset; a
  breakpoint or the end of the program takes the rest. What is left is run, and every call returns.
* `SimWorker`: `worker.cpp`. `pc_s` says where the simulator thread is and `pc_m` which call
  the page's thread is in; a step ends where a lock is taken or given back or an unlocked
  variable is written, so that the unlocked `status` and the read-then-clear of
  `get_simulator_status` interleave as they do in the program. An image is its PC and its
  breakpoints, the program a flow graph (`Flow`, `Exits`); everything else a cycle changes is
  represented by the PC. `steps_left` without a value is `Play` (-2;
  a count decremented once too often would be -1, which is something else).
* `Frontend`: extends `SimWorker` with the page. A handler is a sequence of calls of the
  interface; a second handler does not begin before the first has ended. `frames` counts the
  pending animation frames; `shown` is what the panes show, read first (registers) and last
  (memory) under the lock. `breakpointAddr`, `bold`, `ctx` and `listed` are the page's own
  variables.
* `SymbolTable`: `sym-tbl.cpp` as operators from one assembler state to the next. There is no
  VARIABLE: the source's functions take the image they change as a parameter.
* `Assembler`: the statements of `parser.y`, one action each, over `SymbolTable`; two files
  are read, with the flush of local labels after each. A behaviour is a program, and TLC
  explores all programs of bounded length over a set of statements. A load or `la` of a name that
  has its room off gp by then is addressed from `$gp` (`GpRelative`), and an instruction that would go
  between two words of the text is dropped (`Emit`).
* `AssemblerReference`: an assembler with two passes, written independently of the first:
  layout, then evaluation; what a sequence of instructions makes of an address it finds by
  executing it (`AddressMade`). `Regular` names the programs on which one pass is meant to be
  enough; each conjunct keeps out one thing that the source does not do as a programmer
  would expect (see "Known limits of the assembler").
* `Words`: the machine's integers, `ByteBits` bits to a byte (8 in the machine), so that the
  instances of TLC have words small enough to enumerate. Signed overflow wraps, as it does in
  the build.
* `MemImage`: `mem.cpp` as operators on one record per `mem_image_t`; an access gives the
  memory, the value and the fault. `Memory` is the state machine over it, and `FlatMemory`
  what a user program may rely on: one array of bytes, a break and the low end of the stack.
* `Alu`: the results and conditions of the integer instructions. `AluCheck` states what
  arithmetic on integers makes of them.
* `Fpu`: comparisons, condition codes and conversions to words of `run.cpp`, over FCSR as a
  set of bits. A number is a count of quarters, an infinity or no number at all: enough for
  every rounding and for every outcome of a comparison.
* `Encoding`: `inst_encode` and `inst_decode`: an instruction in parts (opcode, registers,
  shift, immediate, condition code), a word as a record of its fields, the table of `op.h` as a
  set of rows, and the decoder's key that picks the row.
* `Expansion`: the sequences that the grammar's actions, `i_type_inst` and
  `i_type_inst_full_word` make of a statement with a pseudo-instruction or a constant, and their
  execution from the first instruction to the last, by the operators of `Alu`, on a machine of
  registers, HI/LO and bytes. A branch to the statement's label ends the sequence, as an exception
  does.
* `InstructionCheck`: the operands, the encodings, the control writes and the statements that TLC
  tries, and the properties of `Alu`, `Fpu`, `Encoding` and `Expansion`. What a
  pseudo-instruction means (`Related`, `Ending`, `Outcome`, `Stored`) is stated on integers,
  independently of the sequences.
* `Instructions`: the cases of `spim_step`'s switch, each from a machine (registers, HI/LO,
  CP0, PC, memory) to its effect: the machine after it, where it goes on, the exceptions it
  raised, and whether the step returns early. It uses `Alu` and `MemImage`.
* `ExceptionHandler`: `exceptions.s` as a sequence of instructions, with pseudo-instructions
  expanded.
* `Cpu`: `step_program` and `spim_step` around the switch: fetch, execution, the way into an
  exception, the end of a step. One action per way through a step (`BadFetch`, `NotInstruction`,
  `Step`, `Exit`, `BreakToDebugger`). `Missing` are the words of the two texts that hold no
  instruction, or one that uses a symbol without an address: a program that gets there has ended.
  Inside the handler the same `Step` runs the handler's instructions.
* `UserMachine`: the machine as a program sees it: every instruction takes effect or, when it
  faults, is stepped over, and where there is none the program ends. Its state is the program's registers, HI/LO, PC and the segments text,
  data, stack and special; what an instruction does it takes from `Instructions`, as a constant, and
  runs it on a machine whose kernel part is blank. `Cpu` implements it under a mapping that finds, at
  each place of the handler, where `$at`, `$v0`, `$a0` and the program's PC are kept.
* `Console`: the streams, from the character that is put to the pane that shows it. A step
  stores one character, takes the contents of a buffer, or posts it, so that two threads in one
  stream interleave as they do in the program; a character is its place in its stream. The
  simulator thread is in a cycle (under `simulator_mtx`), reporting (under no lock of the page),
  or flushing at its end; the page's thread reports breakpoints, switches contexts, and resets,
  with the join, the destruction of the old images and the errors of the assembler.
* `Panes`: registers, data and stack on display. The programs store, move `$sp`, grow and
  shrink the data and double the stack; the page draws, refreshes and switches. The refresh is one step because the
  page holds `simulator_mtx` (that nothing moves meanwhile is `NoTornDisplay` of `Frontend`).
  A value read from a view of a past refresh is any value (`stale`, `beyond`).
* `SimWorkerMC`, `FrontendMC`, `AssemblerMC`, `MemoryMC`, `CpuMC`, `InstructionMC`, `PanesMC`:
  constants for TLC. `SimWorkerClaims`: a statement of the source's comments that does not hold
  (those on memory and streams are at the end of `Memory` and `Console`).
* `FrontendProofs` (with those of `SimWorker`), `PanesProofs`, `MemoryProofs`, `InstructionProofs`
  (with those of `AluCheck`), `MachineProofs` and `CpuProofs`, `ConsoleProofs`, `AssemblerProofs`:
  the proofs.

`Frontend` extends `SimWorker`, `Cpu` uses `Instructions`, `MemImage` and `ExceptionHandler`,
and `Assembler` uses `SymbolTable`. `Console` has the thread's and the page's control again, cut
down to what touches a stream. `SimWorker` and `Cpu` meet in the cycle: what `SimWorker` does in
`SimCycle` to every image, one instruction each, is a step of `Cpu`; of the machine, `SimWorker`
keeps the PC.

Some modules define an operator next to the code's that is a mistake on purpose
(`DecrementAlways`, `JoinAtOnce`, `LoadsUnadjusted`, `KeepLocals` ...). No specification uses
them; they show that the properties can tell the code from code that is slightly wrong.

## Runs

| Run | Checks | Bounds, and why they are enough |
|---|---|---|
| `worker` | types; mutexes held as coded; no lost wakeup; reset() alone; a thread that left its loop stays finished; no cycle runs under a status "not running"; a locked view is stable; every call returns; `PlaySession` is implemented, liveness included: no call is lost or has its effect twice, a step runs the cycles it asks for and no more, a pause stops them | two contexts, a program of three instructions with a loop, a fall-through and an exit, one breakpoint line, steps up to 2, delay on or off: every branch of `simulate()` and each pair of call and thread position occurs |
| `page_safety` | display not torn; page and images agree on breakpoints; polling | two contexts, two chains of frames (the code can start several), one line |
| `page_live` | every handler ends | one context, one chain |
| `asm` | data, immediate fields of branches, jumps, loads with and without index and la are those of the two-pass assembler; no patch is left behind; names are seen where their scope reaches (`.globl .extern .lcomm .comm .label =`); the end of a file takes away the names it defined while they were local and no others; the list of local labels has an end unless a file defines twice a name that is off gp or that it has set to 0 | programs of 4 statements over 14 in one file, over 13 in two files, and over 11 on names off gp (near `$gp`, and farther than an immediate reaches): label, alignment, use before and after in one program; the data segment starts where a label has bit 15 clear and the next word has it set |
| `memory` | every load finds what was stored, at any width; the segments are one flat memory; arrays fit their bounds | segments of one word, in the order of `mem_image.h`, which grow once; bytes of 2 bits; addresses at both ends of each segment and in the gap the stack grows into; at most 2 bytes not zero, which is what one store and one to overwrite it need |
| `instructions` | products, carries and borrows, overflow, division, unaligned pairs; every instruction that the grammar makes, encoded and decoded; condition codes through comparisons and control writes; conversions; pseudo-instructions do what they are called | all pairs of 4-bit words, five values each of HI and LO: each half has two bits, so every carry of the schoolbook product occurs; every row of `op.h` but those of coprocessor 2 and release 2, with registers that differ from each other; quarters from below to above the range of a word, infinities and NaN; statements with every pair of words as operands or constant (half of a word is two bits, so that constants fit, have an empty low half, or must be split with a carry), destinations that are an operand or `$zero`, and 16 bytes of memory in which no two words are the same |
| `cpu` | an exception is invisible to the program; the handler comes back; EXL is set exactly in the handler | 24-bit words (the bits of Status and Cause have their places), programs of two instructions before an exit call, the first of 37 kinds, the second of 5 that look at or fault on what the first did, five sets of registers (addresses of data, text, below the stack, of nothing; numbers of system calls), no instruction in the last word of the text and on either side of the handler |
| `console` | stdout exact and in order; stderr complete unless two threads were in it; panes show the end of what arrived; printed lines appear | two contexts of which one prints, buffers of two characters (full, and full at a newline), three characters and the messages they bring, any number of resets and switches; a program prints no more once two threads have met in a stream |
| `panes` | what is shown is the machine's; marks tell what changed | two contexts, two lines of two words of data, a stack of up to four lines, three steps of the programs between any draws, refreshes and switches: a pop and a push, a line that appears late, a segment that grows and shrinks |
| `claim_finish`, `kdata_zeroed`, `stream_race` | expected violations, see Findings | |

`MaxSteps`, `MaxFrames`, `MaxLines`, `MaxChars` and `MaxEdits` bound `steps_left`, pending frames,
program length, characters printed and steps of the programs under the panes.
They are conjuncts of guards of what comes from outside (a click, the next line, what a MIPS
program prints or stores), never of the simulator's own steps. `MaxData`, `MaxKData` and `MaxWritten` bound the memory in the same way, and
`Followed` is the range of addresses at which a program of `Cpu` is followed, `KeepsToUser` says that its
instructions name the program's registers only, write no Status or EPC and access neither the kernel's data nor a word of `Missing`, and
`Apart` that the data ends below the stack (`sbrk` and the stack's growth do not look at each other).
TLC evaluates what the proofs assume of the machine and of the programs (`CpuAssumption`,
`ProgramsAssumption`) in `cpu`. Deadlock is
checked in the concurrent runs, in `memory` and in `panes`; a program that has been assembled, or has
exited, stops, and so does an instruction that has given its result, so these
configurations switch the check off.

### Fairness

`FairSpec` asks for weak fairness of the simulator thread and of the return of calls that
need no mutex (the operating system schedules both threads), and for strong fairness of the
acquisition of a mutex: a `std::mutex` that is free again and again is got in the end.
The loop of `simulate()` releases and retakes both mutexes, so weak fairness would
let a waiting call starve for ever; the code relies on the same thing. The timed attempt of
`lockSimulator` has no such assumption: it may time out whenever the mutex is held. In
`FairFSpec` the browser goes on drawing frames and running the handler that has begun.
`Execution.init` retries the timed lock for ever: `HandlersEnd` holds for it because after
`reset()` the new thread has no budget, so it comes to rest in `steps_left_cv.wait` and the
mutex stays free. A `wait_for` ends at its time limit, and `lockSimulator` gives up at its own. No
click and no spurious wakeup is fair.

`Cpu`'s `FairSpec` says that cycles follow each other while the simulator plays. `Console` asks that
both threads go on with what they have begun, and strong fairness of `Deliver`: the page's event loop runs what has
been posted as soon as it is between handlers again and again. That a cycle is run or a button
pressed is never fair: `LinesArrive` holds for a program that stops at any point.

## Proofs

`FrontendProofs` proves `SimWorker` first, for all contexts, programs, breakpoint lines, step sizes and delays,
from `ProgramAssumption` and `ControlAssumption` (which TLC evaluates in `worker`):

* `TypeCorrect`: `Spec => []TypeOK`.
* `Safety`: `Spec => [](TypeOK /\ Control)`, where `Control` joins `LockOwnership`,
  `NoLostWakeup`, `RebuildAlone`, `EndsFinished` and `WaitingEndsWithCycle`. They lean on each other:
  `RebuildAlone` needs `LockOwnership` (a joined thread holds no mutex) and the position of
  the main thread; `NoLostWakeup` needs `LockOwnership` (the setters cannot run between the
  test and the wait, since `settings_mtx` is held there). Together with the types they are
  inductive, one lemma per thread.
* `NoWakeupLost`, `MutexesHeldAsCoded`, `RebuildNeedsNoLock`, `EndsOnlyFinished`,
  `NoCycleUnderWaiting`: the conjuncts.
* `ViewIsStable`: the action property `ViewStable`, from `LockOwnership`.
* `ImplementsSession`: initial states map to initial states of `PlaySession` and every step
  to a step or a stutter. `call` is the call that `pc_m` is in, `left` is `steps_left` while the
  thread can run cycles (`Left`), and `cycle` what has been taken from it and not been settled
  yet (`CycleState`); a step, play or pause has its effect in the one step that holds `settings_mtx`.
  It needs `Control`, and that what a cycle gave is set only from its end until the loop has
  settled it (`ResultInPlace`).

The second half of `FrontendProofs` proves the page on top of that, for all contexts, programs and numbers of frames
(`PageAssumption`, which TLC evaluates in `page_safety`):

* `PageUsesInterface`: `FSpec => Spec`. Each step of a handler is a call of the interface, or its
  return, or a step of the simulator thread, so that every theorem about `SimWorker` holds under
  the page, among them the refinement of `PlaySession`.
* `PageTypes`, `DisplayNeverTorn`, `PageKnowsBreakpoints`, `PagePolls`: the four invariants of
  `page_safety`. They speak of the states between handlers; what holds in the middle of one is in
  the inductive invariant `FInv`: which call a handler can be in (`InCall`), that a handler which
  will ask for a frame has room for it (`FrameRoom`), that between the click on a line and the
  return of the call the page's copy is one line ahead, and that during a reset the machine's
  breakpoints are empty before the page forgets its own (`Copies`), that the registers read are
  still those of the machine while the lock is held (`Reading`), and that a frame taken from
  those pending will either be followed by another or find `playing` unset (`Polling`). `Reading`
  needs `Control`: the simulator cannot be in a cycle while the page holds
  `simulator_mtx`.

`PanesProofs` proves the three properties of `panes` for all sizes of the segments, of the stack and of
lines, all values and any number of steps of the programs, from `PanesAssumption`: `PanesTypes`,
`PagesShowMemory` and the action property `RefreshMarksChanges`. The invariant `PInv` says what a
refresh relies on: that only a word that has shown something is highlighted (`Sound`, else an
undefined word that gets a value would be marked), that the lines of the stack reach from `bottom` to
the top without a gap (`NoGap`, else a word in use might have no line), and that the view of the
stack is never longer than the stack (`ViewFits`: a stack that has not grown is seen by a view that
has not either). `Updated`, `RefreshedData`, `StackRefresh` and `DrawnStack` are the lemmas on
`updateValue` and on what a refresh or a new pane makes of data and stack.

`MemoryProofs` proves for every layout of the segments, every address, width and value, from
`MemoryAssumption` (the order of the segments in `mem_image.h`, in whole words; TLC evaluates it in
`memory`):

* `MemoryTypes`: `Spec => []TypeOK`.
* `LoadsAreExact`: `Spec => []LoadsFindStores`. A load of any width finds what the flat memory holds.
* `MemoryIsFlat`: `Spec => ImplementsFlatMemory`. Every access, in whatever segment, and every growth of
  data, stack or kernel data is a step of one flat array of bytes, or leaves it unchanged.

Neither of the last two follows from the types. The inductive invariant `MInv` adds that each array is as long as
its bounds say (`Contents`, else a store inside the bounds could miss the array), that the bounds stay in
whole words (`Bounds`, else an aligned access could cross the end of a segment) and that the stack stays
above the data (else two segments would claim one address). `PutKeeps` and `PutBytes` say what a store does
to the bytes of an array, `StoreText`, `StoreData`, `StoreStack` and `StoreKernel` that it changes
the bytes addressed and no others, and `StackGrows` that an expansion moves the array and keeps
every byte at its address. For loads, `FoundIsFetch` finds one sum of bytes in both memories, `LoadFrom`
is the load from a segment with the sign of its array, and `LoadNothing` the one where no segment is, but the stack may grow.

`InstructionProofs` proves four properties of `instructions` for words of every width, where TLC enumerates
words of 4 bits, from `PowersAssumption` (that 2^32 is twice 2^31 and the square of 2^16, and the like
for other widths) and `RegistersAssumption`, which TLC evaluates in `instructions`:

* `ResultsAreExact`: `add`, `addi` and `sub` raise an overflow exactly when the sum does not fit; quotient
  and remainder of `div` and `divu`.
* `ProductsAreExact`: HI and LO after the seven multiplications.
* `UnalignedPairsMeet`: `lwl` with `lwr`, and `swl` with `swr`, at each of the four places in a word.

Each instruction is executed on registers of any contents, so that the invariant is the first three properties
and that the operands are words; the argument is in the lemmas. A number is reduced at most once around
the word (`WordIs`), so the comparisons of `Carry` find every carry; `UnsignedProduct` adds up the halves,
`Truncated` is C's division. `Holds(p, n)` says that the pair p is n up to multiples of a double word;
`NegativeHolds`, `AddHolds` and `SubtractHolds` say that the complement, the sum and the difference of
pairs, with their carries between LO and HI, are those of the numbers.
`Digits` and `Parts` take a word apart at a byte and put it together again; `PairAtStart` is the pair of
accesses that meets one word, `PairInside` the one that meets two.

It also proves the two invariants of the floating point unit, from `OperandsAssumption`
(condition codes are 0 to 7, numbers are counts of quarters), which TLC evaluates in `instructions`:

* `ConditionsAreExact`: the codes after any sequence of comparisons, with NaN or without, and of writes of
  any words by `ctc1`. `CodesKept` says that FCSR has the bit of each code that is 1 and of no other, which
  lasts because no two codes share a bit (`MasksDiffer`) and because the condition bits of each comparison are
  its relations (`ConditionsAre`).
* `ConversionsAreExact`: `CastIs`, `FloorCeilAre` and `RoundIs` bound each conversion by less than one.

`MachineProofs` and `CpuProofs` prove, for every program, registers, input and layout of the segments, from
`CpuAssumption` (the segments lie in the order of `mem_image.h`, in whole words; the kernel's data has room
for what the handler puts there; Status and Cause fit in a word) and `ProgramsAssumption`
(the program's registers are not `$k0` and `$k1`, it is not followed inside the handler's text, and the
handler has an instruction in each of its words):

* `CpuTypes`: `Spec => []TypeOK`.
* `ExceptionsAreInvisible`: `Spec => ImplementsUserMachine`. An exception, from the instruction that raises it
  to the `eret`, is one step over that instruction and stutters.

The types are not inductive: that a machine with EXL set is in the handler's text holds because no
instruction of the handler branches out of it, which depends on what its registers hold. The inductive invariant
`IInv` says besides the types (`MachOk`, with the bounds of the segments and the lengths of their arrays)
that data and stack are apart, and that with EXL set the machine is at a place p of the handler with
`AtPlace(m, p)`: EPC is aligned until it is stepped (so that the test of `exceptions.s:116` never leads to
the exit), `$at` holds the upper half of the address that the next instruction stores to, `$v0` is a number
of a call that prints and not one that exits, `$a0` and `$at` lead into the table of messages, `$k0` is the EPC
that is to be stepped. The argument has three parts:

* The program (`MachineProofs`). `UserGood` is that every instruction, one lemma for each group of `spim_step`'s
  cases, leaves a machine of the right type; `UserSame` that it does the same on two machines that differ in
  the kernel's part only, so that `UserMachine`'s blank machine can stand for the real one.
  `BitAnd` and `BitOr` are laws about a recursive function, proved by taking the least number that
  breaks them. `StepsOn`, `Exits`, `Breaks`, `NoFetch` and `Stops` (in `CpuProofs`) are the actions of `Cpu` on a program.
* The way in (`StepsIn`): `RaiseAll` leaves EPC at the instruction and sets EXL. When Cause holds more than
  a code, the end of the step sets EPC again, from the address where it would go on; that is the same, since
  no instruction both branches and raises an exception.
* The handler (`CpuProofs`). `HandlerStep`: each of the 53 instructions, one lemma each, raises
  nothing, leaves the program's view as it is, and leads to a place of the handler again. What the view is changes
  with the place (`$at` moves to `$k1`, `$v0` and `$a0` to the kernel's data, and back again), and so does the PC
  where the program will go on, at the instruction that steps EPC. `eret` makes the view the machine.

`ConsoleProofs` proves the invariants of `console` for all contexts, programs and sizes of the buffers,
from `ConsoleAssumption` (finitely many contexts, buffers that are not empty): `ConsoleTypes`,
`StdoutArrives`, `StderrArrives` and `PanesShowTheEnd`. None of them is inductive, and the invariant
`IInv` comes in layers, each of which is proved with those before it:

* `Base`: the types; what a thread has taken from an array is there, and the put pointer passes the end
  by at most one place for each thread that is about to flush (`ArraysHold`: the place that the
  constructor keeps free is enough); while images are built there is no simulator thread (`BuildsAlone`).
* `Owners`: which calls a thread can still have to make. Only a cycle prints on stdout, the
  page touches stdout only when it destroys images, and what is left in a buffer when a thread ends has
  a flush to come. Without it the two threads could meet in stdout, where `StdoutExact` fails.
* `LastWritten`: a buffer of stdout holds the characters that were written last, in order, and a
  newline only at its end and with its flush under way. Else a flush could post what was already posted.
* `RacesSeen`: two threads that are in one stderr have been noted, so that in all others a thread is
  alone from the moment it takes the contents of the buffer until it has posted them.

The texts themselves are concatenations over the queue, defined by folds. `FlattenAppend`, `FlattenHead` and
`FlattenHolds` say what a post and a delivery make of them, `OverflowText`, `TakeText`, `PostText` and
`DeliverText` that a character moves from buffer to post to page without leaving the text, `ExactCut`
what a NUL cuts off.

`AssemblerProofs` proves three invariants of `asm`, and `LocalsForgotten`, for every set of statements, programs of any
length and segments anywhere, from `AssemblerAssumption` (operands are not negative and `.align` shifts by
at most 30; addresses do not wrap): `AssemblerTypes`, `PatchesAreMade`, `FilesAreForgotten` and
`RingsAreRedefinitions`. The invariant is `Good(asm, D, Z, W)`, in which D are the names that the file
has defined, Z those of them that it can define again without an error, and W those that it has. Besides the types
it says that a name with an address, off gp, or in front of the statement that is read, is global or on
the list of local labels (`Listed`, else the flush would miss it), that only names in front of that
statement can have both an address and patches left (`Patched`: their patches wait until alignment has
moved them), and that a name on the list has an address that refuses a second definition, or is one of Z
(`Behind`, else it could be entered twice). Every operator of `SymbolTable` and every statement keeps
`Good` (`RecordLabelGood`, `ClearLabelsGood`, `MoveLabelsGood` ...). `Carried` says what an
operator leaves as it is. The folds of `ResolveUses` and `ClearLabels` are unrolled into a sequence of states
(`UsesFoldSteps`, `LabelsFoldSteps`); in place of an induction, which the provers cannot apply, a state
that goes wrong is taken to be the first, by `LeastOf`.

Model-checked only: all liveness (`CallReturns`, `HandlersEnd`, `LinesArrive`, `HandlerReturns`, and the fairness
part of `ImplementsPlaySession`), which the prover does not handle; `OnePassIsTwoPass`, whose reference
is an assembler of its own that is written with recursion over the program; and the encodings and expansions of
`instructions` (`RoundTrip`, `ExpansionsExact`), which rest on a table of 300 rows and on sequences that are
executed by a fold. For the CPU that leaves `HandlerReturns`: what is proved is that the handler never goes
astray, and TLC checks that it ends.

## Findings

Each is a run that is expected to fail, with the comment that the code contradicts.

* `claim_finish`: the end of a program can be lost between the read and the clear of `status`.
* `kdata_zeroed`: `expand_k_data` divides by the size of a word the bounds of a loop over
  bytes: it wipes out part of the old contents and leaves the new bytes as `realloc` gave them.
* `stream_race`: the comment on `simulator_mtx` says that it covers what both threads use. The
  simulator thread writes to the images' streams after it has given it back.

### Other departures met while modelling, without a run

* `getStatus` can return "not running" (`worker.cpp:19`) while cycles are owed: SIMULATOR_WAITING is written
  when the thread goes to wait (`:171`) and stays past the step or play that ends the wait until somebody
  reads it or the next cycle begins (`:183`). The page then stops polling a machine that runs
  (`execution.js:148-151`). `WaitingEndsWithCycle` says that it lasts no longer than that.
* A label that is defined in front of its `.globl` stays on the list of local labels
  (`sym-tbl.cpp:206`, `:218`) and is removed with them at the end of the file (`:412`), under the comment "Remove all
  local (non-global) label from the table". `FlushTakesWhatWasLocal` says that these are the only global names lost.
* `reset()` leaves `status` alone (`worker.cpp:90-97`): a FINISHED_RUNNING of one session
  can be read in the next.
* `cont_bkpt` suppresses the test made after the instruction (`spim-utils.cpp:450`), where the
  PC has moved on: continuing from a breakpoint passes over one at the very next address.
* Two `.lcomm` of one small name enter its label twice in the list of local labels
  (`sym-tbl.cpp:206`), which becomes a ring, and the flush at the end of the file (`:412`) runs for
  ever. So does `b = 0` before any other definition of `b`, since a label with the address 0 counts
  as one that is not defined. `RingsFromRedefinition` says that nothing else makes one.
* EPC is rounded down when an exception is raised (`run.cpp:1689`), so the handler's test for an
  address that is not a word's (`exceptions.s:116-124`) never succeeds, and the program goes on.
* `divu` leaves HI and LO alone for 0x80000000 / 0xffffffff, as if it could overflow
  (`run.cpp:435`).
* A byte stored in the special segment goes through the pointer to words
  (`mem.cpp:465`): it lands at four times its place, beyond the array for all but the first
  quarter. `Memory` makes only the stores that stay inside.
* Nothing raises an interrupt: `Compare` and `Count` are stored and never looked at, so the
  handler of `Tests/timer_interrupt.s` is not entered.
* The limits of the segments (`-ldata`, `-lstack`) are reported when they are passed, and
  passed all the same.
* The "likely" branches that are not taken skip the next instruction although, with delayed
  branches off, it is in no delay slot (`run.cpp:114-119`).
* After `break 1` the PC stays, and the result of `step_program` that says so is not used: the
  simulator executes the same instruction in every cycle.
* The thread itself overwrites BREAKPOINT_ENCOUNTERED with SIMULATOR_WAITING (`worker.cpp:171`
  after `:226`) before it lets go of `settings_mtx`, so the page hardly ever reads -1.
* The displacement of a branch is extended from bit 15 of four times its field, and not cut
  (`inst.h:88`, `spim.h:59`): the fields 0x2000 to 0x3fff, 0x6000 to 0x7fff and 0xa000 to 0xbfff lead elsewhere than
  the architecture says. The assembler makes none of them, since it cuts what it puts there.
* An instruction after a `.space` in the text that is not of whole words is dropped with a message, and so is each
  one after it (`inst.cpp:155`); labels in front of them are defined all the same.
* A forward reference in a `.byte` or `.half` is patched with a word, over its neighbours
  (`sym-tbl.cpp:305`).
* A label in front of `.align` in the text gets a data address (`data.cpp:108`).
* Uses of a name before its `.extern` are never patched (`data.cpp:183`).

The streams:

* What a program prints after a NUL is lost with the rest of what is flushed together
  (`image_print_stream.cpp:88`, `UTF8ToString` reads to the first NUL). `CutOff` in `StdoutExact`
  is exactly that.
* The string handed to the page is never freed.
* `run_error` ends its message without a newline, so that it stays in the buffer, and a message of
  the page (a breakpoint that is set twice) can get in front of it: `StderrComplete` claims no order.
* After a change of context that did not get the lock the panes go on with the output of the new
  context below that of the old (`index.js:100-105`).

The panes:

* A stack that has been expanded is shown wrongly, because a word's place is counted from the end of
  a view that has the length of the first stack (`memory.js:190`); `StackFits` exempts it.
* `$sp & 0xfffffff0` is signed (`memory.js:200`): a pane made while `$sp` is at the top of memory or above
  never adds a line. A very small `$sp` makes `addNewLines` create a line for each 16 bytes up to
  the top of memory.
* A word that is popped and pushed again with another value is grey until the refresh after the
  next. The first store into a line that was all zero is not highlighted, because the line is new.
* A change of context that did not get the lock leaves `getSP` with the old context's registers
  (`bound`) until the next one.
* A view of the data has one word for each byte of the segment; the page divides by 16 and not by
  4, which makes up for it.
* Execution.init puts the radix of the registers back to 16 while the radio button keeps its place.

Encoding and floating point:

* `Lost` in `InstructionCheck` lists the instructions that do not survive encoding and
  decoding: comparisons and moves on a condition come back with registers in other fields, `movt`
  as `movf`; `floor.w.s` and `trunc.w.s` share their opcode with `prefx` and `suxc1`; `break` loses
  its code; a jump loses a bit of its target to the mask 0x2ffffff.
* `round.w` adds a half and truncates (`run.cpp:1486`), so that it is wrong below -1/2.
* `ctc1` to FCSR with bits that are not there raises an exception after it has written, and
  reading FCCR gives what was written there and not the condition codes.
* A misaligned `ldc1` raises its exception and goes on; a double in an odd register is one in the even
  one below.

Pseudo-instructions (`Astray` and `Open` in `InstructionCheck` are exactly these):

* `bgt` and `ble` with a constant compare with the number after it (`parser.y:1377`, `:1439`); after
  0x7fffffff comes the least number, so `bgt` always branches and `ble` never does.
* `sub` with the constant 0x80000000 adds it as it is (`parser.y:1081`), and overflows exactly when
  it should not.
* `la` with a base register adds by `addi` (`parser.y:631`): an address that passes 0x7fffffff
  raises an overflow.
* A `teqi` (or `tgei`, `tlti` ...) with a constant of more than 16 bits is taken for an instruction
  that has a register form; `imm_op_to_op` knows none and calls `fatal_error` (`parser.y:2768`),
  which ends the program.
* `divu` and `remu` inherit the case of 0x80000000 / 0xffffffff.
* `ulw`, `ulh`, `ulhu` and `ush` go wrong when the register is also the base: the second half of the
  access uses the base that the first has changed (`parser.y:675-733`, `:789-813`). Whether a
  program may ask for that is left open.

### Known limits of the assembler

`Regular` leaves out, besides the above: a name defined twice; an expression `name + n` whose
name has no address yet (the addend is lost); a name whose value is 0 (it counts as
undefined); `.extern` and `.lcomm` when the room off gp is used up, and `.lcomm` of a large
item in the kernel's data (the label is taken from the user's segment, the bytes from the
kernel's); instructions whose operand is not a label of an address, or branches to data or between two words.

## What is not modelled, and why

* Floating point arithmetic (the host's), floating point loads, stores and moves, `cfc0`/`ctc0`, delayed branches and loads (off in this build),
  devices (they answer 0), profiling, and system calls on files and strings. A program of
  `Cpu` does not touch `$k0`, `$k1`, Status, EPC or the kernel's data, or jump into the handler (the bounds
  `KeepsToUser` and `Followed`): what it could see of the handler there is not in `UserMachine`. Nor
  is it followed further once its data has met its stack (`Apart`).
* Instructions assembled into a data segment, floating point and string data, and the growth
  of segments while assembling: they do not touch labels.
* Pseudo-instructions for doubles (`ld`, `sd`, `li.d`, `li.s`, `mfc1.d`, `mtc1.d`), those that only have another name
  (`b`, `bal`, `beqz`, `bnez`, `nop`), statements that use `$at` themselves, which the assembler keeps
  for itself, and segment faults in the middle of an unaligned access.
* Coprocessor 2, `ssnop` and the opcodes of release 2 in `Encoding`: they have rows in `op.h` which
  nothing executes, or none. Printing and comparing instructions.
* The move of an image and of its streams (`image.cpp`): every image is built where it stays.
* The arguments of a program on its stack and the command line (`spim-utils.cpp`).
* The gp-relative form that `i_type_inst_full_word` has of its own (`inst.cpp:253`, `:317`): `make_addr_expr` has
  already taken the symbol off every operand that would qualify.
* A program that goes back over its own text while it is assembled: the uses recorded for an instruction
  that is replaced point to freed memory (`mem.cpp:437`).
* The scanner and the grammar, formatting, the listing of instructions, build files, vendored scripts.
* The codes that `addBreakpoint` returns: nobody reads them.
* `cycles_elapsed` and the messages to stderr: written, never read by the program's logic.

## Further work

1. `Cpu` with floating point data and the system calls on strings; the start of a program
   (`initialize_run_stack`, `__start`); two images that take turns under `SimWorker`.
2. Proofs: `Encoding` and `Expansion` for every width; what the assembler leaves in
   memory for a program without forward references.
