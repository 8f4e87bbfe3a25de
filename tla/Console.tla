-------------------------------- MODULE Console --------------------------------
(***************************************************************************)
(* What the programs print, on its way to the page.  Each image has two    *)
(* streams (image_print_stream.cpp), for stdout and for stderr, that       *)
(* buffer characters and post what they flush to the page's thread.  The   *)
(* simulator thread prints while it steps the images, under simulator_mtx, *)
(* but also after a cycle and when it ends (worker.cpp), under no lock     *)
(* that the page's thread would take when it reports a breakpoint.  The    *)
(* page (execution.js, index.js) keeps what has arrived of each context    *)
(* and shows the text of one.                                              *)
(*                                                                         *)
(* A step stores one character, takes the characters of a buffer, or       *)
(* copies and posts them: where a stream is used by one thread only, these *)
(* steps cannot be told from whole calls.  A character is the place it has *)
(* in its stream; written says what kind it is.                            *)
(*                                                                         *)
(* AppendToAny, FullNever, NewlineKept, PostTwice, NoFinalFlush and        *)
(* Unannounced are not the code but mistakes next to it, which the         *)
(* properties must tell from the code.                                     *)
(***************************************************************************)
EXTENDS Integers, Sequences, SequencesExt, FiniteSetsExt, FiniteSets

CONSTANTS
  Ctxs,         \* the contexts, each with an image
  BufferSize,   \* buffer_size of MIPSImagePrintStream's constructor, 256
  Talking,      \* the contexts whose programs print and end, and get breakpoints
  MaxChars      \* bound on the characters written

ASSUME ConsoleAssumption ==
  /\ IsFiniteSet(Ctxs)
  /\ BufferSize \in Nat \ {0}
  /\ Talking \subseteq Ctxs
  /\ MaxChars \in Nat

Sinks == {"out", "err"}
Streams == Ctxs \X Sinks
Kinds == {"char", "newline", "nul"}

VARIABLES
  written,   \* all that was ever written to each stream, by kind of character
  buf,       \* the array of each stream, as far as it has been written
  pptr,      \* its put pointer, as the distance from pbase
  calls,     \* what each thread still has to do to streams, in order
  taken,     \* the characters of a sync that has reset pptr and not copied yet
  queue,     \* what has been posted to the page's thread and not been run
  sim,       \* where the simulator thread is
  main,      \* where the page's thread is
  arrived,   \* the page's strings stdout[ctx] and stderr[ctx]
  ctx,       \* Execution.ctx
  pane,      \* what Elements.output and Elements.log show
  missed,    \* did the last change of context not get the lock?
  raced      \* the contexts whose stderr two threads have been in at once

streams == <<written, buf, pptr, calls, taken>>
page == <<arrived, ctx, pane, missed>>
vars == <<streams, queue, sim, main, page, raced>>

Threads == {"sim", "main"}
SimPc == {"none", "idle", "cycle", "report", "flush", "exited"}
MainPc == {"idle", "report", "switch", "join", "build"}

Init ==
  /\ written = [s \in Streams |-> <<>>]
  /\ buf = [s \in Streams |-> <<>>] /\ pptr = [s \in Streams |-> 0]
  /\ calls = [t \in Threads |-> <<>>] /\ taken = [t \in Threads |-> 0]
  /\ queue = <<>> /\ sim = "none" /\ main = "build"
  /\ arrived = [s \in Streams |-> <<>>] /\ ctx \in Ctxs
  /\ pane = [k \in Sinks |-> <<>>] /\ missed = FALSE
  /\ raced = {}

-----------------------------------------------------------------------------
(* Calls of a stream *)

Put(s, kind) == [op |-> "put", s |-> s, kind |-> kind]
Sync(s) == [op |-> "sync", s |-> s, kind |-> "char"]

\* error(): a line, and a flush.
Error(c) == <<Put(<<c, "err">>, "newline"), Sync(<<c, "err">>)>>

Errors(D) == FlattenSeq([i \in 1 .. Cardinality(D) |-> Error(SetToSeq(D)[i])])
SyncAll(kinds) ==
  FlattenSeq([i \in 1 .. Cardinality(Ctxs) |->
                [j \in 1 .. Len(kinds) |-> Sync(<<SetToSeq(Ctxs)[i], kinds[j]>>)]])

Doing(t) == IF calls[t] = <<>> THEN "nothing" ELSE Head(calls[t]).op
Stream(t) == Head(calls[t]).s
InStderr(t, c) == calls[t] # <<>> /\ Stream(t) = <<c, "err">>

\* The page: writeStdOut and writeStdErr.
AppendToAny(s, text) ==
  /\ arrived' = [arrived EXCEPT ![s] = @ \o text]
  /\ pane' = [pane EXCEPT ![s[2]] = @ \o text]

WriteStd(s, text) ==
  /\ arrived' = [arrived EXCEPT ![s] = @ \o text]
  /\ pane' = IF s[1] = ctx THEN [pane EXCEPT ![s[2]] = @ \o text] ELSE pane

\* overflow(): *pptr() = ch; pbump(1).  A newline and a full buffer are flushed.
FullNever(p, kind) == kind = "newline"
NewlineKept(p, kind) == p >= BufferSize

Full(p, kind) == kind = "newline" \/ p >= BufferSize

Overflow(t) ==
  LET s == Stream(t)
      kind == Head(calls[t]).kind
      p == pptr[s] + 1
  IN  /\ Doing(t) = "put"
      /\ written' = [written EXCEPT ![s] = Append(@, kind)]
      /\ buf' = [buf EXCEPT ![s] = SubSeq(@, 1, p - 1) \o <<Len(written'[s])>> \o SubSeq(@, p + 1, Len(@))]
      /\ pptr' = [pptr EXCEPT ![s] = p]
      /\ calls' = [calls EXCEPT ![t] = (IF Full(p, kind) THEN <<Sync(s)>> ELSE <<>>) \o Tail(@)]
      /\ UNCHANGED <<taken, queue, page>>

\* sync(): n = pptr() - pbase(); pbump(-n); nothing more when n is 0 ...
SyncTake(t) ==
  LET s == Stream(t)
  IN  /\ Doing(t) = "sync" /\ taken[t] = 0
      /\ taken' = [taken EXCEPT ![t] = pptr[s]]
      /\ pptr' = [pptr EXCEPT ![s] = 0]
      /\ calls' = IF pptr[s] = 0 THEN [calls EXCEPT ![t] = Tail(@)] ELSE calls
      /\ UNCHANGED <<written, buf, queue, page>>

\* ... else a copy, as a C string, for MAIN_THREAD_ASYNC_EM_ASM: posted by the simulator
\* thread, run at once by the page's own.
CString(s, n) ==
  LET nuls == {i \in 1 .. n : written[s][buf[s][i]] = "nul"}
  IN  SubSeq(buf[s], 1, IF nuls = {} THEN n ELSE (CHOOSE i \in nuls : \A j \in nuls : i <= j) - 1)

PostTwice(t, s, text) ==
  /\ queue' = queue \o <<[s |-> s, text |-> text], [s |-> s, text |-> text]>>
  /\ UNCHANGED page

Post(t, s, text) ==
  IF t = "sim"
  THEN queue' = Append(queue, [s |-> s, text |-> text]) /\ UNCHANGED page
  ELSE WriteStd(s, text) /\ UNCHANGED <<ctx, missed, queue>>

\* What lies behind pptr is forgotten here, unless the other thread is about to copy it.
SyncPost(t) ==
  LET s == Stream(t)
      alone == \A u \in Threads \ {t} : taken[u] = 0 \/ Stream(u) # s
  IN  /\ Doing(t) = "sync" /\ taken[t] # 0
      /\ Post(t, s, CString(s, taken[t]))
      /\ taken' = [taken EXCEPT ![t] = 0]
      /\ buf' = IF alone THEN [buf EXCEPT ![s] = SubSeq(@, 1, pptr[s])] ELSE buf
      /\ calls' = [calls EXCEPT ![t] = Tail(@)]
      /\ UNCHANGED <<written, pptr>>

StreamStep(t) ==
  /\ Overflow(t) \/ SyncTake(t) \/ SyncPost(t)
  /\ UNCHANGED <<sim, main>>

-----------------------------------------------------------------------------
(* The simulator thread *)

Call(t, cs) == calls' = [calls EXCEPT ![t] = cs]
OnlyCalls == UNCHANGED <<written, buf, pptr, taken, queue, page>>

SimStep(from, to, cs) ==
  /\ sim = from /\ sim' = to
  /\ calls["sim"] = <<>> /\ Call("sim", cs)
  /\ OnlyCalls

CharsWritten == MapThenSumSet(LAMBDA s : Len(written[s]), Streams)
Unraced == raced = {}
Room == Unraced /\ CharsWritten < MaxChars

\* What the instructions of a cycle may print: a character (print_*), a line on stderr that
\* is flushed (handle_exception) or not (run_error), or nothing.
Printed ==
  {<<>>} \cup {<<Put(<<c, "out">>, k)>> : c \in Talking, k \in Kinds}
         \cup {Error(c) : c \in Talking} \cup {<<Put(<<c, "err">>, "char")>> : c \in Talking}

\* A cycle, under simulator_mtx, which the page's thread holds when it reports.
SimCycle ==
  /\ main \notin {"join", "report"} /\ Room
  /\ \E cs \in Printed : SimStep("idle", "cycle", cs)
  /\ UNCHANGED main

\* Its end: nothing to report, breakpoints, or programs that have ended.
SimGoOn == SimStep("cycle", "idle", <<>>) /\ UNCHANGED main

SimBreakpoint ==
  /\ \E D \in SUBSET Talking \ {{}} : SimStep("cycle", "report", Errors(D))
  /\ UNCHANGED main

SimReported == SimStep("report", "idle", <<>>) /\ UNCHANGED main

NoFinalFlush == <<>>

FinalFlush == SyncAll(<<"out", "err">>)

SimFinish ==
  /\ \E D \in SUBSET Talking \ {{}} : SimStep("cycle", "flush", Errors(D) \o FinalFlush)
  /\ UNCHANGED main

\* shutdown() has set finished.
SimStop ==
  /\ main = "join" /\ SimStep("idle", "flush", FinalFlush)
  /\ UNCHANGED main

SimExit == SimStep("flush", "exited", <<>>) /\ UNCHANGED main

-----------------------------------------------------------------------------
(* The page's thread *)

MainStep(from, to, cs) ==
  /\ main = from /\ main' = to
  /\ calls["main"] = <<>> /\ Call("main", cs)
  /\ UNCHANGED sim

\* add_breakpoint and delete_breakpoint get simulator_mtx, report and let go.
Breakpoint ==
  /\ Room /\ sim # "cycle"
  /\ \E c \in Talking : MainStep("idle", "report", Error(c))
  /\ OnlyCalls

BreakpointReturn == MainStep("report", "idle", <<>>) /\ OnlyCalls

\* changeContext: the context changes at once, the panes if the lock is got in time.
SwitchClick ==
  /\ MainStep("idle", "switch", <<>>)
  /\ ctx' \in Ctxs
  /\ UNCHANGED <<written, buf, pptr, taken, queue, arrived, pane, missed>>

SwitchShow ==
  /\ MainStep("switch", "idle", <<>>) /\ sim # "cycle"
  /\ pane' = [k \in Sinks |-> arrived[<<ctx, k>>]] /\ missed' = FALSE
  /\ UNCHANGED <<written, buf, pptr, taken, queue, arrived, ctx>>

Unannounced == main = "switch" /\ missed' = missed

Announced == main = "switch" /\ missed' = TRUE

SwitchMiss ==
  /\ MainStep("switch", "idle", <<>>) /\ sim = "cycle"
  /\ Announced
  /\ UNCHANGED <<written, buf, pptr, taken, queue, arrived, ctx, pane>>

\* Execution.init: the panes are emptied, then reset() joins the thread ...
ResetClick ==
  /\ MainStep("idle", "join", <<>>)
  /\ ctx' \in Ctxs /\ pane' = [k \in Sinks |-> <<>>] /\ missed' = FALSE
  /\ UNCHANGED <<written, buf, pptr, taken, queue, arrived>>

\* ... ctxs.clear() destroys the images, and their streams flush ...
Join ==
  /\ sim = "exited"
  /\ MainStep("join", "build", SyncAll(<<"err", "out">>))
  /\ OnlyCalls

\* ... the assembler may have something to say of the new ones ...
BuildError ==
  /\ Room
  /\ \E c \in Talking : MainStep("build", "build", Error(c))
  /\ OnlyCalls

\* ... and a new thread starts.  (A file that was chosen is then shown by changeContext,
\* which is SwitchClick.)
Start ==
  /\ main = "build" /\ main' = "idle" /\ calls["main"] = <<>>
  /\ sim' = "idle"
  /\ buf' = [s \in Streams |-> <<>>] /\ pptr' = [s \in Streams |-> 0]
  /\ UNCHANGED <<written, calls, taken, queue, page>>

\* The page's thread runs what has been posted between its handlers, and while it waits.
Deliver ==
  /\ main \in {"idle", "switch", "join"}
  /\ queue # <<>> /\ queue' = Tail(queue)
  /\ WriteStd(Head(queue).s, Head(queue).text)
  /\ UNCHANGED <<streams, sim, main, ctx, missed>>

-----------------------------------------------------------------------------
SimThread ==
  \/ StreamStep("sim")
  \/ SimGoOn \/ SimBreakpoint \/ SimReported \/ SimFinish \/ SimStop \/ SimExit

MainThread ==
  \/ StreamStep("main")
  \/ BreakpointReturn \/ SwitchShow \/ SwitchMiss
  \/ Join \/ Start

Clicks == Breakpoint \/ (Unraced /\ SwitchClick) \/ ResetClick

\* raced keeps the contexts whose stderr both threads have been in at once.
Watched == raced' = raced \cup {c \in Ctxs : \A t \in Threads : InStderr(t, c)'}

Next == (SimThread \/ SimCycle \/ MainThread \/ BuildError \/ Clicks \/ Deliver) /\ Watched

Spec == Init /\ [][Next]_vars

\* Both threads are scheduled, and the page's event loop runs what has been posted.
Fairness ==
  WF_vars(SimThread /\ Watched) /\ WF_vars(MainThread /\ Watched) /\ SF_vars(Deliver /\ Watched)

FairSpec == Spec /\ Fairness

-----------------------------------------------------------------------------
(* Properties *)

Calls == [op : {"put", "sync"}, s : Streams, kind : Kinds]

\* The characters in a stream are places of what has been written to it.
Places(s) == 1 .. Len(written[s])

TypeOK ==
  /\ written \in [Streams -> Seq(Kinds)]
  /\ pptr \in [Streams -> 0 .. BufferSize + 1]   \* the array has one place to spare
  /\ calls \in [Threads -> Seq(Calls)]
  /\ taken \in [Threads -> 0 .. BufferSize + 1]
  /\ buf \in [Streams -> Seq(Nat)] /\ arrived \in [Streams -> Seq(Nat)]
  /\ queue \in Seq([s : Streams, text : Seq(Nat)])
  /\ \A s \in Streams : buf[s] \in Seq(Places(s)) /\ arrived[s] \in Seq(Places(s))
  /\ \A i \in 1 .. Len(queue) : queue[i].text \in Seq(Places(queue[i].s))
  /\ sim \in SimPc /\ main \in MainPc
  /\ ctx \in Ctxs /\ pane \in [Sinks -> Seq(Nat)] /\ missed \in BOOLEAN
  /\ raced \subseteq Ctxs

\* What has been written to a stream and is not lost, in the order in which the page gets it.
Posted(s) == FlattenSeq([i \in 1 .. Len(queue) |-> IF queue[i].s = s THEN queue[i].text ELSE <<>>])
BeingPosted(t, s) ==
  IF taken[t] # 0 /\ Stream(t) = s THEN CString(s, taken[t]) ELSE <<>>
Text(s) ==
  arrived[s] \o Posted(s) \o BeingPosted("sim", s) \o BeingPosted("main", s)
    \o SubSeq(buf[s], 1, pptr[s])

\* The streams of an image are used by one thread at a time, as the comment on
\* simulator_mtx has it: "jointly used by main UI, message handler, and simulator thread"
\* (worker.cpp).  They are not.
OneAtATime == raced = {}

\* The page gets what a program prints, each character once and in order, however buffers
\* fill, images are rebuilt and posts are late.  What follows a NUL in one buffer is cut off.
CutOff(s, i) ==
  \E j \in 1 .. i :
    written[s][j] = "nul" /\ i - j < BufferSize /\ \A k \in j .. i - 1 : written[s][k] # "newline"

StdoutExact ==
  \A c \in Ctxs :
    LET s == <<c, "out">>  text == Text(s)
    IN  /\ \A i, j \in 1 .. Len(text) : i < j => text[i] < text[j]
        /\ \A i \in 1 .. Len(written[s]) : i \in ToSet(text) \/ CutOff(s, i)

\* So it does with messages on stderr, in some order, if the two threads have never been
\* in the stream at once.
StderrComplete ==
  \A c \in Ctxs \ raced :
    LET s == <<c, "err">>  text == Text(s)
    IN  ToSet(text) = 1 .. Len(written[s]) /\ Len(text) = Len(written[s])

\* The panes show the last part of what has arrived of the context they are for; only a
\* change of context that did not get the lock leaves them with a part of each.
PaneIsTail ==
  main # "switch" /\ ~missed => \A k \in Sinks : IsSuffix(pane[k], arrived[<<ctx, k>>])

\* A line that has been printed appears in the end, whether the program goes on or not: as
\* the lines of a behaviour are bounded, again and again there is none still to come.
LinesToCome(s) ==
  {i \in 1 .. Len(written[s]) :
     /\ written[s][i] = "newline" /\ \A j \in 1 .. i : written[s][j] # "nul"
     /\ i \notin ToSet(arrived[s])}

LinesArrive == []<>(\A c \in Talking : LinesToCome(<<c, "out">>) = {})
=============================================================================
