------------------------------ MODULE SimWorker ------------------------------
(***************************************************************************)
(* src/spim/worker.cpp: the simulator thread and the control interface     *)
(* that the page's main thread calls.  Two threads share                   *)
(*   - the settings (steps_left, finished), under settings_mtx and its     *)
(*     condition variable steps_left_cv,                                   *)
(*   - the images (ctxs, with their PC and breakpoints), under the timed   *)
(*     mutex simulator_mtx,                                                *)
(*   - status and cycle_delay_usec, under no lock at all.                  *)
(* A step of the model is a stretch of one thread's code that the other    *)
(* thread cannot observe half way: it ends where a lock is taken or given  *)
(* back, or where an unlocked variable is written.                         *)
(*                                                                         *)
(* The programs are abstract: an image is its PC, Flow gives the addresses *)
(* that an instruction may continue at and Exits the instructions at which *)
(* spim_step may return false.                                             *)
(*                                                                         *)
(* MayRunOnceWoken, DecrementAlways, DecrementNever, TotalAnew,            *)
(* PauseUncleared, SimKeep, SimLockUnguarded, NotifyNone, JoinAtOnce and   *)
(* SettleFinishedUnmarked are not the code but mistakes next to it (a loop *)
(* that is an if; a test, decrement, addition, unlock, lock, notification, *)
(* join or assignment left out), which the properties must tell from it.   *)
(***************************************************************************)
EXTENDS Integers, FiniteSets

CONSTANTS
  Ctxs,       \* the contexts start_simulator is asked for ({0, 1})
  Addr,       \* addresses of instructions
  Start,      \* starting_address of each context's program
  Flow,       \* Flow[a]: where the instruction at a may continue
  Exits,      \* instructions at which spim_step may return false
  Lines,      \* the addresses at which the user sets breakpoints
  StepSizes,  \* the arguments step() is called with
  Delays,     \* the arguments setDelay() is called with
  MaxSteps    \* bound on steps_left, to keep the model finite

ASSUME ProgramAssumption ==
  /\ Start \in [Ctxs -> Addr]
  /\ Flow \in [Addr -> SUBSET Addr]
  /\ Exits \subseteq Addr
  /\ \A a \in Addr \ Exits : Flow[a] # {}
  /\ Lines \subseteq Addr

ASSUME ControlAssumption ==
  /\ MaxSteps \in Nat
  /\ StepSizes \subseteq Nat
  /\ Delays \subseteq Nat /\ 0 \in Delays

VARIABLES
  settings_mtx, simulator_mtx,   \* who holds the mutex
  status, finished, steps_left, cycle_delay_usec, simulator_ready,
  ctxs,                          \* the contexts that have an image
  PC, bkpt_map,                  \* of each image
  pc_s,                          \* where the simulator thread is
  delay_usec, continue_after_delay, cont_bkpt, result,   \* simulate()'s locals
  pc_m,                          \* the call the main thread is in
  status_to_return               \* get_simulator_status()'s local

locals   == <<delay_usec, continue_after_delay, cont_bkpt, result>>
settings == <<finished, steps_left>>
unlocked == <<status, cycle_delay_usec, simulator_ready>>
images   == <<ctxs, PC, bkpt_map>>
locks    == <<settings_mtx, simulator_mtx>>
shared   == <<settings, unlocked, images, locks>>
mainVars == <<pc_m, status_to_return>>
vars     == <<pc_s, locals, shared, mainVars>>

-----------------------------------------------------------------------------
(* Values *)

BREAKPOINT_ENCOUNTERED == -1
NO_CHANGE == 0
FINISHED_RUNNING == 1
SIMULATOR_WAITING == 2
STEPPED_CYCLE == 3
SimulatorStatusCode == -1 .. 3

Play == -2        \* steps_left without a value: run without a limit (no count can come to it)
NoResult == [finished_ctxs |-> {}, bp_encountered_ctxs |-> {}]

\* Where simulate() is: not started, about to take settings_mtx (start, woken,
\* relock), holding it (top, check, settle, flush), blocked on steps_left_cv
\* (wait, delay), about to take simulator_mtx (lock), holding it (cycle), returned.
HoldsSettings == {"top", "check", "settle", "flush"}
Blocked == {"wait", "delay"}
SimPc == HoldsSettings \cup Blocked
           \cup {"none", "start", "woken", "lock", "cycle", "relock", "exited"}

\* The call of the interface the main thread has entered and not left.
LockCalls == {"step", "play", "pause", "add", "delete", "shutdown"}
MainPc == LockCalls \cup {"idle", "status", "lockSimulator", "view", "join", "rebuild"}

Init ==
  /\ settings_mtx = "none" /\ simulator_mtx = "none"
  /\ status = NO_CHANGE /\ finished = FALSE /\ steps_left = 0
  /\ cycle_delay_usec = 0 /\ simulator_ready = FALSE
  /\ ctxs = {} /\ PC = Start /\ bkpt_map = [c \in Ctxs |-> {}]
  /\ pc_s = "none" /\ delay_usec = 0 /\ continue_after_delay = FALSE
  /\ cont_bkpt = FALSE /\ result = NoResult
  /\ pc_m = "idle" /\ status_to_return = NO_CHANGE

-----------------------------------------------------------------------------
(* The simulator thread: simulate() *)

SimStep(from, to) == pc_s = from /\ pc_s' = to /\ UNCHANGED mainVars

SimAcquire(from, to) ==
  /\ SimStep(from, to)
  /\ settings_mtx = "none" /\ settings_mtx' = "sim" /\ UNCHANGED simulator_mtx

SimKeep(from, to) == SimStep(from, to) /\ UNCHANGED locks

SimRelease(from, to) ==
  /\ SimStep(from, to)
  /\ settings_mtx' = "none" /\ UNCHANGED simulator_mtx

\* The thread starts: unique_lock ul(settings_mtx), cont_bkpt = false.
SimStart ==
  /\ SimAcquire("start", "top")
  /\ cont_bkpt' = FALSE
  /\ UNCHANGED <<delay_usec, continue_after_delay, result, settings, unlocked, images>>

\* Head of the loop: this iteration's delay is the one set now.
SimTop ==
  /\ SimStep("top", "check")
  /\ delay_usec' = cycle_delay_usec /\ continue_after_delay' = FALSE
  /\ UNCHANGED <<cont_bkpt, result, shared>>

\* The loop around the two waits, and the test after it: the thread runs a cycle when
\* it is owed one and the delay, if there is one, is over.
DelayPending == delay_usec # 0 /\ ~continue_after_delay

MayRunOnceWoken == ~finished /\ (continue_after_delay \/ (steps_left # 0 /\ delay_usec = 0))

MayRun == ~finished /\ steps_left # 0 /\ ~DelayPending

\* Nothing to run: report it and wait on steps_left_cv.
SimWait ==
  /\ SimRelease("check", "wait")
  /\ ~finished /\ steps_left = 0
  /\ status' = SIMULATOR_WAITING
  /\ UNCHANGED <<locals, settings, cycle_delay_usec, simulator_ready, images>>

\* Something to run, after the delay: wait_for on the same condition variable.
SimDelay ==
  /\ SimRelease("check", "delay")
  /\ ~finished /\ steps_left # 0 /\ DelayPending
  /\ UNCHANGED <<locals, settings, unlocked, images>>

\* wait_for times out; wait may return with no notification.
SimTimeout  == SimStep("delay", "woken") /\ UNCHANGED <<locals, shared>>
SimSpurious == SimStep("wait", "woken") /\ UNCHANGED <<locals, shared>>

\* Both waits return with settings_mtx held, and the loop condition is read again.
SimReacquire ==
  /\ SimAcquire("woken", "check")
  /\ continue_after_delay' = TRUE
  /\ UNCHANGED <<delay_usec, cont_bkpt, result, settings, unlocked, images>>

\* shutdown() has set finished: leave the loop.
SimStop == SimStep("check", "flush") /\ finished /\ UNCHANGED <<locals, shared>>

\* if (steps_left) steps_left.value()--
DecrementAlways(n) == n - 1
DecrementNever(n) == n

Decrement(n) == IF n = Play THEN Play ELSE n - 1

BeginUntold ==
  /\ SimRelease("check", "lock")
  /\ MayRun
  /\ steps_left' = Decrement(steps_left)
  /\ UNCHANGED <<locals, finished, status, cycle_delay_usec, simulator_ready, images>>

\* Take one step from the budget and let go of the settings.
SimBegin ==
  /\ SimRelease("check", "lock")
  /\ MayRun
  /\ status' = IF status = STEPPED_CYCLE THEN STEPPED_CYCLE ELSE NO_CHANGE
  /\ steps_left' = Decrement(steps_left)
  /\ UNCHANGED <<locals, finished, cycle_delay_usec, simulator_ready, images>>

SimLockUnguarded ==
  /\ SimStep("lock", "cycle")
  /\ simulator_mtx' = "sim"
  /\ UNCHANGED <<locals, settings, unlocked, images, settings_mtx>>

SimLock ==
  /\ SimStep("lock", "cycle")
  /\ simulator_mtx = "none" /\ simulator_mtx' = "sim"
  /\ UNCHANGED <<locals, settings, unlocked, images, settings_mtx>>

\* What step_program may do to an image at address a: its next PC, and whether
\* the program can continue.
StepProgram(a) ==
  {[pc |-> b, cont |-> TRUE] : b \in Flow[a]}
    \cup {[pc |-> a, cont |-> FALSE] : e \in Exits \cap {a}}

\* Every image takes a step; if all can continue and the last cycle did not end at
\* a breakpoint, the images that now stand at a breakpoint are reported.
CycleResult(out) ==
  LET done == {c \in ctxs : ~out[c].cont}
  IN  [finished_ctxs |-> done,
       bp_encountered_ctxs |->
         {c \in ctxs : done = {} /\ ~cont_bkpt /\ out[c].pc \in bkpt_map[c]}]

\* run_spim_cycle_multi_ctx, at the end of which the lock_guard's scope ends.
SimCycle ==
  /\ SimStep("cycle", "relock")
  /\ \E out \in [ctxs -> [pc : Addr, cont : BOOLEAN]] :
       /\ \A c \in ctxs : out[c] \in StepProgram(PC[c])
       /\ PC' = [c \in Ctxs |-> IF c \in ctxs THEN out[c].pc ELSE PC[c]]
       /\ result' = CycleResult(out)
  /\ simulator_mtx' = "none"
  /\ UNCHANGED <<delay_usec, continue_after_delay, cont_bkpt, settings, unlocked,
                 ctxs, bkpt_map, settings_mtx>>

SimRelock ==
  /\ SimAcquire("relock", "settle")
  /\ status' = STEPPED_CYCLE
  /\ cont_bkpt' = FALSE
  /\ UNCHANGED <<delay_usec, continue_after_delay, result, settings,
                 cycle_delay_usec, simulator_ready, images>>

SettleFinishedUnmarked ==
  /\ SimStep("settle", "flush")
  /\ result.finished_ctxs # {}
  /\ status' = FINISHED_RUNNING
  /\ result' = NoResult
  /\ UNCHANGED <<delay_usec, continue_after_delay, cont_bkpt, settings,
                 cycle_delay_usec, simulator_ready, images, locks>>

\* A program ended: so does the thread.
SettleFinished ==
  /\ SimStep("settle", "flush")
  /\ result.finished_ctxs # {}
  /\ finished' = TRUE
  /\ status' = FINISHED_RUNNING
  /\ result' = NoResult
  /\ UNCHANGED <<delay_usec, continue_after_delay, cont_bkpt, steps_left,
                 cycle_delay_usec, simulator_ready, images, locks>>

\* A breakpoint was reached: the budget is dropped.
SettleBreakpoint ==
  /\ SimStep("settle", "top")
  /\ result.finished_ctxs = {} /\ result.bp_encountered_ctxs # {}
  /\ cont_bkpt' = TRUE
  /\ steps_left' = 0
  /\ status' = BREAKPOINT_ENCOUNTERED
  /\ result' = NoResult
  /\ UNCHANGED <<delay_usec, continue_after_delay, finished, cycle_delay_usec,
                 simulator_ready, images, locks>>

SettleContinue ==
  /\ SimStep("settle", "top")
  /\ result = NoResult
  /\ UNCHANGED <<locals, shared>>

\* The print buffers are flushed, the thread returns and ul is destroyed.
SimReturn == SimRelease("flush", "exited") /\ UNCHANGED <<locals, settings, unlocked, images>>

-----------------------------------------------------------------------------
(* The main thread: the calls bound in spim.cpp *)

MainStep(from, to) == pc_m = from /\ pc_m' = to /\ UNCHANGED locals

\* A call that takes a lock is entered first and takes effect when it gets the lock.
\* MaxSteps bounds what step() may add up to.
TotalAnew(n) == n

Total(n) == n + IF steps_left = Play THEN 0 ELSE steps_left

Call(op) ==
  /\ MainStep("idle", op)
  /\ op = "step" => \A n \in StepSizes : Total(n) <= MaxSteps
  /\ UNCHANGED <<pc_s, shared, status_to_return>>

NotifyNone == UNCHANGED pc_s

NotifyAll == pc_s' = IF pc_s \in Blocked THEN "woken" ELSE pc_s

\* The three setters of steps_left: under settings_mtx, with a notification.
SetStepsLeft(op, n) ==
  /\ MainStep(op, "idle")
  /\ settings_mtx = "none"
  /\ steps_left' = n
  /\ NotifyAll
  /\ UNCHANGED <<finished, unlocked, images, locks, status_to_return>>

StepSimulation  == \E n \in StepSizes : SetStepsLeft("step", Total(n))
PlaySimulation  == SetStepsLeft("play", Play)
PauseUncleared  == SetStepsLeft("pause", steps_left)
PauseSimulation == SetStepsLeft("pause", 0)

\* add_breakpoint and delete_breakpoint, for a context with or without an image.
SetBreakpoints(op, c, bps) ==
  /\ MainStep(op, "idle")
  /\ simulator_mtx = "none"
  /\ bkpt_map' = IF c \in ctxs THEN [bkpt_map EXCEPT ![c] = bps] ELSE bkpt_map
  /\ UNCHANGED <<pc_s, settings, unlocked, ctxs, PC, locks, status_to_return>>

AddBreakpoint ==
  \E c \in Ctxs, a \in Lines : SetBreakpoints("add", c, bkpt_map[c] \cup {a})

DeleteBreakpoint ==
  \E c \in Ctxs, a \in Lines : SetBreakpoints("delete", c, bkpt_map[c] \ {a})

\* set_speed takes no lock and notifies nobody.
SetSpeed ==
  /\ MainStep("idle", "idle")
  /\ cycle_delay_usec' \in Delays
  /\ UNCHANGED <<pc_s, settings, status, simulator_ready, images, locks, status_to_return>>

\* get_simulator_status reads status, then clears it, with no lock around the two.
ReadStatus ==
  /\ MainStep("idle", "status")
  /\ status_to_return' = status
  /\ UNCHANGED <<pc_s, shared>>

ClearStatus ==
  /\ MainStep("status", "idle")
  /\ status' = NO_CHANGE
  /\ status_to_return' = NO_CHANGE
  /\ UNCHANGED <<pc_s, settings, cycle_delay_usec, simulator_ready, images, locks>>

\* lockSimulator: refused before the first reset, else a timed wait for simulator_mtx.
LockSimulator ==
  /\ MainStep("lockSimulator", "view")
  /\ simulator_ready
  /\ simulator_mtx = "none" /\ simulator_mtx' = "main"
  /\ UNCHANGED <<pc_s, settings, unlocked, images, settings_mtx, status_to_return>>

LockTimeout ==
  /\ MainStep("lockSimulator", "idle")
  /\ ~simulator_ready \/ simulator_mtx # "none"
  /\ UNCHANGED <<pc_s, shared, status_to_return>>

UnlockSimulator ==
  /\ MainStep("view", "idle")
  /\ simulator_mtx' = "none"
  /\ UNCHANGED <<pc_s, settings, unlocked, images, settings_mtx, status_to_return>>

\* reset(): shutdown() asks the thread to stop and joins it ...
Shutdown ==
  /\ MainStep("shutdown", "join")
  /\ settings_mtx = "none"
  /\ finished' = TRUE
  /\ NotifyAll
  /\ UNCHANGED <<steps_left, unlocked, images, locks, status_to_return>>

JoinAtOnce == MainStep("join", "rebuild") /\ UNCHANGED <<pc_s, shared, status_to_return>>

Join ==
  /\ MainStep("join", "rebuild")
  /\ pc_s \in {"none", "exited"}
  /\ UNCHANGED <<pc_s, shared, status_to_return>>

\* ... then, with no lock, an image is built for every input file there is and a
\* new thread is started.  status keeps its value.
Rebuild ==
  /\ MainStep("rebuild", "idle")
  /\ ctxs' \in SUBSET Ctxs /\ PC' = Start /\ bkpt_map' = [c \in Ctxs |-> {}]
  /\ finished' = FALSE /\ steps_left' = 0
  /\ simulator_ready' = TRUE
  /\ pc_s' = "start"
  /\ UNCHANGED <<status, cycle_delay_usec, locks, status_to_return>>

-----------------------------------------------------------------------------
SimOwn ==
  \/ SimStart \/ SimTop \/ SimWait \/ SimDelay \/ SimTimeout \/ SimReacquire
  \/ SimStop \/ SimBegin \/ SimCycle \/ SimRelock
  \/ SettleFinished \/ SettleBreakpoint \/ SettleContinue \/ SimReturn

SimThread == SimOwn \/ SimLock \/ SimSpurious

\* The calls that are waiting for a mutex they take with no time limit.
MainAcquire ==
  \/ StepSimulation \/ PlaySimulation \/ PauseSimulation
  \/ AddBreakpoint \/ DeleteBreakpoint \/ Shutdown

MainReturn ==
  \/ ClearStatus \/ LockSimulator \/ LockTimeout \/ UnlockSimulator \/ Join \/ Rebuild

MainCall ==
  \/ \E op \in LockCalls \cup {"lockSimulator"} : Call(op)
  \/ SetSpeed \/ ReadStatus

MainThread == MainAcquire \/ MainReturn \/ MainCall

Next == SimThread \/ MainThread

Spec == Init /\ [][Next]_vars

\* The scheduler runs both threads (weak fairness), and a thread that asks for a
\* mutex which is free again and again gets it in the end (strong fairness).  No
\* call need be made, and no wait need return without cause.
Fairness ==
  /\ WF_vars(SimOwn)
  /\ SF_vars(SimLock)
  /\ SF_vars(MainAcquire)
  /\ WF_vars(MainReturn)

FairSpec == Spec /\ Fairness

-----------------------------------------------------------------------------
(* Properties *)

TypeOK ==
  /\ settings_mtx \in {"none", "sim"}
  /\ simulator_mtx \in {"none", "sim", "main"}
  /\ status \in SimulatorStatusCode
  /\ finished \in BOOLEAN
  /\ steps_left \in Nat \cup {Play}
  /\ cycle_delay_usec \in Delays
  /\ simulator_ready \in BOOLEAN
  /\ ctxs \in SUBSET Ctxs
  /\ PC \in [Ctxs -> Addr]
  /\ bkpt_map \in [Ctxs -> SUBSET Lines]
  /\ pc_s \in SimPc
  /\ delay_usec \in Delays
  /\ continue_after_delay \in BOOLEAN
  /\ cont_bkpt \in BOOLEAN
  /\ result \in [finished_ctxs : SUBSET Ctxs, bp_encountered_ctxs : SUBSET Ctxs]
  /\ pc_m \in MainPc
  /\ status_to_return \in SimulatorStatusCode

\* Each mutex is held exactly where the code says, and the simulator thread never
\* holds the two at once: it gives settings_mtx back before it asks for simulator_mtx
\* (worker.cpp:190), which is why neither thread can wait on the other for ever.
LockOwnership ==
  /\ settings_mtx = "sim" <=> pc_s \in HoldsSettings
  /\ simulator_mtx = "sim" <=> pc_s = "cycle"
  /\ simulator_mtx = "main" <=> pc_m = "view"

\* No wakeup is lost: the thread is blocked on steps_left_cv only while there is
\* nothing for it to do, whatever was set between its test and its wait.
NoLostWakeup == pc_s = "wait" => steps_left = 0 /\ ~finished

\* "Since we join if a thread already exists, we dont need to lock" (worker.cpp:68):
\* while reset() rebuilds the images without a lock, no thread is left to use them,
\* nor anybody who holds a mutex.
RebuildAlone ==
  pc_m = "rebuild" =>
    /\ pc_s \in {"none", "exited"}
    /\ settings_mtx = "none" /\ simulator_mtx = "none"

\* The thread leaves its loop for one reason, and the flag that says so stays up until
\* reset() starts another: no command can revive a session that is over.
EndsFinished == pc_s \in {"flush", "exited"} => finished

\* "2 - Not running" (worker.cpp:19) is not said of a machine that runs: the thread that
\* wrote it when it went to wait takes it back before its next cycle (worker.cpp:183),
\* unless the page has read it before; no call of the page brings it up again.  Before
\* that cycle it may be read, although a step or play has come since it was written.
WaitingEndsWithCycle ==
  pc_s \in {"lock", "cycle", "relock", "settle"} => status # SIMULATOR_WAITING

\* What the page reads between lockSimulator and unlockSimulator is one state of the
\* machine: no image is stepped, rebuilt or given a breakpoint meanwhile.
ViewStable == [][pc_m = "view" => UNCHANGED images]_vars

\* Every call of the interface returns: none is left waiting for a mutex or for the
\* join of a thread that nobody woke.
CallReturns == pc_m # "idle" ~> pc_m = "idle"

\* The two threads keep the promise of the step, play, pause and reset buttons: what is
\* left grows only where a step or play of the page takes effect, each cycle that is begun
\* takes one, and pause, reset, breakpoint and end leave none, whatever the simulator
\* thread was doing when they came.  A cycle is under way from the test that finds it owed
\* (worker.cpp:178) to its end; what it came to is settled after settings_mtx is back.
Left == IF finished \/ pc_s = "none" THEN 0 ELSE steps_left

PageCall ==
  CASE pc_m \in {"step", "play", "pause"} -> pc_m
    [] pc_m = "shutdown" -> "reset"
    [] pc_m \in {"join", "rebuild"} -> "closing"
    [] OTHER -> "none"

CycleState ==
  IF pc_s \in {"lock", "cycle"} THEN "running"
  ELSE IF result.finished_ctxs # {} THEN "end"
  ELSE IF result.bp_encountered_ctxs # {} THEN "breakpoint"
  ELSE "none"

Session ==
  INSTANCE PlaySession WITH up <- pc_s # "none" /\ ~finished, call <- PageCall,
                            left <- Left, cycle <- CycleState

ImplementsPlaySession == Session!Spec
=============================================================================
