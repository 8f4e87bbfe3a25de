------------------------------- MODULE Frontend -------------------------------
(***************************************************************************)
(* The page (js/execution.js, js/index.js, js/instruction.js) at work on   *)
(* the simulator thread of SimWorker.  The page's event loop is the main   *)
(* thread: a handler runs to its end before the next one starts, and its   *)
(* calls of the interface interleave with the simulator thread.  The page  *)
(* keeps its own idea of the run (playing), of the breakpoints and of what *)
(* the machine looks like, and follows the simulator only by polling its   *)
(* status in animation frames.                                             *)
(*                                                                         *)
(* NextFrameNone, ForgetOne and ForgetNone are not the code but mistakes   *)
(* next to it, which the properties must tell from the code.               *)
(***************************************************************************)
EXTENDS SimWorker

CONSTANT MaxFrames   \* bound on the animation frames requested at once

ASSUME PageAssumption == MaxFrames \in Nat /\ Ctxs # {}

VARIABLES
  handler,          \* the handler that runs, or "none"
  playing,          \* Execution.playing
  disabled,         \* are the step and play buttons disabled?
  frames,           \* pending requestAnimationFrame(Execution.updateUI)
  ctx,              \* Execution.ctx
  listed,           \* InstructionUtils.ctx: whose program is listed
  breakpointAddr,   \* InstructionUtils.breakpointAddr, by context
  bold,             \* the listed lines whose isBreakpoint is set
  line,             \* the line toggleBreakpoint was called for
  shown             \* the registers and the memory on display

runVars == <<playing, disabled, frames>>
codeVars == <<listed, breakpointAddr, bold, line>>
viewVars == <<ctx, shown>>
uiVars == <<handler, runVars, codeVars, viewVars>>
allVars == <<vars, uiVars>>

Handlers == {"none", "init", "load", "context", "step", "pause", "play", "frame", "draw",
             "breakpoint"}

FInit ==
  /\ Init
  /\ handler = "none" /\ playing = FALSE /\ disabled = FALSE /\ frames = 0
  /\ ctx = CHOOSE c \in Ctxs : TRUE
  /\ listed = ctx
  /\ breakpointAddr = [c \in Ctxs |-> {}] /\ bold = {} /\ line \in Lines
  /\ shown = [regs |-> Start[ctx], mem |-> Start[ctx]]

-----------------------------------------------------------------------------
(* Handlers that start with a call of the interface *)

Begin(h, op) == handler = "none" /\ handler' = h /\ Call(op)

\* There is a listing to click on once the first Execution.init is over.
Loaded == simulator_ready

\* The reset button is Execution.init; choosing a file for context c runs main(), which
\* is Execution.init(false, c) and then changeContext(c).
\* It begins with Module.reset(), that is reset() of the worker.
ResetClick(h, c) ==
  /\ Begin(h, "shutdown")
  /\ playing' = FALSE /\ disabled' = FALSE
  /\ ctx' = c
  /\ UNCHANGED <<frames, codeVars, shown>>

\* Both files are written before the first reset, so every context gets an image.
InitReset ==
  /\ handler \in {"init", "load"}
  /\ Shutdown \/ Join \/ (Rebuild /\ ctxs' = Ctxs)
  /\ UNCHANGED uiVars

\* while (!Module.lockSimulator(100));
InitRetry == handler \in {"init", "load"} /\ Call("lockSimulator") /\ UNCHANGED uiVars

\* Execution.step
StepClick ==
  /\ ~disabled /\ frames < MaxFrames
  /\ Begin("step", "step")
  /\ UNCHANGED <<runVars, codeVars, viewVars>>

StepReturn ==
  /\ handler = "step" /\ handler' = "none"
  /\ StepSimulation
  /\ playing' = TRUE /\ frames' = frames + 1
  /\ UNCHANGED <<disabled, codeVars, viewVars>>

\* Execution.togglePlay
ToggleClick ==
  /\ ~disabled /\ frames < MaxFrames
  /\ IF playing THEN Begin("pause", "pause") ELSE Begin("play", "play")
  /\ UNCHANGED <<runVars, codeVars, viewVars>>

PauseReturn ==
  /\ handler = "pause" /\ handler' = "none"
  /\ PauseSimulation
  /\ playing' = FALSE
  /\ UNCHANGED <<disabled, frames, codeVars, viewVars>>

PlayReturn ==
  /\ handler = "play" /\ handler' = "none"
  /\ PlaySimulation
  /\ playing' = TRUE /\ frames' = frames + 1
  /\ UNCHANGED <<disabled, codeVars, viewVars>>

\* Instruction.toggleBreakpoint: flip the line, tell the simulator, keep the address.
LineClick(a) ==
  /\ Loaded
  /\ Begin("breakpoint", IF a \in bold THEN "delete" ELSE "add")
  /\ line' = a
  /\ bold' = (bold \cup {a}) \ (bold \cap {a})
  /\ UNCHANGED <<runVars, viewVars, listed, breakpointAddr>>

LineReturn ==
  /\ handler = "breakpoint" /\ handler' = "none"
  /\ LET bps == bkpt_map[listed]
         mine == breakpointAddr[listed]
     IN  \/ /\ SetBreakpoints("add", listed, bps \cup {line})
            /\ breakpointAddr' = [breakpointAddr EXCEPT ![listed] = mine \cup {line}]
         \/ /\ SetBreakpoints("delete", listed, bps \ {line})
            /\ breakpointAddr' = [breakpointAddr EXCEPT ![listed] = mine \ {line}]
  /\ UNCHANGED <<runVars, viewVars, listed, bold, line>>

\* The speed slider: Module.setDelay.
SliderMove == handler = "none" /\ SetSpeed /\ UNCHANGED uiVars

\* changeContext: the context changes at once, the rest only if the lock is got.
ContextClick(c) ==
  /\ Loaded
  /\ Begin("context", "lockSimulator")
  /\ ctx' = c
  /\ UNCHANGED <<runVars, codeVars, shown>>

-----------------------------------------------------------------------------
(* Animation frames: updateUI, forceUpdateUI, processStatus *)

\* A frame that finds playing unset ends the chain of frames it belongs to.
FrameIdle ==
  /\ handler = "none" /\ frames > 0 /\ ~playing
  /\ frames' = frames - 1
  /\ UNCHANGED <<vars, handler, playing, disabled, codeVars, viewVars>>

FramePoll ==
  /\ handler = "none" /\ frames > 0 /\ playing
  /\ handler' = "frame" /\ frames' = frames - 1
  /\ ReadStatus
  /\ UNCHANGED <<playing, disabled, codeVars, viewVars>>

\* At its end updateUI asks for the next frame if playing is still set.
NextFrameNone(p) == UNCHANGED frames

NextFrame(p) == frames' = frames + IF p THEN 1 ELSE 0

Stops(s) == s \in {FINISHED_RUNNING, SIMULATOR_WAITING, BREAKPOINT_ENCOUNTERED}

FrameStatus ==
  /\ handler = "frame"
  /\ ClearStatus
  /\ playing' = (playing /\ ~Stops(status_to_return))
  /\ disabled' = (disabled \/ status_to_return = FINISHED_RUNNING)
  /\ IF status_to_return = NO_CHANGE
     THEN handler' = "none" /\ NextFrame(playing')
     ELSE handler' = "draw" /\ UNCHANGED frames
  /\ UNCHANGED <<codeVars, viewVars>>

FrameLock ==
  /\ handler = "draw" /\ Call("lockSimulator")
  /\ UNCHANGED uiVars

-----------------------------------------------------------------------------
(* Reading the machine between lockSimulator and unlockSimulator.  The     *)
(* registers are read first and the memory last; each read stands for all  *)
(* the getters of its kind, and the PC for all that a cycle changes.       *)

ReadFirst ==
  /\ handler \in {"init", "load", "context", "draw"}
  /\ LockSimulator
  /\ shown' = [shown EXCEPT !.regs = PC[ctx]]
  /\ UNCHANGED <<handler, runVars, codeVars, ctx>>

\* InstructionUtils.init forgets all breakpoints, InstructionUtils.update restores those
\* of its context, and a frame leaves the listing alone.
ForgetOne == breakpointAddr' = [c \in {ctx} |-> {}] /\ bold' = {} /\ listed' = ctx

ForgetNone == UNCHANGED breakpointAddr /\ bold' = {} /\ listed' = ctx

Forget == breakpointAddr' = [c \in Ctxs |-> {}] /\ bold' = {} /\ listed' = ctx

Restore == bold' = breakpointAddr[ctx] /\ listed' = ctx /\ UNCHANGED breakpointAddr

ReadLast ==
  /\ UnlockSimulator
  /\ shown' = [shown EXCEPT !.mem = PC[ctx]]
  /\ \/ handler = "init" /\ handler' = "none" /\ Forget /\ UNCHANGED frames
     \/ handler = "load" /\ handler' = "context" /\ Forget /\ UNCHANGED frames
     \/ handler = "context" /\ handler' = "none" /\ Restore /\ UNCHANGED frames
     \/ /\ handler = "draw" /\ handler' = "none" /\ NextFrame(playing)
        /\ UNCHANGED <<breakpointAddr, bold, listed>>
  /\ UNCHANGED <<playing, disabled, line, ctx>>

\* main() goes on from Execution.init to changeContext.
LoadContext ==
  /\ handler = "context" /\ Call("lockSimulator")
  /\ UNCHANGED uiVars

\* The lock was not got in time: init tries again, the others do without.
GiveUp ==
  /\ LockTimeout
  /\ handler' = IF handler \in {"init", "load"} THEN handler ELSE "none"
  /\ IF handler = "draw" THEN NextFrame(playing) ELSE UNCHANGED frames
  /\ UNCHANGED <<playing, disabled, codeVars, viewVars>>

-----------------------------------------------------------------------------
Simulator == SimThread /\ UNCHANGED uiVars

Clicks ==
  \/ \E c \in Ctxs : ResetClick("load", c) \/ ContextClick(c)
  \/ ResetClick("init", ctx)
  \/ StepClick \/ ToggleClick \/ SliderMove
  \/ \E a \in Lines : LineClick(a)

\* What a handler does once it has begun, apart from waiting for a mutex.
HandlerSteps ==
  \/ InitReset \/ InitRetry \/ FrameStatus \/ FrameLock \/ LoadContext
  \/ ReadFirst \/ ReadLast \/ GiveUp

HandlerReturns == StepReturn \/ PauseReturn \/ PlayReturn \/ LineReturn

FNext ==
  Simulator \/ Clicks \/ FrameIdle \/ FramePoll \/ HandlerSteps \/ HandlerReturns

FSpec == FInit /\ [][FNext]_allVars

\* The two threads are scheduled, a mutex asked for again and again is got in the end
\* if the call waits for it, and the browser keeps drawing frames.
FFairness ==
  /\ WF_allVars(SimOwn /\ UNCHANGED uiVars)
  /\ SF_allVars(SimLock /\ UNCHANGED uiVars)
  /\ SF_allVars(HandlerReturns \/ InitReset)
  /\ WF_allVars(HandlerSteps)
  /\ WF_allVars(FrameIdle \/ FramePoll)

FairFSpec == FSpec /\ FFairness

-----------------------------------------------------------------------------
(* Properties *)

FTypeOK ==
  /\ handler \in Handlers
  /\ playing \in BOOLEAN /\ disabled \in BOOLEAN
  /\ frames \in 0 .. MaxFrames
  /\ ctx \in Ctxs /\ listed \in Ctxs
  /\ breakpointAddr \in [Ctxs -> SUBSET Lines]
  /\ bold \subseteq Lines /\ line \in Lines
  /\ shown \in [regs : Addr, mem : Addr]

\* The registers and the memory on display are those of one state of the machine, however
\* the simulator runs while they are read.
NoTornDisplay == pc_m # "view" => shown.regs = shown.mem

\* Between handlers the page and the machine agree on the breakpoints: the page never
\* sets one twice, deletes one that is not there, or keeps one over a reset.
BreakpointsAgree ==
  handler = "none" /\ Loaded =>
    /\ breakpointAddr = bkpt_map
    /\ bold = bkpt_map[listed]

\* While the page believes that the program runs it is polling.
PollsWhilePlaying == handler = "none" /\ playing => frames > 0

\* Every handler ends; above all Execution.init, which waits for the old thread and then
\* for the lock in a loop without a limit.
HandlersEnd == handler # "none" ~> handler = "none"
=============================================================================
