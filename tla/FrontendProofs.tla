---------------------------- MODULE FrontendProofs ----------------------------
(***************************************************************************)
(* Proofs about SimWorker, for every set of contexts, every program, every *)
(* set of delays and step sizes, and no bound on the steps; and about      *)
(* Frontend, for any number of animation frames: the page drives the       *)
(* simulator only in ways that SimWorker allows, so that what is proved of *)
(* SimWorker holds under the page, and the page's own invariants hold.     *)
(***************************************************************************)
EXTENDS Frontend, TLAPS

-----------------------------------------------------------------------------
(* Types *)

\* The calls of the main thread keep the types.
LEMMA MainKeepsTypes == ASSUME TypeOK, MainThread PROVE TypeOK'
  <1> USE ProgramAssumption, ControlAssumption
  <1> USE DEF TypeOK, SimulatorStatusCode, SimPc, HoldsSettings, Blocked, MainPc, LockCalls, Play,
        MainStep, locals, settings, unlocked, images, locks, shared, NO_CHANGE
  <1>1. CASE \E op \in LockCalls \cup {"lockSimulator"} : Call(op)
    BY <1>1 DEF Call
  <1>2. CASE SetSpeed
    BY <1>2 DEF SetSpeed
  <1>3. CASE ReadStatus
    BY <1>3 DEF ReadStatus
  <1>4. CASE StepSimulation
    BY <1>4 DEF StepSimulation, SetStepsLeft, Total, NotifyAll
  <1>5. CASE PlaySimulation
    BY <1>5 DEF PlaySimulation, SetStepsLeft, NotifyAll
  <1>6. CASE PauseSimulation
    BY <1>6 DEF PauseSimulation, SetStepsLeft, NotifyAll
  <1>7. CASE AddBreakpoint
    BY <1>7 DEF AddBreakpoint, SetBreakpoints
  <1>8. CASE DeleteBreakpoint
    BY <1>8 DEF DeleteBreakpoint, SetBreakpoints
  <1>9. CASE Shutdown
    BY <1>9 DEF Shutdown, NotifyAll
  <1>10. CASE ClearStatus
    BY <1>10 DEF ClearStatus
  <1>11. CASE LockSimulator
    BY <1>11 DEF LockSimulator
  <1>12. CASE LockTimeout
    BY <1>12 DEF LockTimeout
  <1>13. CASE UnlockSimulator
    BY <1>13 DEF UnlockSimulator
  <1>14. CASE Join
    BY <1>14 DEF Join
  <1>15. CASE Rebuild
    BY <1>15 DEF Rebuild
  <1> QED
    BY <1>1, <1>2, <1>3, <1>4, <1>5, <1>6, <1>7, <1>8, <1>9, <1>10, <1>11, <1>12,
       <1>13, <1>14, <1>15 DEF MainThread, MainAcquire, MainReturn, MainCall

\* One cycle of the machine gives every image a program counter and reports contexts.
LEMMA CycleKeepsTypes == ASSUME TypeOK, SimCycle PROVE TypeOK'
  <1>1. PICK out \in [ctxs -> [pc : Addr, cont : BOOLEAN]] :
          /\ PC' = [c \in Ctxs |-> IF c \in ctxs THEN out[c].pc ELSE PC[c]]
          /\ result' = CycleResult(out)
    BY DEF SimCycle
  <1>2. PC' \in [Ctxs -> Addr]
    BY <1>1 DEF TypeOK
  <1>3. result' \in [finished_ctxs : SUBSET Ctxs, bp_encountered_ctxs : SUBSET Ctxs]
    BY <1>1 DEF TypeOK, CycleResult
  <1> QED
    BY <1>2, <1>3 DEF TypeOK, SimCycle, SimStep, SimPc, HoldsSettings, Blocked, settings, unlocked, mainVars

\* So do the steps of the simulator thread.
LEMMA SimKeepsTypes == ASSUME TypeOK, SimThread PROVE TypeOK'
  <1> USE ProgramAssumption, ControlAssumption
  <1> USE DEF TypeOK, SimPc, HoldsSettings, Blocked, SimStep, SimAcquire, SimRelease,
        mainVars, locals, settings, unlocked, images, locks, shared
  <1> USE DEF SimulatorStatusCode, NO_CHANGE, FINISHED_RUNNING, SIMULATOR_WAITING,
        STEPPED_CYCLE, BREAKPOINT_ENCOUNTERED, Play
  <1>1. CASE SimStart BY <1>1 DEF SimStart
  <1>2. CASE SimTop BY <1>2 DEF SimTop
  <1>3. CASE SimWait BY <1>3 DEF SimWait
  <1>4. CASE SimDelay BY <1>4 DEF SimDelay
  <1>5. CASE SimTimeout BY <1>5 DEF SimTimeout
  <1>6. CASE SimReacquire BY <1>6 DEF SimReacquire
  <1>7. CASE SimStop BY <1>7 DEF SimStop
  <1>8. CASE SimBegin
    <2>1. Decrement(steps_left) \in Nat \cup {Play}
      BY <1>8 DEF SimBegin, MayRun, Decrement
    <2> QED
      BY <1>8, <2>1 DEF SimBegin
  <1>9. CASE SimCycle BY <1>9, CycleKeepsTypes
  <1>10. CASE SimRelock
    <2>1. status' = 3 /\ cont_bkpt' = FALSE
      BY <1>10 DEF SimRelock
    <2>2. status' \in SimulatorStatusCode
      BY <2>1
    <2> QED
      BY <1>10, <2>1, <2>2 DEF SimRelock
  <1>11. CASE SettleFinished BY <1>11 DEF SettleFinished, NoResult
  <1>12. CASE SettleBreakpoint BY <1>12 DEF SettleBreakpoint, NoResult
  <1>13. CASE SettleContinue BY <1>13 DEF SettleContinue
  <1>14. CASE SimReturn BY <1>14 DEF SimReturn
  <1>15. CASE SimLock BY <1>15 DEF SimLock
  <1>16. CASE SimSpurious BY <1>16 DEF SimSpurious
  <1> QED
    BY <1>1, <1>2, <1>3, <1>4, <1>5, <1>6, <1>7, <1>8, <1>9, <1>10, <1>11, <1>12,
       <1>13, <1>14, <1>15, <1>16 DEF SimThread, SimOwn

\* The initial states are well typed, and every step keeps the types.
LEMMA TypesInductive ==
  /\ Init => TypeOK
  /\ TypeOK /\ [Next]_vars => TypeOK'
  <1>1. Init => TypeOK
    <2> SUFFICES ASSUME Init PROVE TypeOK
      OBVIOUS
    <2>1. PC \in [Ctxs -> Addr] /\ bkpt_map \in [Ctxs -> SUBSET Lines]
      BY ProgramAssumption DEF Init
    <2>2. cycle_delay_usec \in Delays /\ delay_usec \in Delays /\ steps_left \in Nat \cup {Play}
      BY ControlAssumption DEF Init
    <2>3. status \in SimulatorStatusCode /\ status_to_return \in SimulatorStatusCode
      BY DEF Init, SimulatorStatusCode, NO_CHANGE
    <2>4. result \in [finished_ctxs : SUBSET Ctxs, bp_encountered_ctxs : SUBSET Ctxs]
      BY DEF Init, NoResult
    <2> QED
      BY <2>1, <2>2, <2>3, <2>4 DEF Init, TypeOK, SimPc, MainPc
  <1>2. TypeOK /\ [Next]_vars => TypeOK'
    <2> SUFFICES ASSUME TypeOK, [Next]_vars PROVE TypeOK'
      OBVIOUS
    <2>1. CASE SimThread BY <2>1, SimKeepsTypes
    <2>2. CASE MainThread BY <2>2, MainKeepsTypes
    <2>3. CASE UNCHANGED vars
      BY <2>3 DEF vars, TypeOK, mainVars, locals, settings, unlocked, images, locks, shared
    <2> QED
      BY <2>1, <2>2, <2>3 DEF Next
  <1> QED
    BY <1>1, <1>2

\* Every state of the specification is well typed.
THEOREM TypeCorrect == Spec => []TypeOK
  BY TypesInductive, PTL DEF Spec

-----------------------------------------------------------------------------
(* Mutexes, the condition variable and the rebuilding of the images *)

\* The part of the inductive invariant that is about control.
Control ==
  LockOwnership /\ NoLostWakeup /\ RebuildAlone /\ EndsFinished /\ WaitingEndsWithCycle

LEMMA MainKeepsControl == ASSUME TypeOK, Control, MainThread PROVE Control'
  <1> USE DEF TypeOK, Control, LockOwnership, NoLostWakeup, RebuildAlone, EndsFinished,
        WaitingEndsWithCycle, NO_CHANGE, SIMULATOR_WAITING, HoldsSettings, MainStep,
        settings, unlocked, locks, shared
  <1>1. CASE \E op \in LockCalls \cup {"lockSimulator"} : Call(op)
    BY <1>1 DEF Call, LockCalls
  <1>2. CASE SetSpeed
    BY <1>2 DEF SetSpeed
  <1>3. CASE ReadStatus
    BY <1>3 DEF ReadStatus
  <1>4. ASSUME NEW op \in {"step", "play", "pause"}, NEW n, SetStepsLeft(op, n)
        PROVE Control'
    BY <1>4 DEF SetStepsLeft, NotifyAll, Blocked
  <1>5. CASE StepSimulation
    BY <1>4, <1>5 DEF StepSimulation
  <1>6. CASE PlaySimulation
    BY <1>4, <1>6 DEF PlaySimulation
  <1>7. CASE PauseSimulation
    BY <1>4, <1>7 DEF PauseSimulation
  <1>8. CASE AddBreakpoint \/ DeleteBreakpoint
    BY <1>8 DEF AddBreakpoint, DeleteBreakpoint, SetBreakpoints
  <1>9. CASE Shutdown
    BY <1>9 DEF Shutdown, NotifyAll, Blocked
  <1>10. CASE ClearStatus
    BY <1>10 DEF ClearStatus
  <1>11. CASE LockSimulator
    BY <1>11 DEF LockSimulator
  <1>12. CASE LockTimeout
    BY <1>12 DEF LockTimeout
  <1>13. CASE UnlockSimulator
    BY <1>13 DEF UnlockSimulator
  <1>14. CASE Join
    BY <1>14 DEF Join
  <1>15. CASE Rebuild
    BY <1>15 DEF Rebuild
  <1> QED
    BY <1>1, <1>2, <1>3, <1>5, <1>6, <1>7, <1>8, <1>9, <1>10, <1>11, <1>12,
       <1>13, <1>14, <1>15 DEF MainThread, MainAcquire, MainReturn, MainCall

\* The simulator thread cannot move while it has been joined, takes a mutex only when
\* it is free, and blocks only with nothing to do.
LEMMA SimKeepsControl == ASSUME TypeOK, Control, SimThread PROVE Control'
  <1> USE DEF TypeOK, Control, LockOwnership, NoLostWakeup, RebuildAlone, EndsFinished,
        WaitingEndsWithCycle, NO_CHANGE, SIMULATOR_WAITING, STEPPED_CYCLE, HoldsSettings,
        SimStep, SimAcquire, SimRelease, settings, unlocked, locks, shared, mainVars,
        FINISHED_RUNNING, BREAKPOINT_ENCOUNTERED
  <1>1. CASE SimStart BY <1>1 DEF SimStart
  <1>2. CASE SimTop BY <1>2 DEF SimTop
  <1>3. CASE SimWait BY <1>3 DEF SimWait
  <1>4. CASE SimDelay BY <1>4 DEF SimDelay
  <1>5. CASE SimTimeout BY <1>5 DEF SimTimeout
  <1>6. CASE SimReacquire BY <1>6 DEF SimReacquire
  <1>7. CASE SimStop BY <1>7 DEF SimStop
  <1>8. CASE SimBegin BY <1>8 DEF SimBegin
  <1>9. CASE SimCycle BY <1>9 DEF SimCycle
  <1>10. CASE SimRelock BY <1>10 DEF SimRelock
  <1>11. CASE SettleFinished BY <1>11 DEF SettleFinished
  <1>12. CASE SettleBreakpoint BY <1>12 DEF SettleBreakpoint
  <1>13. CASE SettleContinue BY <1>13 DEF SettleContinue
  <1>14. CASE SimReturn BY <1>14 DEF SimReturn
  <1>15. CASE SimLock BY <1>15 DEF SimLock
  <1>16. CASE SimSpurious BY <1>16 DEF SimSpurious
  <1> QED
    BY <1>1, <1>2, <1>3, <1>4, <1>5, <1>6, <1>7, <1>8, <1>9, <1>10, <1>11, <1>12,
       <1>13, <1>14, <1>15, <1>16 DEF SimThread, SimOwn

LEMMA ControlInductive ==
  /\ Init => Control
  /\ TypeOK /\ Control /\ [Next]_vars => Control'
  <1>1. Init => Control
    BY DEF Init, Control, LockOwnership, NoLostWakeup, RebuildAlone, EndsFinished,
           WaitingEndsWithCycle, HoldsSettings
  <1>2. ASSUME TypeOK, Control, [Next]_vars PROVE Control'
    <2>1. CASE SimThread BY <1>2, <2>1, SimKeepsControl
    <2>2. CASE MainThread BY <1>2, <2>2, MainKeepsControl
    <2>3. CASE UNCHANGED vars
      BY <1>2, <2>3 DEF vars, Control, LockOwnership, NoLostWakeup, RebuildAlone,
         EndsFinished, WaitingEndsWithCycle, mainVars, settings, unlocked, locks, shared
    <2> QED
      BY <1>2, <2>1, <2>2, <2>3 DEF Next
  <1> QED
    BY <1>1, <1>2

\* All the invariants the runs check hold of every reachable state.
THEOREM Safety == Spec => [](TypeOK /\ Control)
  <1>1. Spec => []TypeOK
    BY TypeCorrect
  <1>2. Spec /\ []TypeOK => []Control
    BY ControlInductive, PTL DEF Spec
  <1> QED
    BY <1>1, <1>2, PTL

\* No wakeup of the simulator thread is ever lost.
THEOREM NoWakeupLost == Spec => []NoLostWakeup
  <1>1. TypeOK /\ Control => NoLostWakeup
    BY DEF Control
  <1> QED
    BY <1>1, Safety, PTL

\* The mutexes exclude, and are held exactly where the code says.
THEOREM MutexesHeldAsCoded == Spec => []LockOwnership
  <1>1. TypeOK /\ Control => LockOwnership
    BY DEF Control
  <1> QED
    BY <1>1, Safety, PTL

\* reset() may do without locks.
THEOREM RebuildNeedsNoLock == Spec => []RebuildAlone
  <1>1. TypeOK /\ Control => RebuildAlone
    BY DEF Control
  <1> QED
    BY <1>1, Safety, PTL

\* The thread ends only when it is to: finished is set from then until the next reset().
THEOREM EndsOnlyFinished == Spec => []EndsFinished
  <1>1. TypeOK /\ Control => EndsFinished
    BY DEF Control
  <1> QED
    BY <1>1, Safety, PTL

\* The status never says "not running" from the beginning of a cycle until its result is
\* settled: worker.cpp:183 takes it back, and no call of the page writes it.
THEOREM NoCycleUnderWaiting == Spec => []WaitingEndsWithCycle
  <1>1. TypeOK /\ Control => WaitingEndsWithCycle
    BY DEF Control
  <1> QED
    BY <1>1, Safety, PTL

\* While the page holds simulator_mtx, no image changes under it.
THEOREM ViewIsStable == Spec => ViewStable
  <1>1. ASSUME Control, [Next]_vars, pc_m = "view" PROVE UNCHANGED images
    <2> USE <1>1 DEF Control, LockOwnership
    <2>1. ~SimCycle
      BY DEF SimCycle, SimStep
    <2>2. CASE SimThread
      BY <2>1, <2>2 DEF SimThread, SimOwn, SimStart, SimTop, SimWait, SimDelay, SimTimeout,
         SimReacquire, SimStop, SimBegin, SimRelock, SettleFinished, SettleBreakpoint,
         SettleContinue, SimReturn, SimLock, SimSpurious, shared, images
    <2>3. CASE MainThread
      <3>1. UnlockSimulator
        BY <2>3 DEF MainThread, MainAcquire, MainReturn, MainCall, MainStep, Call, SetSpeed,
           ReadStatus, StepSimulation, PlaySimulation, PauseSimulation, SetStepsLeft,
           AddBreakpoint, DeleteBreakpoint, SetBreakpoints, Shutdown, ClearStatus,
           LockSimulator, LockTimeout, Join, Rebuild
      <3> QED
        BY <3>1 DEF UnlockSimulator
    <2>4. CASE UNCHANGED vars
      BY <2>4 DEF vars, shared, images
    <2> QED
      BY <2>2, <2>3, <2>4 DEF Next
  <1>2. TypeOK /\ Control /\ [Next]_vars => [pc_m = "view" => UNCHANGED images]_vars
    BY <1>1
  <1> QED
    BY <1>2, Safety, PTL DEF Spec, ViewStable

-----------------------------------------------------------------------------
(* The two threads implement the session the buttons promise *)

\* A result is pending only from the end of a cycle to the test of it.
ResultInPlace == pc_s \notin {"relock", "settle"} => result = NoResult

LEMMA ResultInductive ==
  /\ Init => ResultInPlace
  /\ Control /\ ResultInPlace /\ [Next]_vars => ResultInPlace'
  <1>1. Init => ResultInPlace
    BY DEF Init, ResultInPlace
  <1>2. ASSUME Control, ResultInPlace, [Next]_vars PROVE ResultInPlace'
    <2> USE <1>2 DEF ResultInPlace, locals
    <2>1. CASE SimThread
      BY <2>1 DEF SimThread, SimOwn, SimStart, SimTop, SimWait, SimDelay, SimTimeout,
         SimReacquire, SimStop, SimBegin, SimCycle, SimRelock, SettleFinished,
         SettleBreakpoint, SettleContinue, SimReturn, SimLock, SimSpurious, SimStep,
         SimAcquire, SimRelease
    <2>2. CASE MainThread
      <3>1. UNCHANGED locals /\ (pc_s' = pc_s \/ pc_s' \in {"woken", "start"})
        BY <2>2 DEF MainThread, MainAcquire, MainReturn, MainCall, MainStep, Call, SetSpeed,
           ReadStatus, StepSimulation, PlaySimulation, PauseSimulation, SetStepsLeft,
           NotifyAll, AddBreakpoint, DeleteBreakpoint, SetBreakpoints, Shutdown,
           ClearStatus, LockSimulator, LockTimeout, UnlockSimulator, Join, Rebuild
      <3>2. pc_s \notin {"relock", "settle"} \/ pc_s' = pc_s
        BY <2>2, <3>1 DEF MainThread, MainAcquire, MainReturn, MainCall, MainStep, Call, SetSpeed,
           ReadStatus, StepSimulation, PlaySimulation, PauseSimulation, SetStepsLeft,
           NotifyAll, Blocked, AddBreakpoint, DeleteBreakpoint, SetBreakpoints, Shutdown,
           ClearStatus, LockSimulator, LockTimeout, UnlockSimulator, Join, Rebuild,
           Control, RebuildAlone
      <3> QED
        BY <3>1, <3>2
    <2>3. CASE UNCHANGED vars
      BY <2>3 DEF vars
    <2> QED
      BY <2>1, <2>2, <2>3 DEF Next
  <1> QED
    BY <1>1, <1>2

\* A call takes effect on the session where it takes effect on steps_left and finished.
LEMMA MainStepsSession ==
  ASSUME Control, ResultInPlace, MainThread PROVE [Session!Next]_(Session!vars)
  <1> DEFINE up == pc_s # "none" /\ ~finished
  <1>0. MainThread => UNCHANGED locals
    BY DEF MainThread, MainAcquire, MainReturn, MainCall, MainStep, Call, SetSpeed,
       ReadStatus, StepSimulation, PlaySimulation, PauseSimulation, SetStepsLeft,
       AddBreakpoint, DeleteBreakpoint, SetBreakpoints, Shutdown,
       ClearStatus, LockSimulator, LockTimeout, UnlockSimulator, Join, Rebuild
  <1>1. UNCHANGED result
    BY <1>0 DEF locals
  <1>2. ASSUME NotifyAll \/ UNCHANGED pc_s
        PROVE UNCHANGED CycleState /\ (pc_s' = "none" <=> pc_s = "none")
    BY <1>1, <1>2 DEF NotifyAll, Blocked, CycleState
  <1>3. ASSUME UNCHANGED <<pc_s, settings, PageCall>> PROVE UNCHANGED Session!vars
    <2>1. UNCHANGED CycleState /\ UNCHANGED Left /\ UNCHANGED up
      BY <1>2, <1>3 DEF Left, settings
    <2> QED
      BY <1>3, <2>1 DEF Session!vars
  <1>4. ASSUME NEW op \in {"step", "play", "pause"}, NEW n, SetStepsLeft(op, n)
        PROVE /\ Session!Answer(op)
              /\ Left' = IF up THEN n ELSE Left
    <2>1. UNCHANGED CycleState /\ (pc_s' = "none" <=> pc_s = "none")
      BY <1>2, <1>4 DEF SetStepsLeft
    <2>2. pc_m = op /\ pc_m' = "idle" /\ UNCHANGED finished /\ steps_left' = n
      BY <1>4 DEF SetStepsLeft, MainStep
    <2>3. PageCall = op /\ PageCall' = "none"
      BY <2>2 DEF PageCall
    <2> QED
      BY <2>1, <2>2, <2>3 DEF Session!Answer, Left
  <1>5. CASE StepSimulation
    <2>1. PICK n \in StepSizes : SetStepsLeft("step", Total(n))
      BY <1>5 DEF StepSimulation
    <2>2. up => Total(n) = n + IF Left = Play THEN 0 ELSE Left
      BY DEF Total, Left
    <2> QED
      BY <1>4, <2>1, <2>2 DEF Session!Step, Session!Respond, Session!Next
  <1>6. CASE PlaySimulation
    BY <1>4, <1>6 DEF PlaySimulation, Session!RunFree, Session!Respond, Session!Next
  <1>7. CASE PauseSimulation
    <2>1. ~up => Left = 0
      BY DEF Left
    <2> QED
      BY <1>4, <1>7, <2>1 DEF PauseSimulation, Session!Pause, Session!Respond, Session!Next
  <1>8. CASE Shutdown
    <2>1. UNCHANGED CycleState /\ finished' = TRUE /\ Left' = 0
      BY <1>2, <1>8 DEF Shutdown, Left
    <2>2. PageCall = "reset" /\ PageCall' = "closing"
      BY <1>8 DEF Shutdown, MainStep, PageCall
    <2> QED
      BY <2>1, <2>2 DEF Session!Close, Session!Respond, Session!Next
  <1>9. CASE Rebuild
    <2>1. CycleState = "none" /\ CycleState' = "none"
      BY <1>1, <1>9 DEF Rebuild, MainStep, Control, RebuildAlone, ResultInPlace, NoResult,
         CycleState
    <2>2. PageCall = "closing" /\ PageCall' = "none"
      BY <1>9 DEF Rebuild, MainStep, PageCall
    <2>3. up' /\ Left = 0 /\ Left' = 0
      BY <1>9 DEF Rebuild, MainStep, Left, Control, RebuildAlone, EndsFinished
    <2> QED
      BY <2>1, <2>2, <2>3 DEF Session!Open, Session!Respond, Session!Next
  <1>10. ASSUME NEW op \in LockCalls \cup {"lockSimulator"}, Call(op)
         PROVE [Session!Next]_(Session!vars)
    <2>1. pc_m = "idle" /\ pc_m' = op /\ UNCHANGED <<pc_s, settings>>
      BY <1>10 DEF Call, MainStep, shared
    <2>2. UNCHANGED CycleState /\ UNCHANGED Left /\ UNCHANGED up
      BY <1>2, <2>1 DEF Left, settings
    <2>3. PageCall = "none" /\ PageCall' \in Session!Calls \cup {"none"}
      BY <2>1 DEF PageCall, LockCalls, Session!Calls
    <2>4. CASE PageCall' = "none"
      BY <2>2, <2>3, <2>4 DEF Session!vars
    <2>5. CASE PageCall' \in Session!Calls
      BY <2>2, <2>3, <2>5 DEF Session!Ask, Session!Next
    <2> QED
      BY <2>3, <2>4, <2>5
  <1>11. CASE AddBreakpoint \/ DeleteBreakpoint \/ SetSpeed \/ ReadStatus
    BY <1>3, <1>11 DEF AddBreakpoint, DeleteBreakpoint, SetBreakpoints, SetSpeed, ReadStatus,
       MainStep, PageCall, shared
  <1>12. CASE ClearStatus \/ LockSimulator \/ LockTimeout \/ UnlockSimulator \/ Join
    BY <1>3, <1>12 DEF ClearStatus, LockSimulator, LockTimeout, UnlockSimulator, Join,
       MainStep, PageCall, shared
  <1> QED
    BY <1>5, <1>6, <1>7, <1>8, <1>9, <1>10, <1>11, <1>12 DEF MainThread, MainAcquire,
       MainReturn, MainCall

\* A cycle is begun where the thread takes a step from steps_left, and what it came to
\* takes the rest: nothing else that the thread does touches the session.
LEMMA SimStepsSession ==
  ASSUME Control, ResultInPlace, SimThread PROVE [Session!Next]_(Session!vars)
  <1> USE DEF SimStep, SimAcquire, SimRelease, mainVars, settings, shared, Left, CycleState,
        Control, EndsFinished, HoldsSettings
  <1>0. UNCHANGED PageCall
    BY DEF SimThread, SimOwn, SimStart, SimTop, SimWait, SimDelay, SimTimeout,
       SimReacquire, SimStop, SimBegin, SimCycle, SimRelock, SettleFinished,
       SettleBreakpoint, SettleContinue, SimReturn, SimLock, SimSpurious, PageCall
  <1>1. CASE SimBegin
    <2>1. result = NoResult
      BY <1>1 DEF SimBegin, ResultInPlace
    <2> QED
      BY <1>0, <1>1, <2>1 DEF SimBegin, MayRun, Decrement, NoResult, Session!Begin,
         Session!Work, Session!Next
  <1>2. CASE SimCycle
    <2>1. CycleState = "running" /\ CycleState' \in {"none", "breakpoint", "end"}
      BY <1>2 DEF SimCycle
    <2> QED
      BY <1>0, <1>2, <2>1 DEF SimCycle, Session!Finish, Session!Work, Session!Next
  <1>3. CASE SettleFinished
    <2>1. CycleState = "end" /\ CycleState' = "none"
      BY <1>3 DEF SettleFinished, NoResult
    <2> QED
      BY <1>0, <1>3, <2>1 DEF SettleFinished, Session!End, Session!Work, Session!Next
  <1>4. CASE SettleBreakpoint
    <2>1. CycleState = "breakpoint" /\ CycleState' = "none"
      BY <1>4 DEF SettleBreakpoint, NoResult
    <2> QED
      BY <1>0, <1>4, <2>1 DEF SettleBreakpoint, Session!Break, Session!Work, Session!Next
  <1>5. CASE SimStart \/ SimTop \/ SimWait \/ SimDelay \/ SimTimeout \/ SimReacquire
    BY <1>0, <1>5 DEF SimStart, SimTop, SimWait, SimDelay, SimTimeout, SimReacquire, locals,
       Session!vars
  <1>6. CASE SimStop \/ SimRelock \/ SettleContinue \/ SimReturn \/ SimLock \/ SimSpurious
    BY <1>0, <1>6 DEF SimStop, SimRelock, SettleContinue, SimReturn, SimLock, SimSpurious,
       locals, Session!vars
  <1> QED
    BY <1>1, <1>2, <1>3, <1>4, <1>5, <1>6 DEF SimThread, SimOwn

\* The safety part of ImplementsPlaySession: cycles are begun only while some are left, what
\* is left grows only where a step or play of the page takes effect, and each cycle takes one.
THEOREM ImplementsSession == Spec => Session!Init /\ [][Session!Next]_(Session!vars)
  <1>1. Init => Session!Init
    BY DEF Init, Session!Init, Left, PageCall, CycleState, NoResult
  <1>2. Spec => []ResultInPlace
    BY ResultInductive, Safety, PTL DEF Spec
  <1>3. ASSUME Control, ResultInPlace, [Next]_vars
        PROVE [Session!Next]_(Session!vars)
    <2>1. CASE UNCHANGED vars
      BY <2>1 DEF vars, shared, settings, locals, mainVars, Session!vars, Left, PageCall,
         CycleState
    <2> QED
      BY <1>3, <2>1, MainStepsSession, SimStepsSession DEF Next
  <1> QED
    BY <1>1, <1>2, <1>3, Safety, PTL DEF Spec

-----------------------------------------------------------------------------
(* The page is a user of the interface *)

\* A step of the page is a call of the interface, a step of the simulator thread, or
\* invisible to both.
LEMMA PageStep == ASSUME FTypeOK, [FNext]_allVars PROVE [Next]_vars
  <1>1. CASE Simulator
    BY <1>1 DEF Simulator, Next
  <1>2. CASE Clicks
    <2>1. Call("lockSimulator") \/ (\E op \in LockCalls : Call(op)) \/ SetSpeed
      BY <1>2 DEF Clicks, ResetClick, ContextClick, StepClick, ToggleClick, SliderMove,
         LineClick, Begin, LockCalls
    <2> QED
      BY <2>1 DEF Next, MainThread, MainCall
  <1>3. CASE FrameIdle
    BY <1>3 DEF FrameIdle
  <1>4. CASE FramePoll
    BY <1>4 DEF FramePoll, Next, MainThread, MainCall
  <1>5. CASE HandlerSteps
    <2>1. \/ Shutdown \/ Join \/ Rebuild \/ Call("lockSimulator") \/ ClearStatus
          \/ LockSimulator \/ UnlockSimulator \/ LockTimeout
      BY <1>5 DEF HandlerSteps, InitReset, InitRetry, FrameStatus, FrameLock, LoadContext,
         ReadFirst, ReadLast, GiveUp
    <2> QED
      BY <2>1 DEF Next, MainThread, MainCall, MainReturn, MainAcquire
  <1>6. CASE HandlerReturns
    <2>1. StepSimulation \/ PauseSimulation \/ PlaySimulation \/ AddBreakpoint \/ DeleteBreakpoint
      BY <1>6 DEF HandlerReturns, StepReturn, PauseReturn, PlayReturn, LineReturn, FTypeOK,
         AddBreakpoint, DeleteBreakpoint
    <2> QED
      BY <2>1 DEF Next, MainThread, MainAcquire
  <1>7. CASE UNCHANGED allVars
    BY <1>7 DEF allVars
  <1> QED
    BY <1>1, <1>2, <1>3, <1>4, <1>5, <1>6, <1>7 DEF FNext

-----------------------------------------------------------------------------
(* The inductive invariant *)

\* A handler that will ask for a frame has room for it.
FrameRoom == handler \in {"step", "play", "frame", "draw"} => frames < MaxFrames

\* Which call of the interface a handler can be in.
InCall ==
  /\ handler = "none" => pc_m = "idle"
  /\ handler \in {"init", "load"} =>
       pc_m \in {"shutdown", "join", "rebuild", "idle", "lockSimulator", "view"}
  /\ handler \in {"context", "draw"} => pc_m \in {"idle", "lockSimulator", "view"}
  /\ handler \in {"step", "pause", "play"} => pc_m = handler
  /\ handler = "frame" => pc_m = "status"
  /\ handler = "breakpoint" => pc_m \in {"add", "delete"}

\* The page's copies of the breakpoints, whatever handler runs: a click on a line has
\* turned the line over before the machine knows, and reset() has emptied the machine's
\* breakpoints before the page forgets its own.
Resetting == handler \in {"init", "load"}
Bold == CASE pc_m = "add" -> bkpt_map[listed] \cup {line}
          [] pc_m = "delete" -> bkpt_map[listed] \ {line}
          [] OTHER -> bkpt_map[listed]
Copies ==
  simulator_ready =>
    /\ ctxs = Ctxs
    /\ ~Resetting => breakpointAddr = bkpt_map /\ bold = Bold
    /\ Resetting /\ pc_m \in {"idle", "lockSimulator", "view"} => bkpt_map = [c \in Ctxs |-> {}]

\* The display, while it is read and afterwards.
Reading ==
  /\ pc_m = "view" => shown.regs = PC[ctx]
  /\ NoTornDisplay

\* The frame that polls is taken from frames before it runs.
Polling == handler \notin {"frame", "draw"} /\ playing => frames > 0

FInv == FTypeOK /\ FrameRoom /\ InCall /\ Copies /\ Reading /\ Polling

\* What the simulator thread leaves alone, above all the machine while it is read.
LEMMA SimThreadFrame ==
  ASSUME TypeOK, Control, SimThread
  PROVE  /\ UNCHANGED <<pc_m, simulator_ready, ctxs, bkpt_map>>
         /\ pc_m = "view" => UNCHANGED PC
  <1> USE DEF Control, LockOwnership, SimStep, SimAcquire, SimRelease, mainVars, unlocked, images, shared
  <1>1. SimCycle => pc_m # "view"
    BY DEF SimCycle
  <1> QED
    BY <1>1 DEF SimThread, SimOwn, SimStart, SimTop, SimWait, SimDelay, SimTimeout, SimReacquire,
       SimStop, SimBegin, SimCycle, SimRelock, SettleFinished, SettleBreakpoint, SettleContinue,
       SimReturn, SimLock, SimSpurious

LEMMA SimulatorKeepsPage == ASSUME TypeOK, Control, FInv, Simulator PROVE FInv'
  <1>1. /\ UNCHANGED <<pc_m, simulator_ready, ctxs, bkpt_map, uiVars>>
        /\ pc_m = "view" => UNCHANGED PC
    BY SimThreadFrame DEF Simulator
  <1> QED
    BY <1>1 DEF FInv, FTypeOK, FrameRoom, InCall, Copies, Reading, NoTornDisplay, Polling, Bold,
       Resetting, uiVars, runVars, codeVars, viewVars

LEMMA ClicksKeepPage == ASSUME TypeOK, FInv, Clicks PROVE FInv'
  <1> USE DEF FInv, FTypeOK, FrameRoom, InCall, Copies, Reading, NoTornDisplay, Polling, Bold,
        Resetting, Handlers, Begin, Call, MainStep, runVars, codeVars, viewVars, uiVars, shared,
        unlocked, images, settings, Loaded
  <1>1. ASSUME NEW h \in {"load", "init"}, NEW c \in Ctxs, ResetClick(h, c) PROVE FInv'
    BY <1>1 DEF ResetClick
  <1>2. ASSUME NEW c \in Ctxs, ContextClick(c) PROVE FInv'
    BY <1>2 DEF ContextClick
  <1>3. CASE StepClick
    BY <1>3 DEF StepClick
  <1>4. CASE ToggleClick
    BY <1>4 DEF ToggleClick
  <1>5. CASE SliderMove
    BY <1>5 DEF SliderMove, SetSpeed
  <1>6. ASSUME NEW a \in Lines, LineClick(a) PROVE FInv'
    BY <1>6 DEF LineClick
  <1> QED
    BY <1>1, <1>2, <1>3, <1>4, <1>5, <1>6 DEF Clicks

LEMMA FramesKeepPage == ASSUME TypeOK, FInv, FrameIdle \/ FramePoll PROVE FInv'
  <1> USE DEF FInv, FTypeOK, FrameRoom, InCall, Copies, Reading, NoTornDisplay, Polling, Bold,
        Resetting, Handlers, MainStep, codeVars, viewVars, shared, unlocked, images, settings
  <1>1. CASE FrameIdle
    BY <1>1, PageAssumption DEF FrameIdle, vars, mainVars
  <1>2. CASE FramePoll
    BY <1>2, PageAssumption DEF FramePoll, ReadStatus
  <1> QED
    BY <1>1, <1>2

\* reset(): nobody else looks at the breakpoints while it empties them.
LEMMA ResetKeepsPage == ASSUME TypeOK, FInv, InitReset \/ InitRetry PROVE FInv'
  <1> USE DEF FInv, FTypeOK, FrameRoom, InCall, Copies, Reading, NoTornDisplay, Polling, Bold,
        Resetting, MainStep, runVars, codeVars, viewVars, uiVars, shared, unlocked, images, settings
  <1>1. CASE InitReset
    <2>1. CASE Shutdown
      BY <1>1, <2>1 DEF InitReset, Shutdown
    <2>2. CASE Join
      BY <1>1, <2>2 DEF InitReset, Join
    <2>3. CASE Rebuild /\ ctxs' = Ctxs
      BY <1>1, <2>3 DEF InitReset, Rebuild
    <2> QED
      BY <1>1, <2>1, <2>2, <2>3 DEF InitReset
  <1>2. CASE InitRetry
    BY <1>2 DEF InitRetry, Call
  <1> QED
    BY <1>1, <1>2

LEMMA ReadingKeepsPage ==
  ASSUME TypeOK, FInv, FrameStatus \/ FrameLock \/ LoadContext \/ ReadFirst \/ ReadLast \/ GiveUp
  PROVE  FInv'
  <1> USE DEF FInv, FTypeOK, FrameRoom, InCall, Copies, Reading, NoTornDisplay, Polling, Bold,
        Resetting, Handlers, MainStep, runVars, codeVars, viewVars, uiVars, shared, unlocked,
        images, settings
  <1>0. PC \in [Ctxs -> Addr] /\ bkpt_map \in [Ctxs -> SUBSET Lines]
    BY DEF TypeOK
  <1>1. CASE FrameStatus
    BY <1>1, PageAssumption DEF FrameStatus, ClearStatus, NextFrame
  <1>2. CASE FrameLock
    BY <1>2 DEF FrameLock, Call
  <1>3. CASE LoadContext
    BY <1>3 DEF LoadContext, Call
  <1>4. CASE ReadFirst
    BY <1>0, <1>4 DEF ReadFirst, LockSimulator
  <1>5. CASE ReadLast
    <2>1. /\ pc_m = "view" /\ pc_m' = "idle" /\ shown'.regs = shown.regs /\ shown'.mem = PC[ctx]
          /\ shown' \in [regs : Addr, mem : Addr]
          /\ UNCHANGED <<simulator_ready, ctxs, bkpt_map, playing, disabled, line, ctx>>
      BY <1>0, <1>5 DEF ReadLast, UnlockSimulator
    <2>2. CASE handler \in {"init", "load"}
      <3>1. handler' \in {"none", "context"} /\ Forget /\ frames' = frames
        BY <1>5, <2>2 DEF ReadLast
      <3> QED
        BY <2>1, <2>2, <3>1 DEF Forget
    <2>3. CASE handler = "context"
      <3>1. handler' = "none" /\ Restore /\ frames' = frames
        BY <1>5, <2>3 DEF ReadLast
      <3> QED
        BY <2>1, <2>3, <3>1 DEF Restore
    <2>4. CASE handler = "draw"
      <3>1. handler' = "none" /\ NextFrame(playing) /\ UNCHANGED <<breakpointAddr, bold, listed>>
        BY <1>5, <2>4 DEF ReadLast
      <3> QED
        BY <2>1, <2>4, <3>1, PageAssumption DEF NextFrame
    <2> QED
      BY <1>5, <2>2, <2>3, <2>4 DEF ReadLast
  <1>6. CASE GiveUp
    BY <1>6, PageAssumption DEF GiveUp, LockTimeout, NextFrame
  <1> QED
    BY <1>1, <1>2, <1>3, <1>4, <1>5, <1>6

LEMMA ReturnsKeepPage == ASSUME TypeOK, FInv, HandlerReturns PROVE FInv'
  <1> USE DEF FInv, FTypeOK, FrameRoom, InCall, Copies, Reading, NoTornDisplay, Polling, Bold,
        Resetting, Handlers, MainStep, runVars, codeVars, viewVars, uiVars, shared, unlocked,
        images, settings
  <1>0. PC \in [Ctxs -> Addr] /\ bkpt_map \in [Ctxs -> SUBSET Lines]
    BY DEF TypeOK
  <1>1. CASE StepReturn
    BY <1>1, PageAssumption DEF StepReturn, StepSimulation, SetStepsLeft
  <1>2. CASE PauseReturn
    BY <1>2 DEF PauseReturn, PauseSimulation, SetStepsLeft
  <1>3. CASE PlayReturn
    BY <1>3, PageAssumption DEF PlayReturn, PlaySimulation, SetStepsLeft
  <1>4. CASE LineReturn
    <2>1. PICK op \in {"add", "delete"} :
            /\ handler = "breakpoint" /\ handler' = "none" /\ pc_m = op /\ pc_m' = "idle"
            /\ UNCHANGED <<simulator_ready, ctxs, PC, runVars, viewVars, listed, bold, line>>
            /\ LET new(old) == IF op = "add" THEN old \cup {line} ELSE old \ {line}
               IN  /\ breakpointAddr' = [breakpointAddr EXCEPT ![listed] = new(breakpointAddr[listed])]
                   /\ bkpt_map' = IF listed \in ctxs
                                  THEN [bkpt_map EXCEPT ![listed] = new(bkpt_map[listed])]
                                  ELSE bkpt_map
      BY <1>4 DEF LineReturn, SetBreakpoints
    <2>2. FTypeOK'
      BY <1>0, <2>1
    <2>3. simulator_ready => breakpointAddr' = bkpt_map' /\ bold' = bkpt_map'[listed']
      BY <1>0, <2>1
    <2> QED
      BY <2>1, <2>2, <2>3
  <1> QED
    BY <1>1, <1>2, <1>3, <1>4 DEF HandlerReturns

-----------------------------------------------------------------------------
(* What holds of the page *)

LEMMA PageInductive ==
  /\ FInit => FInv
  /\ TypeOK /\ Control /\ FInv /\ [FNext]_allVars => FInv'
  <1>1. ASSUME FInit PROVE FInv
    <2>1. ctx \in Ctxs
      BY <1>1, PageAssumption DEF FInit
    <2>2. Start[ctx] \in Addr
      BY <2>1, ProgramAssumption
    <2>3. FTypeOK
      <3>1. breakpointAddr \in [Ctxs -> SUBSET Lines]
        BY <1>1 DEF FInit
      <3>2. frames \in 0 .. MaxFrames
        BY <1>1, PageAssumption DEF FInit
      <3>3. shown \in [regs : Addr, mem : Addr]
        BY <1>1, <2>2 DEF FInit
      <3> QED
        BY <1>1, <2>1, <3>1, <3>2, <3>3 DEF FInit, FTypeOK, Handlers
    <2>4. FrameRoom /\ InCall /\ Copies /\ Reading /\ Polling
      BY <1>1 DEF FInit, Init, FrameRoom, InCall, Copies, Reading, NoTornDisplay, Polling
    <2> QED
      BY <2>3, <2>4 DEF FInv
  <1>2. ASSUME TypeOK, Control, FInv, [FNext]_allVars PROVE FInv'
    <2>1. CASE UNCHANGED allVars
      BY <1>2, <2>1 DEF allVars, vars, mainVars, uiVars, runVars, codeVars, viewVars, shared,
         unlocked, images, FInv, FTypeOK, FrameRoom, InCall, Copies, Reading, NoTornDisplay,
         Polling, Bold, Resetting
    <2> QED
      BY <1>2, <2>1, SimulatorKeepsPage, ClicksKeepPage, FramesKeepPage, ResetKeepsPage,
         ReadingKeepsPage, ReturnsKeepPage DEF FNext, HandlerSteps
  <1> QED
    BY <1>1, <1>2

\* The page drives the simulator thread only in ways that the interface allows: every
\* behaviour under the page is a behaviour of SimWorker, and all that is proved of it
\* holds, from the mutexes to the session the buttons promise.
THEOREM PageUsesInterface == FSpec => Spec
  <1>1. FInit => Init /\ TypeOK /\ Control /\ FInv
    BY PageInductive, TypesInductive, ControlInductive DEF FInit
  <1>2. TypeOK /\ Control /\ FInv /\ [FNext]_allVars => [Next]_vars
    BY PageStep DEF FInv
  <1>3. TypeOK /\ Control /\ FInv /\ [FNext]_allVars => TypeOK' /\ Control' /\ FInv'
    BY <1>2, PageInductive, TypesInductive, ControlInductive
  <1> QED
    BY <1>1, <1>2, <1>3, PTL DEF FSpec, Spec

LEMMA PageInvariant == FSpec => []FInv
  <1>1. FSpec => [](TypeOK /\ Control)
    BY PageUsesInterface, Safety, PTL
  <1>2. FSpec /\ [](TypeOK /\ Control) => []FInv
    BY PageInductive, PTL DEF FSpec
  <1> QED
    BY <1>1, <1>2, PTL

\* The page's variables keep their types; there are never more frames than MaxFrames.
THEOREM PageTypes == FSpec => []FTypeOK
  <1>1. FInv => FTypeOK
    BY DEF FInv
  <1> QED
    BY <1>1, PageInvariant, PTL

\* What is on display is one state of the machine, whatever the simulator does while the
\* getters are called one after the other.
THEOREM DisplayNeverTorn == FSpec => []NoTornDisplay
  <1>1. FInv => NoTornDisplay
    BY DEF FInv, Reading
  <1> QED
    BY <1>1, PageInvariant, PTL

\* Between handlers the page's two records of the breakpoints are the machine's.
THEOREM PageKnowsBreakpoints == FSpec => []BreakpointsAgree
  <1>1. FInv => BreakpointsAgree
    BY DEF FInv, InCall, Copies, BreakpointsAgree, Bold, Resetting, Loaded
  <1> QED
    BY <1>1, PageInvariant, PTL

\* A page that shows the program as running has a frame to come that asks how it goes.
THEOREM PagePolls == FSpec => []PollsWhilePlaying
  <1>1. FInv => PollsWhilePlaying
    BY DEF FInv, Polling, PollsWhilePlaying
  <1> QED
    BY <1>1, PageInvariant, PTL
===============================================================================
