SPECIFICATION FairSpec
CONSTANTS
  Ctxs = {c0, c1}
  Addr <- MCAddr
  Start <- MCStart
  Flow <- MCFlow
  Exits <- MCExits
  Lines = {2}
  StepSizes = {1}
  Delays = {0, 1}
  MaxSteps = 2
INVARIANTS
  TypeOK
  LockOwnership
  NoLostWakeup
  RebuildAlone
  EndsFinished
  WaitingEndsWithCycle
PROPERTIES
  ViewStable
  CallReturns
  ImplementsPlaySession
