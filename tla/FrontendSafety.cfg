SPECIFICATION FSpec
CONSTANTS
  Ctxs = {c0, c1}
  Addr <- MCAddr
  Start <- MCStart
  Flow <- MCFlow
  Exits <- MCExits
  Lines = {2}
  StepSizes = {1}
  Delays = {0}
  MaxSteps = 1
  MaxFrames = 2
INVARIANTS
  FTypeOK
  NoTornDisplay
  BreakpointsAgree
  PollsWhilePlaying
