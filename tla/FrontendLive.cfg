SPECIFICATION FairFSpec
CONSTANTS
  Ctxs = {c0}
  Addr <- MCAddr
  Start <- MCStart
  Flow <- MCFlow
  Exits <- MCExits
  Lines = {2}
  StepSizes = {1}
  Delays = {0}
  MaxSteps = 1
  MaxFrames = 1
PROPERTIES
  HandlersEnd
