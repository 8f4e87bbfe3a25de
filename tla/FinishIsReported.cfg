SPECIFICATION Spec
CONSTANTS
  Ctxs = {c0}
  Addr <- MCAddr
  Start <- MCStart
  Flow <- MCFlow
  Exits <- MCExits
  Lines = {2, 3}
  StepSizes = {1}
  Delays = {0, 1}
  MaxSteps = 2
PROPERTIES
  FinishIsReported
