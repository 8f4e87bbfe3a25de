SPECIFICATION ASpec
CONSTANTS
  Families <- MCFamilies
  MaxLines = 4
  Bot <- MCBot
  GpBot <- MCGpBot
  GpEnd <- MCGpEnd
CHECK_DEADLOCK FALSE
INVARIANTS
  ATypeOK
  OnePassIsTwoPass
  NoPatchOwed
  RingsFromRedefinition
PROPERTIES
  FlushTakesWhatWasLocal
