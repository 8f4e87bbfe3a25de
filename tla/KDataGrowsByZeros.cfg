SPECIFICATION Spec
CONSTANTS
  ByteBits = 2
  TEXT_BOT = 16
  DATA_BOT = 32
  STACK_TOP = 64
  K_DATA_BOT = 80
  SPECIAL_BOT = 96
  SPECIAL_TOP = 104
  MM_IO_BOT = 104
  MM_IO_TOP = 107
  TEXT_SIZE = 4
  DATA_SIZE = 4
  STACK_SIZE = 4
  K_DATA_SIZE = 4
  StackWindow = 16
  Addrs <- MCAddrs
  Values <- MCValues
  Garbage = {0}
  MaxData = 8
  MaxKData = 8
  MaxWritten = 2
PROPERTIES
  KDataGrowsByZeros
