SPECIFICATION FairSpec
CONSTANTS
  ByteBits = 6
  TEXT_BOT = 4096
  DATA_BOT = 8192
  STACK_TOP = 16384
  EXCEPTION_ADDR = 32768
  K_DATA_BOT = 36864
  SPECIAL_BOT = 40960
  SPECIAL_TOP = 40968
  MM_IO_BOT = 40968
  MM_IO_TOP = 40971
  TEXT_SIZE = 20
  DATA_SIZE = 8
  STACK_SIZE = 8
  K_DATA_SIZE = 72
  StackWindow = 16
  Inputs = {7}
  Decode <- MCDecode
  Programs <- MCPrograms
  UserRegs <- MCUserRegs
  Registers <- MCRegisters
  Missing <- MCMissing
  Followed <- MCFollowed
INVARIANTS
  TypeOK
PROPERTIES
  ImplementsUserMachine
  HandlerReturns
CHECK_DEADLOCK FALSE
