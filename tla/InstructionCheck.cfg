SPECIFICATION SpecAll
CONSTANTS
  ByteBits = 1
  His = {0, 1, 7, 8, 15}
  Los = {0, 1, 7, 8, 15}
  NaN = NaN
  Regs = {1, 30}
  Imms = {1, 32768, 65534}
  Targets = {1, 16777219, 33554432}
  ConditionCodes = {0, 1, 7}
  Controls <- MCControls
  Compared = {1, 2}
  Numbers <- MCNumbers
  Bytes <- MCBytes
CHECK_DEADLOCK FALSE
INVARIANTS
  ProductsExact
  ExactOrNoResult
  UnalignedPairs
  RoundTrip
  ConditionsExact
  ConversionsExact
  ExpansionsExact
