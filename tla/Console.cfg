CONSTANTS
  NumRegs = 3
  WordMod = 128
  DataSize = 16
  Latencies = {0, 1}
  MaxDepth = 6
  Images <- SmallImages
  Scripts <- AllScripts
  Decimal <- DecimalTokens
  Hexadecimal <- HexadecimalTokens
  Broken <- BrokenTokens
SPECIFICATION ConsoleSpec
INVARIANTS
  ConsoleTypeOK
  CyclesExplained
PROPERTIES
  CountsRetired
  StepsAsTyped
CHECK_DEADLOCK FALSE
