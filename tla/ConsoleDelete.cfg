CONSTANTS
  NumRegs = 3
  WordMod = 128
  DataSize = 16
  Latencies = {0, 1}
  MaxDepth = 6
  Images <- ShortImages
  Scripts <- DeleteScripts
  Decimal <- DecimalTokens
  Hexadecimal <- HexadecimalTokens
  Broken <- BrokenTokens
SPECIFICATION ConsoleSpec
PROPERTIES
  DeletesOne
CHECK_DEADLOCK FALSE
