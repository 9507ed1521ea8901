CONSTANTS
  NumRegs = 3
  WordMod = 128
  DataSize = 16
  Latencies = {0, 1}
  MaxDepth = 6
  Images <- ShortImages
  Scripts <- RestartScripts
  Decimal <- DecimalTokens
  Hexadecimal <- HexadecimalTokens
  Broken <- BrokenTokens
SPECIFICATION ConsoleSpec
PROPERTIES
  BreakpointsStop
CHECK_DEADLOCK FALSE
