CONSTANTS
  NumRegs = 3
  WordMod = 64
  DataSize = 16
  Latencies = {0, 2}
  MaxDepth = 0
  Images <- DoubleUsePrograms
SPECIFICATION RunSpec
INVARIANTS
  LoadDelivered
CHECK_DEADLOCK FALSE
