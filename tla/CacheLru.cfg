CONSTANTS
  MemSize = 32
  Byte = {0, 1}
  LineSize = 4
  NumLines = 2
  SetAssociativity = 2
  Latency = 1
  MainLatency = 2
  SubsequentLatency = 0
  PolicyFlag = "write_through"
  Addrs = {0, 4, 8, 16, 24}
  Accesses = {4}
  WriteData <- WordData
  MaxCycles = 4
SPECIFICATION Spec
PROPERTIES
  EvictsLeastRecentlyUsed
CHECK_DEADLOCK FALSE
