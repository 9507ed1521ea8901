CONSTANTS
  MemSize = 16
  Byte = {0, 1}
  LineSize = 4
  NumLines = 2
  SetAssociativity = 1
  Latency = 1
  MainLatency = 2
  SubsequentLatency = 1
  PolicyFlag = "write_back"
  Addrs = {0, 5, 8, 16}
  Accesses = {1, 2}
  WriteData <- ByteHalfData
  MaxCycles = 1
SPECIFICATION Spec
INVARIANTS
  WriteThroughCurrent
PROPERTIES
  ImplementsByteMemory
CHECK_DEADLOCK FALSE
