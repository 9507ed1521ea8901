CONSTANTS
  MemSize = 12
  Byte = {0, 1}
  LineSize = 4
  NumLines = 1
  SetAssociativity = 2
  Latency = 1
  MainLatency = 2
  SubsequentLatency = 1
  PolicyFlag = "write_back"
  Addrs = {1, 4, 8, 12}
  Accesses = {1, 4}
  WriteData <- ByteWordData
  MaxCycles = 2
SPECIFICATION Spec
INVARIANTS
  WriteThroughCurrent
CHECK_DEADLOCK FALSE
