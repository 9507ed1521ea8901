CONSTANTS
  NumRegs = 3
  WordMod = 256
  DataSize = 12
  InstrSize = 48
  ByteMod = 4
  MaxDepth = 6
  LineSize = 4
  NumLines = 2
  SetAssociativity = 1
  CacheLatency = 1
  MainLatency = 2
  SubsequentLatency = 1
  PolicyFlag = "write_through"
  MaxCycles = 200
  MaxResets = 1
  Images <- SystemImages
SPECIFICATION SystemSpec
INVARIANTS
  SystemTypeOK
PROPERTIES
  ImplementsPipeline
CHECK_DEADLOCK FALSE
