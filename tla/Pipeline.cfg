CONSTANTS
  NumRegs = 3
  WordMod = 64
  DataSize = 16
  Latencies = {0, 2}
  MaxDepth = 0
  Images <- SingleUsePrograms
SPECIFICATION RunSpec
INVARIANTS
  TypeOK
  QueueDepth
  OffsetsExact
  ReturnsToCaller
  AbortJustified
PROPERTIES
  ImplementsIsa
  Progress
CHECK_DEADLOCK FALSE
