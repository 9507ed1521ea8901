CONSTANTS
  Cases <- NamedCases
SPECIFICATION AluSpec
INVARIANTS
  AluTypeOK
  CreatesNamed
  DecodesImmediate
  ConformsElsewhere
CHECK_DEADLOCK FALSE
