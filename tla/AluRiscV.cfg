CONSTANTS
  Cases <- DeviatingCases
SPECIFICATION AluSpec
INVARIANTS
  ExecutesRiscV
CHECK_DEADLOCK FALSE
