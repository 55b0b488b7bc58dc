SPECIFICATION Spec
CONSTANTS
  Width = 4
  Halves <- MCHalves
  Lengths = {0, 1, 2}
  LiteralValue <- MCLiterals
  Names = {"x", "main", "quit"}
  Nesting = 7
  Parse <- ParseTokens
  Keyboards <- MCKeyboards
CHECK_DEADLOCK FALSE
INVARIANTS TypeOK PlainParsesAsDocumented RollingFaithful OperationsSound
PROPERTY FailedLineLosesOnlyItsTarget
