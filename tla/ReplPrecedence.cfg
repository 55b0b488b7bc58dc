SPECIFICATION Spec
CONSTANTS
  Width = 4
  Halves <- MCHalves
  Lengths = {0, 1, 2}
  LiteralValue <- MCLiterals
  Names = {"x", "main", "quit"}
  Nesting = 7
  Parse <- ParseTokens
  Keyboards <- MCSigned
CHECK_DEADLOCK FALSE
INVARIANT ParsedAsDocumented
