SPECIFICATION Spec
CONSTANTS
  Constructs <- LoopPrograms
  Raised = {e1}
  ConstBlocks = 0
  MaxFrames = 6
  MaxBlock = 2
  MaxBreak = 2
INVARIANTS TypeOK ScopeBalance JumpExact CallsReturnClean
