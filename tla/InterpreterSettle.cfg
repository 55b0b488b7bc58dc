SPECIFICATION FairSpec
CONSTANTS
  Constructs <- WhilePrograms
  Raised = {e1}
  ConstBlocks = 0
  MaxFrames = 5
  MaxBlock = 2
  MaxBreak = 2
PROPERTY ErrorSettles
