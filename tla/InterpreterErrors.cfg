SPECIFICATION FairSpec
CONSTANTS
  Constructs <- ErrorPrograms
  Raised = {e1}
  ConstBlocks = 1
  MaxFrames = 5
  MaxBlock = 2
  MaxBreak = 2
INVARIANT ReturnUnwinds
PROPERTIES ErrorToInnermostTry UnwindingRunsDown ErrorSettles
