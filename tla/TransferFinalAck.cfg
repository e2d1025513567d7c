SPECIFICATION Spec
CONSTANTS
  NumStreams = 2
  NumBlocks = 2
  MaxBreaks = 1
  MaxDamages = 0
  MaxTimeouts = 0
INVARIANT FinalAckOnDoneStream
