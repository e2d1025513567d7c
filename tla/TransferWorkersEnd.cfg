SPECIFICATION FairSpec
CONSTANTS
  NumStreams = 2
  NumBlocks = 2
  MaxBreaks = 1
  MaxDamages = 0
  MaxTimeouts = 2
PROPERTY WorkersAlwaysEnd
