SPECIFICATION FairSpec
CONSTANTS
  NumStreams = 2
  NumBlocks = 2
  MaxBreaks = 1
  MaxDamages = 1
  MaxTimeouts = 0
PROPERTIES
  TransferSucceeds
  AfterDoneBothEnd
