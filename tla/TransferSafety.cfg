SPECIFICATION Spec
CONSTANTS
  NumStreams = 2
  NumBlocks = 3
  MaxBreaks = 2
  MaxDamages = 1
  MaxTimeouts = 1
INVARIANTS
  TypeOK
  SenderOkMeansFileVerified
  BlockConservation
  SettledIsReceived
  CountIsFlags
  DoneMeansAllReceived
PROPERTY ImplementsFileTransfer
