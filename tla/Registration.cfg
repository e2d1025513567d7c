SPECIFICATION Spec
CONSTANTS
  Setups <- MCSetups
  MaxRuns = 2
  MaxLeaves = 1
INVARIANTS
  TypeOK
  MembersServed
  NoOrphans
  AckedProbesAnalysed
  AnalysisKeepsToSession
  VerdictsAgree
  KnownPortOffered
  PredictionOffered
  BandCovered
  ThinnedWithinBand
  BothTold
