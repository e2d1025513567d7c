SPECIFICATION FairSpec
CONSTANTS
  Setups <- MCSetups
  WARM_UP = 2
  BLOCK = 2
  Buffer = 2
  MaxSamples = 2
  MaxBreaks = 1
INVARIANTS
  TypeOK
  StreamsClean
  ResultDelivered
  MeasuredAfterWarmUp
  FailureHasCause
PROPERTIES
  BothEnd
