SPECIFICATION Spec
CONSTANTS
  NumConns = 2
  MaxAttempts = 1
  MaxPunchFails = 0
  MaxBindFails = 0
  MaxDrops = 1
  MaxEarly = 0
PROPERTIES
  RelayLossKeepsStreams
