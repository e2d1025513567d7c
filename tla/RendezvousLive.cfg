SPECIFICATION FairSpec
CONSTANTS
  NumConns = 1
  MaxAttempts = 2
  MaxPunchFails = 0
  MaxBindFails = 0
  MaxDrops = 1
  MaxEarly = 0
PROPERTIES
  ClientsEnd
  AllConnect
