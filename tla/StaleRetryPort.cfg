SPECIFICATION Spec
CONSTANTS
  NumConns = 1
  MaxAttempts = 2
  MaxPunchFails = 2
  MaxBindFails = 0
  MaxDrops = 0
  MaxEarly = 0
INVARIANTS
  PunchesAtCurrentPort
