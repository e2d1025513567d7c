SPECIFICATION Spec
CONSTANTS
  NumConns = 2
  MaxAttempts = 2
  MaxPunchFails = 2
  MaxBindFails = 1
  MaxDrops = 0
  MaxEarly = 1
CONSTRAINT FaultsApart
INVARIANTS
  TypeOK
  Sequential
  ResultsTrue
  PortsTrue
PROPERTIES
  GoFindsBothWaiting
  SuccessStaysOnRecord
