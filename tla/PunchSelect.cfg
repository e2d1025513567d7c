SPECIFICATION FairSpec
CONSTANTS
  NumLinks = 2
  Draws <- MCDraws
  Options <- MCOptions
  MaxTimeouts = 1
INVARIANTS
  TypeOK
  WinnerLeadsToPeer
  SameViewSameWinner
PROPERTY BothEstablish
