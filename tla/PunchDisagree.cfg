SPECIFICATION Spec
CONSTANTS
  NumLinks = 2
  Draws <- MCDraws
  Options <- MCOptions
  MaxTimeouts = 0
INVARIANT WinnersAgree
