SPECIFICATION Spec
CONSTANTS
  Files  <- MCFiles
  Named  <- MCNamed
  Starts <- MCStarts
  SP     = 500
  Apart  = 100
INVARIANTS
  Bootstrapped
  HandsOver
PROPERTIES
  Ends
CHECK_DEADLOCK FALSE
