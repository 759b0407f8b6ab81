SPECIFICATION Spec
CONSTANTS
  Names  <- MCNames
  Slots  <- MCSlots
  Addends = {0, 1, 8}
  Libs   <- MCLibs
  Self   = "self"
  Kind   <- MCKind
  Defs   <- MCDefs
  IFuncs <- MCIFuncs
  Trips  <- MCTrips
  Valued = {"v"}
  Broken = {"x"}
  Far    = {}
  Inputs <- WithAddend
INVARIANT
  SymbolicIsSPlusA
CHECK_DEADLOCK FALSE
