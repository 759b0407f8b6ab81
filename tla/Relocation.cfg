SPECIFICATION Spec
CONSTANTS
  Names  <- MCNames
  Slots  <- MCSlots
  Addends = {0, 1, 8}
  Libs   <- MCLibs
  Self   = "self"
  Kind   <- MCKind
  Defs   <- MCDefs
  IFuncs <- MCIFuncs
  Trips  <- MCTrips
  Valued = {"v"}
  Broken = {"x"}
  Far    = {"g"}
  Inputs <- MCInputs
INVARIANTS
  TypeOK
  RelocatedBeforeInit
  FailsOnlyForCause
  InitOrder
PROPERTIES
  SealedMeansFinal
CHECK_DEADLOCK FALSE
