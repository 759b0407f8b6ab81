SPECIFICATION Spec
CONSTANTS
  Objects  <- MCObjects
  Obj      <- MCObj
  BufSize  = 4
  EhdrSize = 2
  MaxCalls = 4
INVARIANTS
  PhdrsOfThisObject
  RefusedOnlyForCause
PROPERTIES
  CallsReturn
CHECK_DEADLOCK FALSE
