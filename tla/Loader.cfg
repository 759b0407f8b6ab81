SPECIFICATION Spec
CONSTANTS
  PageSize = 2
  UsizeMax = 64
  AddrMax  = 13
  BufSize  = 2
  Files    <- MCFiles
  Backends <- AllBackends
INVARIANTS
  TypeOK
  OutsideUntouched
  ImageLoaded
  FinalProtection
  LeavesNothing
  NoFault
  ParsedFromImage
  PhdrsMapped
CHECK_DEADLOCK FALSE
