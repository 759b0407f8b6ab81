SPECIFICATION Spec
CONSTANTS
  PageSize = 2
  UsizeMax = 64
  AddrMax  = 13
  BufSize  = 2
  Files    <- BssFirst
  Backends <- AllBackends
INVARIANT
  LowestSegmentLoaded
CHECK_DEADLOCK FALSE
