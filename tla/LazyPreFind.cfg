SPECIFICATION Spec
CONSTANTS
  Threads = {t1, t2}
  Names   = {"f", "g", "h"}
  Libs    = {"a", "b"}
  Symbols = {"f", "g"}
  Slots   = {"s4"}
  NameOf   <- MCNameOf
  Scope    <- MCScope
  PreFind  <- MCPreFind
  Local    = {"s4"}
  Bad      = {}
  Get      <- MCGet
  GetFor   <- MCGetFor
  Own      <- MCOwn
  Weak     = {}
  Globals  = {}
  Provides <- MCProvides
INVARIANT
  PreFindFirst
CHECK_DEADLOCK FALSE
