SPECIFICATION Spec
CONSTANTS
  Threads = {t1, t2}
  Names   = {"f", "g", "h"}
  Libs    = {"a", "b"}
  Symbols = {"f", "g"}
  Slots   = {"s1", "s2", "s3", "s4", "s5"}
  NameOf   <- MCNameOf
  Scope    <- MCScope
  PreFind  <- MCPreFind
  Local    = {"s1", "s2", "s4", "s5"}
  Bad      = {"s5"}
  Get      <- MCGet
  GetFor   <- MCGetFor
  Own      <- MCOwn
  Weak     = {"s3"}
  Globals  = {"G1", "G2"}
  Provides <- MCProvides
INVARIANTS
  TypeOK
  FreshBinding
  SameAsEager
  AbortOnlyIfUnbound
PROPERTIES
  ImplementsPltSlots
  CallsEnd
CHECK_DEADLOCK FALSE
