SPECIFICATION Spec
CONSTANTS
  a = a
  b = b
  c = c
  Objs = {a, b, c}
  Execs = {c}
  Foreign = {b}
  Deps <- MCDeps
  MaxHandles <- MCMaxHandles
  MaxBare <- MCNoBare
  MaxCalls = 1
INVARIANT
  NoPrematureDrop
CHECK_DEADLOCK FALSE
