SPECIFICATION Spec
CONSTANTS
  a = a
  b = b
  c = c
  Objs = {a, b, c}
  Execs = {c}
  Foreign = {b}
  Deps <- MCDeps
  MaxHandles <- MCMaxHandles
  MaxBare <- MCMaxBare
  MaxCalls = 1
INVARIANTS
  TypeOK
  CallsFindLibraries
  CrashOnlyInFini
  FiniMatchesInit
  FixupNeverLast
PROPERTIES
  ImplementsObjectLife
  Unloaded
CHECK_DEADLOCK FALSE
