SPECIFICATION Spec
CONSTANTS
  Images    <- MCImages
  Base      = 100
  Names     <- MCNames
  Versions  <- MCVersions
  Importers <- MCImporters
  GnuHash   <- MCGnuHash
  VerHash   <- MCVerHash
  WordBits  = 4
  Place     <- MCPlace
INVARIANTS
  DynamicParsed
  LookupMatches
  StaysInTables
  PanicsExplained
  CountExact
PROPERTIES
  LookupEnds
CHECK_DEADLOCK FALSE
