SPECIFICATION Spec
CONSTANTS
  Images    <- TwoVersions
  Base      = 100
  Names     <- MCNames
  Versions  <- MCVersions
  Importers <- MCImporters
  GnuHash   <- MCGnuHash
  VerHash   <- MCVerHash
  WordBits  = 4
  Place     <- MCPlace
INVARIANT
  VersionRespected
CHECK_DEADLOCK FALSE
