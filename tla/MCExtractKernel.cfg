CONSTANTS
  MaxSectors = 3
  TypeCodes <- MCTypeCodes
  LastLens <- MCLastLens
  RootBytes <- MCRootBytes
SPECIFICATION Spec
INVARIANTS TypeOK ScanFindsFirstPrimary ExitOneOnlyWithoutPvd
PROPERTIES MainTerminates
