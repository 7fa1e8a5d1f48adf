CONSTANTS
  MaxSectors = 2
  TypeCodes <- MCTypeCodes
  LastLens <- MCLastLens
  RootBytes <- MCRootBytes
SPECIFICATION Spec
PROPERTY ScanNeverRaises
