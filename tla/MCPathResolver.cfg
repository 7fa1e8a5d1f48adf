CONSTANTS
  ImageLen = 5
  ByteVals <- MCByteVals
  BlockSizes <- MCBlockSizes
  MaxExtent = 1
  MaxLength = 6
  MaxComponents = 2
SPECIFICATION Spec
INVARIANTS TypeOK
