CONSTANTS
  common_lib = common_lib
  mem_lib = mem_lib
  Batch <- MCBatch
  BaseName <- MCBaseName
  MaxLines = 3
  MaxClock = 1
SPECIFICATION Spec
INVARIANT OriginalBackedUp
