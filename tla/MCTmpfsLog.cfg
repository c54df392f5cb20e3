CONSTANTS
  a = a
  b = b
  Names = {a, b}
  Loaded <- MCLoaded
  NumInodes = 4
  MaxBlocks = 2
  Values = {1, 2}
  LogSize = 3
  Careful = TRUE
  MaxRequests = 3
  MaxCrashes = 2
SPECIFICATION FairSpec
INVARIANTS
  TypeOK
  Restores
  ImageSound
PROPERTY
  Finishes
CHECK_DEADLOCK FALSE
