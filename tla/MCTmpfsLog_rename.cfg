CONSTANTS
  a = a
  b = b
  Names = {a, b}
  Loaded <- MCLoaded
  NumInodes = 4
  MaxBlocks = 2
  Values = {1, 2}
  LogSize = 3
  Careful = FALSE
  MaxRequests = 2
  MaxCrashes = 1
SPECIFICATION Spec
INVARIANTS
  Restores
CHECK_DEADLOCK FALSE
