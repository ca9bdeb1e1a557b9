SPECIFICATION Spec
CONSTANTS
  N = 1
  Kind <- OneFile
  Checks = TRUE
  Volatile = TRUE
  MaxCrashes = 1
  MaxFaults = 0
INVARIANTS Recoverable
