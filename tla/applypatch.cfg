SPECIFICATION FairSpec
CONSTANTS
  N = 3
  Kind <- EveryKind
  Checks = TRUE
  Volatile = FALSE
  MaxCrashes = 2
  MaxFaults = 2
INVARIANTS Recoverable
PROPERTIES Completes InstallsInOrder
