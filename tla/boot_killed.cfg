SPECIFICATION Spec
CONSTANTS
  Requests <- CacheRequests
  Channels = {"file"}
  Faults = {"killed"}
  MaxCrashes = 1
  MaxFaults = 1
  MaxMenu = 1
INVARIANTS
  WipeRestartable
