SPECIFICATION FairSpec
CONSTANTS
  Requests <- RequestsAll
  Channels = {"file", "bcb"}
  Faults <- FaultKinds
  MaxCrashes = 1
  MaxFaults = 1
  MaxMenu = 1
INVARIANTS
  LogComplete
  IntentDelivered
PROPERTIES
  RecoveryEnds
