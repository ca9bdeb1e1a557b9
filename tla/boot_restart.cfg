SPECIFICATION Spec
CONSTANTS
  Requests <- RequestsAll
  Channels = {"file"}
  Faults <- SeenFaults
  MaxCrashes = 2
  MaxFaults = 1
  MaxMenu = 1
INVARIANTS
  WipeRestartable
  OtaRestartable
  NoCycle
PROPERTIES
  NoStaleErase
