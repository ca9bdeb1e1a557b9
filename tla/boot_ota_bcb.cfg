SPECIFICATION Spec
CONSTANTS
  Requests <- OtaRequests
  Channels = {"bcb"}
  Faults = {}
  MaxCrashes = 1
  MaxFaults = 1
  MaxMenu = 1
INVARIANTS
  OtaRestartable
