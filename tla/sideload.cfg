SPECIFICATION Spec
CONSTANTS
  MaxSessions = 2
  Blocks = 2
  Openers = {1}
  Room = 2
  Fds = {0, 1, 2}
  MaxCalls = 2
INVARIANTS
  KicksOwnDevice
  FreedUnused
  CloseAllFindsNone
  PendingSound
PROPERTIES
  UnplugFrees
\* The server may wait for a host for ever.
CHECK_DEADLOCK FALSE
