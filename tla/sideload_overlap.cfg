SPECIFICATION Spec
CONSTANTS
  MaxSessions = 2
  Blocks = 2
  Openers = {1, 2}
  Room = 1
  Fds = {0}
  MaxCalls = 1
INVARIANTS
  WholeFile
\* The server may wait for a host for ever.
CHECK_DEADLOCK FALSE
