SPECIFICATION Spec
CONSTANTS
  Sources = {"external", "cache", "tmp", "data"}
  MaxInstalls = 2
  LibCount = 3
  NotRetouchable = {2}
  OldOffset = 5
  RandomBases = {1, 2}
  Volatile = FALSE
  MaxKills = 3
  MaxArgs = 6
  MaxReduces = 2
  Items = {1, 2, 3, 4, 5}
  HashOf <- MCHashOf
  InitialSizes = {1, 2}
  MaxTable = 16
INVARIANTS
  WipeAsked
  RootsFree
  LibraryKept
  OneOffset
  AbortStops
  NullReturned
  TableIsSet
\* Every part ends at one of its bounds.
CHECK_DEADLOCK FALSE
