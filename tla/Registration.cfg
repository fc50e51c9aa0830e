SPECIFICATION MCSpec
CONSTANTS
  Registries = {1, 2}
  Streams = {a, b}
  MaxFaults = 2
  MaxChanges = 1
  kAnnouncements = 3
  MaxLosses = 2
  MaxRuns = 2
INVARIANTS
  RegistryAgrees
  FoundIsThere
PROPERTY NodeReturns
CHECK_DEADLOCK FALSE
