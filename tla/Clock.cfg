SPECIFICATION MCSpec
CONSTANTS
  Hosts <- MCHosts
  Ranks <- MCRanks
  SlaveOnly = {}
  GmLockedRank = 1
  GmFreeRank = 4
  Timeout = 2
  MaxFaults = 2
  SilenceMax = 0
  CalmMax = 4
  LockEdges = 2
  Holdover = 1
  LinkDelay = 2
  MaxQueueing = 1
  MaxTurnaround = 1
  MaxAfterSend = 1
  MaxHeldUp = 5
  RequestInterval = 10
  PeerOffset = 5
  FilterSize = 2
  MaxPdelayRequests = 2
  MasterCapable = FALSE
  Stale = 2
  StatusNumbers = 3
  QueueMax = 1
  MaxServiceFaults = 5
  SinceMax = 9
INVARIANTS
  SegmentSettles
  ShortOnlyByLateT3
  ServiceSafe
PROPERTIES
  SlaveFollows
  LockArrives
CHECK_DEADLOCK FALSE
