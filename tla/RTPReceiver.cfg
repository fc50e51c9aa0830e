CONSTANTS
  BufferSize = 2
  SeqMod = 32
  PlayoutPackets = 3
  FirstNumber = 30
  MaxPackets = 4
  MaxDuplicates = 1
  MaxDelay = 2
  MaxStall = 1
  MaxStops = 1
  Tags = {30, 31, 32, 33}
  OversizeTags = {}
  NoPacket = NoPacket
  SizeMax = 7
  totalCount_ = 2
  Threads = {a, b}
  CountMod = 8
  MaxTag = 8
SPECIFICATION MCSpec
INVARIANTS
  PositionKept
  PoolSafe
PROPERTIES
  PlaysForward
  Drains
  StopReturns
CHECK_DEADLOCK FALSE
