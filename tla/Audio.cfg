SPECIFICATION MCSpec
CONSTANTS
  Capacity = 3
  MaxElements = 9
  BufferSize = 2
  SeqMod = 4
  Tags = {"small", "big"}
  OversizeTags = {"big"}
  NoPacket = NoPacket
  SizeMax = 7
  Directions = {"in", "out"}
  Devices = 2
  Width = 2
  RingSize = 3
  Block = 2
  Rates = {3, 4}
  FirstRate = 3
  Second = 10
  PacketTime = 7
  PacketRoom = 2
  SeqModulus = 3
  TsModulus = 3
  MaxFrames = 4
  MaxFaults = 1
  MaxChanges = 4
INVARIANTS
  RingSafe
  JBSafe
  PlaysTruly
PROPERTIES
  RefinesFifo
  RefinesSlotBuffer
  FlowsOn
CHECK_DEADLOCK FALSE
