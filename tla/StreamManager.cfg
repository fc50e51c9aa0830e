CONSTANTS
  kMaxDeviceChannels = 3
  usableChannelCount_ = 3
  id1 = id1
  id2 = id2
  id3 = id3
  gmA = gmA
  gmB = gmB
  StreamIDs <- MCStreamIDs
  NullID = NullID
  Mappings <- MCMappings
  NoMapping = NoMapping
  Clients = {ui, sap}
  SDPs <- MCSDPs
  NoGrandmaster = NoGrandmaster
  Placements <- MCPlacements
  Remaps <- MCRemaps
  TxWidths = {2}
  kPerFlow = 1
  usableRxChannelCount_ = 2
  usableTxChannelCount_ = 3
  Profiles <- MCProfiles
  NoStream = NoStream
  NoFile = NoFile
  TornFile = TornFile
  MaxCalls = 3
  MaxCrashes = 1
SPECIFICATION Spec
INVARIANTS
  RecordsConsistent
  SingleProducer
  SavedIsCurrent
PROPERTIES
  RestartRestoresReceivers
  UsesMapper
SYMMETRY Symmetry
