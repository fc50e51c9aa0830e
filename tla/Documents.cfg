SPECIFICATION MCSpec
CONSTANTS
  Absent = Absent
  Malformed = Malformed
  NoText = NoText
  NoSuchAddress = NoSuchAddress
  NoFileText = NoFileText
  PrefixAddresses = {"239.69.0.1", "239.69.0.2", "239.69.0.3"}
  marks <- MCMarks
  hostAddresses <- MCHostAddresses
  HeardTexts <- MCHeardTexts
  SentNames = {"plain", "open"}
  SentWidths = {8}
  SentTo = "239.69.0.2"
  SentFrom = "10.0.0.1"
  MulticastAddresses = {"239.69.0.1", "239.69.0.2", "239.69.0.3"}
  RouteLists <- MCRouteLists
  OlderFiles <- MCOlderFiles
  ActiveKinds = {"ravenna", "dante", "dolby-dma16"}
  deviceRate = 48000
  MaxStreams = 2
  MaxLosses = 2
  Counts = {120, 128}
  ProfileIds = {"ravenna", "dolby-dma24"}
  Chains <- MCChains
  HandFiles <- MCHandFiles
  StartFiles <- MCStartFiles
  Word = 16384
  Long = 268435456
  MaxTorn = 1
  MaxEdits = 2
  MaxFaults = 1
  MaxIds = 2
INVARIANTS
  DescribedTruly
  SettingsHold
PROPERTY
  LoadedIsSaved
CHECK_DEADLOCK FALSE
