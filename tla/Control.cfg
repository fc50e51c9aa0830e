SPECIFICATION MCSpec
CONSTANTS
  Groups = {1, 2}
  Receivers = {1, 2}
  Channels = {0, 1, 2}
  Patches <- MCPatches
  SenderPatches <- MCSenderPatches
  Bulks <- MCBulks
  Grids <- MCGrids
  MaxRequests = 4
  MaxDriverRequests = 3
  MaxChanges = 2
  DriverRequests <- MCDriverRequests
  Nodes = {a, b}
  Nobody = Nobody
  MaxBrowseChanges = 2
  MaxClicks = 2
  Old = 2
  Clocks = {p, q, r}
  MaxPeers = 2
  PeerTimeout = 1
INVARIANTS
  PatchbayAgrees
  DriverAgrees
  ShownIsActive
  PeersShownTruly
CHECK_DEADLOCK FALSE
