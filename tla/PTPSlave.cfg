CONSTANTS
  Masters = {1, 2}
  Datasets <- MCDatasets
  twoStepOnly = FALSE
  kLockThreshold = 2
  Syncs <- MCSyncs
  MaxRequests = 2
  MaxStops = 1
  MaxDeaths = 1
SPECIFICATION Spec
INVARIANTS
  MeasuresTruly
  FollowsTruly
PROPERTY
  MasterLossNoticed
CHECK_DEADLOCK FALSE
