SPECIFICATION Spec
CONSTANTS
  Kinds = {"RTSPServer", "ConnectionAPIServer", "RtspServer", "HttpServer"}
  Deadline = 1
  MaxRequest = 3
  MaxEdits = 1
INVARIANT CostsOnlyTheFeature
CHECK_DEADLOCK FALSE
