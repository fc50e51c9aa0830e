SPECIFICATION MCSpec
CONSTANTS
  Bodies = {1, 2}
  ListSize = 1
  SessionTimeout = 2
  ServiceTimeout = 4
  MaxChanges = 3
  MaxFaults = 1
  Old = 2
  RtpPorts = {5004, 65535}
  Ssrcs = {s1, s2, s3}
  MaxReporters = 2
  ReporterTimeout = 1
  ReconcileEvery = 2
  MaxOpenFailures = 1
INVARIANTS
  DirectoryTells
  ReportersShownTruly
PROPERTIES
  ListensOn
CHECK_DEADLOCK FALSE
