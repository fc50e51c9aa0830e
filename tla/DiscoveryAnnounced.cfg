SPECIFICATION Spec
CONSTANTS
  Bodies = {1, 2}
  ListSize = 1
  SessionTimeout = 2
  ServiceTimeout = 4
  MaxChanges = 3
  MaxFaults = 1
INVARIANT AnnouncedIsListed
CHECK_DEADLOCK FALSE
