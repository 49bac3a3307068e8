SPECIFICATION Spec
CONSTANTS
  MaxReports = 4
  MaxInstances = 2
  MaxTime = 1
  Limit = 2
  KeepFor = 0
  PurgeEvery = 2
INVARIANTS
  CountedOnce
  AcceptedIsCounted
  LostWereDropped
  AnnouncedOnce
PROPERTIES
  CountedInOrder
CHECK_DEADLOCK FALSE
