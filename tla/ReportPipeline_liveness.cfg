SPECIFICATION FairSpec
CONSTANTS
  MaxReports = 3
  MaxInstances = 2
  MaxTime = 0
  Limit = 2
  KeepFor = 1
  PurgeEvery = 2
PROPERTIES
  SpoolDrains
  LedgerSpec
CHECK_DEADLOCK FALSE
