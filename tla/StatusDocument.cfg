SPECIFICATION DocSpec
CONSTANTS
  Vision = vision
  Transports = {vision, xhttp}
  FailCount = 2
  RecoverCount = 1
  Interval = 2
  KeepFor = 6
  PurgeEvery = 5
  DayLength = 3
  ShowDays = 2
  MaxTime = 11
  MaxUpsets = 2
INVARIANTS
  Chronicle
  TellsTheTruth
  OpenIsDown
  DaysTellTheTruth
  ShownIsKept
CHECK_DEADLOCK FALSE
