SPECIFICATION FairSpec
CONSTANTS
  Egresses = {1, 2}
  Settings = {s1, s2}
  Matches = {m1, m2}
  Pool <- MCPool
  None = None
  RECOVER = 2
  MaxUpsets = 2
INVARIANTS
  BelievesWhatRuns
  BlocksOnFailure
  SwitchesByChecks
  ReportedRuns
PROPERTY Converges
CHECK_DEADLOCK FALSE
