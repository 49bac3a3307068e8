SPECIFICATION FairSpec
CONSTANTS
  a = a
  b = b
  c = c
  probe = probe
  Users <- MCUsers
  Keep <- MCKeep
  Lists <- MCLists
  Deployed <- MCDeployed
  NoList = NoList
  Inbounds = 2
  MinRefused = 2
  MaxUpsets = 3
INVARIANTS
  VerifiedRuns
PROPERTIES
  RefusalProtects
  NobodyCutOff
  Converges
CHECK_DEADLOCK FALSE
