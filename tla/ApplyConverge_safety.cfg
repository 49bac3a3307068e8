SPECIFICATION FairSpec
CONSTANTS
  Users = {a, b}
  OwnId = {b}
  Shapes = {1, 2, 3}
  Bad = {3}
  Files = 3
  Inbounds = 2
  Proxied = {1, 3}
  Egresses = {1, 2}
  MaxUpsets = 3
INVARIANTS
  SuccessRuns
  FilesRun
  RolledBack
PROPERTIES
  ServesAgain
