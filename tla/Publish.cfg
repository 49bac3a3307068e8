SPECIFICATION FairSpec
CONSTANTS
  Users = {u}
  NoUser = NoUser
  MaxChanges = 3
  MaxFails = 1
INVARIANTS
  SaidHolds
  FilesFollow
PROPERTIES
  Settles
CHECK_DEADLOCK FALSE
