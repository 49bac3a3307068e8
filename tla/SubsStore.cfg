SPECIFICATION SubsSpec
CONSTANTS
  Users = {u}
  NoUser = NoUser
  MaxChanges = 1
  MaxFails = 1
  Requests = {r1, r2}
SYMMETRY Symmetry
INVARIANTS
  OldAddressIsGone
  ServesWhatIsThere
CHECK_DEADLOCK FALSE
