SPECIFICATION Spec
CONSTANTS
  Users = {u, v}
  Directions = {down}
  MaxProcs = 3
  MaxCount = 1
  MaxLog = 2
  MaxFiles = 2
  MaxScan = 1
INVARIANTS
  CountsExactly
  CountsNoMore
SYMMETRY SameUsers
CHECK_DEADLOCK FALSE
