SPECIFICATION Spec
CONSTANTS
  Egresses = {1, 2}
  Settings = {s1, s2}
  Matches = {m1, m2}
  Pool <- MCPool
  None = None
  RECOVER = 2
  MaxUpsets = 1
INVARIANT NeverDirect
CHECK_DEADLOCK FALSE
