SPECIFICATION Spec
CONSTANTS
  Egresses = {e}
  Schemes = {s}
  Rows = {r}
  Requests = {p, q}
  None = None
  Deleted = Deleted
  MaxRequests = 5
INVARIANTS
  Referenced
PROPERTIES
  NoUdpWhereNone
  RequestsEnd
  CheckedAsItIs
CHECK_DEADLOCK FALSE
