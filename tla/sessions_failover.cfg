SPECIFICATION Spec
CONSTANTS
  Procs = {p, q, r}
  None = None
  Stale = Stale
  Absent = Absent
  Empty = Empty
  Broken = Broken
  Setups <- MCOneSetup
  MaxAttempt = 1
  MaxOpens = 3
  MaxRequests = 1
  MaxCrashes = 1
PROPERTY RequestsReturn
CHECK_DEADLOCK FALSE
