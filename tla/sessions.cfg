SPECIFICATION Spec
CONSTANTS
  Procs = {p, q, r}
  None = None
  Stale = Stale
  Absent = Absent
  Empty = Empty
  Broken = Broken
  Setups <- MCSetups
  MaxAttempt = 1
  MaxOpens = 3
  MaxRequests = 2
  MaxCrashes = 1
INVARIANTS TypeOK OnlyTheHolderUses AckedIsKept MasterIsReachable RunsAtMostPerAttempt
SYMMETRY ProcSymmetry
CHECK_DEADLOCK FALSE
