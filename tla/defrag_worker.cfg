SPECIFICATION Spec
CONSTANTS
  c1 = c1
  c2 = c2
  Caller <- MCTwo
  Ops <- MCOps
  MaxCalls = 6
  SpawnFails = TRUE
INVARIANTS
  TypeOK
  NoStrayWorker
  StoppedOnReturn
PROPERTIES
  CallsReturn
  WorkerLeaves
