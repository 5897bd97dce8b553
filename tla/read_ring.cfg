SPECIFICATION Spec
CONSTANTS
  r1 = r1
  r2 = r2
  Readers = {r1, r2}
  Requests <- MCRequests
  ImageLen = 6
  Depth = 2
  MaxOpBytes = 2
  MaxIdleRings = 1
  MaxCalls = 3
  MaxFaults = 2
INVARIANTS TypeOK KernelWritesLiveBuffers ReadsAgree
PROPERTY ReadsReturn
CHECK_DEADLOCK FALSE
