SPECIFICATION Spec
CONSTANTS
  N = 4
  Batch = 2
  Values = {a, b}
  Garbage = Garbage
  NoRec = NoRec
  Avoid = {"killed_in_batch", "unlogged_write"}
  MaxOps = 2
  MaxFaults = 2
INVARIANTS FramesFit InodesSurvive
CHECK_DEADLOCK FALSE
