SPECIFICATION Spec
CONSTANTS
  AutoMin = 4
  FrameSlack = 2
  TagLen = 1
  Writers = {w1, w2}
  Requests <- MCRequests
  Sizes = {0, 3}
  ChunkLen = 2
  Avoid = {"turns_seekable", "codec_switch"}
  MaxWrites = 3
  MaxClock = 3
SYMMETRY WriterSymmetry
PROPERTY WritesAreAtomic
CHECK_DEADLOCK FALSE
