SPECIFICATION Spec
CONSTANTS
  DataStart = 3
  BlockCount = 14
  TrackedEnd = 16
  InodeCount = 4
  BlockSize = 2
  Direct = 2
  AutoMin = 4
  FrameSlack = 2
  TagLen = 1
  Files = {1, 2}
  Modes = {FALSE, TRUE}
  ChunkBlocks = 2
  Requests <- MCRequests
  ChunkWrites <- MCChunkWrites
  Sizes = {0, 3, 17}
  ZLens = {1, 3}
  Faults = {"crash"}
  Others = {"delete", "defrag"}
  Avoid = {"full", "stale_handle", "codec_switch", "extend_aligned", "chunk_zero", "triple_shrink", "past_end", "defrag_empty", "journal_tables", "journal_rewrite", "torn_overwrite", "torn_chunks"}
  CrashPoints = 2
  MaxSteps = 4
INVARIANTS TypeOK FsckClean ReadsBack RecoveryAgrees
CHECK_DEADLOCK FALSE
