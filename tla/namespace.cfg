SPECIFICATION Spec
CONSTANTS
  Names = {a, b}
  Threads = {t1, t2}
  InodeCount = 4
  Blocks = {10, 11, 12, 13}
  EntriesPerBlock = 1
  ColdScans = 2
  CacheCapacity = 2
  Modes <- AllModes
  LegacyNames = {b}
  Avoid = {"dead_parent", "stale_target", "first_block", "dirty_block"}
  MaxSteps = 5
INVARIANTS TypeOK CachesTransparent BlocksOwned
PROPERTY ImplementsTree
SYMMETRY ThreadSymmetry
CHECK_DEADLOCK FALSE
