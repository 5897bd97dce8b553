SPECIFICATION Spec
CONSTANTS
  k1 = k1
  k2 = k2
  Key <- MCKey
  Lens <- MCLens123
  RingSize = 4
  MaxTx = 4
  FlushWindow = 3
SYMMETRY Symmetry
INVARIANTS
  TypeOK
  ScanPassesOnce
PROPERTIES
  RecoveryRestoresCommitted
  RedoIsIdempotent
  FlushRetiresOnlyCovered
