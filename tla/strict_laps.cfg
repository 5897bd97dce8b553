SPECIFICATION Spec
CONSTANTS
  k1 = k1
  k2 = k2
  Key <- MCKey
  Lens <- MCLens1
  Kinds <- MCCreate
  PointerKeys <- MCNone
  HeaderRaces <- MCNone
  RingSize = 2
  MaxTx = 5
  MaxLosses = 2
SYMMETRY Symmetry
INVARIANTS
  TypeOK
  DurableOnReturn
PROPERTY CommitsAtomically
