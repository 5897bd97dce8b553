SPECIFICATION Spec
CONSTANTS
  k1 = k1
  k2 = k2
  Key <- MCKey
  Lens <- MCLens1
  Kinds <- MCCreateWrite
  PointerKeys <- MCNone
  HeaderRaces <- MCNone
  RingSize = 4
  MaxTx = 3
  MaxLosses = 2
SYMMETRY Symmetry
INVARIANT DurableOnReturn
PROPERTY CommitsAtomically
