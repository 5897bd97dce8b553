SPECIFICATION Spec
CONSTANTS
  ByteBits = 2
  WordBytes = 2
  MaxBytes = 5
  UsizeMax = 15
  W = 4
  Typesizes = {1, 2, 4}
  Configs <- MCConfigs
  Inputs <- MCInputs
INVARIANTS UpdatesAreExact ScansAgree FiltersRoundTrip BitShuffleTransposes
