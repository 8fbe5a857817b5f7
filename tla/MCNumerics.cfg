SPECIFICATION MCSpec
CONSTANTS
  Word = 32
  Digits = 5
  Nested = 2
  Low = 1
  Steps <- MCSteps
  Draws <- MCDraws
  SobolDims <- MCSobolDims
  Hashes <- MCHashes
  Owns <- MCOwns
  Prime = 23
  None = None
  NaN = NaN
  Failed = Failed
INVARIANTS
  TableIsAdmissible
  BlocksBalanced
  InsideUnitInterval
  LogpIsSimulated
  GradientIsDerivative
  GivenUpWhenIndefinite
  EntriesOfInverse
  DeterminantsAgree
CHECK_DEADLOCK FALSE
