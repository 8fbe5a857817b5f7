SPECIFICATION FairSpec
CONSTANTS
  c1 = c1
  m1 = m1
  m2 = m2
  m3 = m3
  m4 = m4
  None = None
  Callers <- OneCaller
  Matrices <- MCMatrices
  Unfactorable <- MCUnfactorable
  Flat <- MCFlat
  Spoiled <- MCSpoiled
  MaxBatch = 2
INVARIANTS
  AnswersAreWhole
  NaNHasCause
  RaisingHasCause
  NothingHeldAfter
PROPERTIES
  CallsAnswered
