SPECIFICATION Spec
CONSTANTS
  t1 = t1
  t2 = t2
  cholmod = cholmod
  m1 = m1
  m2 = m2
  m3 = m3
  None = None
  Threads <- TwoThreads
  Backends <- OneBackend
  ClearOrder <- OneOrder
  Matrices <- ThreeMatrices
  Failing <- Singular
  Rows <- Sizes
  Caps <- BothCaps
  MaxBatch = 1
  MaxKeys = 2
SYMMETRY Interchangeable

INVARIANTS
  LastsAsDocumented
