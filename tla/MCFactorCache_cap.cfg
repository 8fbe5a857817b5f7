SPECIFICATION Spec
CONSTANTS
  t1 = t1
  t2 = t2
  v1 = v1
  v2 = v2
  v3 = v3
  h1 = h1
  h2 = h2
  s1 = s1
  s2 = s2
  s3 = s3
  None = None
  Threads <- TwoThreads
  Values <- GoodValues
  Hashes <- AllHashes
  HashOf <- Distinct
  Unfactorable <- NoValues
  NonFinite <- NoValues
  Storage <- ThreeStores
  Caps <- EitherCap
  Backend = "cholmod"
  TokenCap = 0
  MaxLost = 0
VIEW LiveState
SYMMETRY Interchangeable
INVARIANTS
  CapBoundsMemory
