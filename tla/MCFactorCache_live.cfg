SPECIFICATION FairSpec
CONSTANTS
  t1 = t1
  t2 = t2
  v1 = v1
  v2 = v2
  v3 = v3
  h1 = h1
  h2 = h2
  s1 = s1
  s2 = s2
  s3 = s3
  None = None
  Threads <- TwoThreads
  Values <- MixedValues
  Hashes <- AllHashes
  HashOf <- MixedCollide
  Unfactorable <- Bad
  NonFinite <- NoValues
  Storage <- ThreeStores
  Caps <- OneCap
  Backend = "cholmod"
  TokenCap = 0
  MaxLost = 0
PROPERTIES
  AnsweredOnceCallsStop
