SPECIFICATION Spec
CONSTANTS
  Dims <- MCDims
  Indices <- MCIndices
  MaxNnz = 3
  Entries <- MCEntries
  Kinds <- MCKinds
INVARIANTS
  SortedAndPacked
  MatrixIsSumOfEntries
CHECK_DEADLOCK FALSE
