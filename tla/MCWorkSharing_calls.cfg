SPECIFICATION FairSpec
CONSTANTS
  NumThreads = 3
  kPanel = 2
  Sizes <- MCManySizes
  Worths <- MCWorths
  NoJob = NoJob
INVARIANTS
  EachItemOnce
  AnswerIsWhole
  ColumnsSolvedOnce
  NoneLeftBehind
  WithinBudget
PROPERTY CallsReturn
CHECK_DEADLOCK FALSE
