SPECIFICATION FairSpec
CONSTANTS
  NumThreads = 3
  kPanel = 2
  Sizes <- MCManySizes
  Worths <- MCWorths
  NoJob = NoJob
PROPERTY FailuresReachTheCaller
CHECK_DEADLOCK FALSE
