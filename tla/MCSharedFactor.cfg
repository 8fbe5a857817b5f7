SPECIFICATION FairSpec
CONSTANTS
  c1 = c1
  c2 = c2
  None = None
  Callers <- MCCallers
  Calls <- MCCalls
  NPanels = 2
  MaxChains = 3
  MaxCalls = 1
INVARIANTS
  NoRace
  ConvertedOnce
  AnswersOwnFactor
  ChainComposes
PROPERTIES
  CallsReturn
CHECK_DEADLOCK FALSE
