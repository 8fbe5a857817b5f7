SPECIFICATION Spec
CONSTANTS
  Threads = {t1, t2}
  Programs = {q1, q2}
  Structures = {a, b, c}
  Malformed = {c}
  Hash <- MCHash
  Options = {v1, v2}
  MaxClears = 1
  None = None
SYMMETRY Symmetric

INVARIANTS
  OnePatternPerStructure
  AnswersAreCurrent
  RememberedIsRegistered
  SettingApplies
