SPECIFICATION Spec
CONSTANTS
  Sessions = {s1, s2}
  MAX_ENTRIES = 2
  SETTLE_RECHECKS = 1
  Behaviours = {"delete", "readFails", "writeFails", "subagent", "reconnect", "userPrompt", "late", "requestFails"}
  MaxDispatches = 1
  MaxRuns = 2
  MaxEvents = 2
  MaxCrashes = 1
SYMMETRY SessionSymmetry
INVARIANTS
  TypeOK
  AnswersTheDispatch
  NoStrandedResult
CHECK_DEADLOCK FALSE
