SPECIFICATION LiveSpec
CONSTANTS
  Sessions = {s1, s2}
  MAX_ENTRIES = 2
  SETTLE_RECHECKS = 1
  Behaviours = {"requestFails", "readFails", "reconnect", "trails", "startsLater", "late"}
  MaxDispatches = 1
  MaxRuns = 2
  MaxEvents = 1
  MaxCrashes = 1
INVARIANTS
  NoStrandedResult
PROPERTIES
  PromiseKept
CHECK_DEADLOCK FALSE
