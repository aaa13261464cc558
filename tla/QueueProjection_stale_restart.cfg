SPECIFICATION Spec
CONSTANTS
  Sessions = {s1}
  Behaviours = {"restart", "crash"}
  MaxId = 2
  MaxRevision = 5
  MaxStream = 2
  MaxCalls = 2
  MaxFaults = 1
INVARIANTS
  ShownConverges
CHECK_DEADLOCK FALSE
