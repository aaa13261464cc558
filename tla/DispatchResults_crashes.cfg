SPECIFICATION Spec
CONSTANTS
  Sessions = {s1, s2}
  MAX_ENTRIES = 1
  SETTLE_RECHECKS = 1
  Behaviours = {"requestFails", "late", "delete"}
  MaxDispatches = 2
  MaxRuns = 1
  MaxEvents = 1
  MaxCrashes = 1
SYMMETRY SessionSymmetry
INVARIANTS
  DeliveredOnce
  PromiseOnDisk
CHECK_DEADLOCK FALSE
