SPECIFICATION Spec
CONSTANTS
  Sessions = {s1}
  Tasks = {k1}
  NoTask = noTask
  Ticks = {t1, t2}
  MaxItems = 2
  MaxSessions = 1
  StoredQueues <- OneStored
  Behaviours = {"sendFails", "reconnect", "steps", "abort", "hold", "clear", "unlisted", "probeFails", "stop"}
  MaxId = 3
  MaxRevision = 4
  MaxEvents = 2
  MaxAdmits = 1
SYMMETRY TickSymmetry
INVARIANTS
  NoStrandedQueue
PROPERTIES
  QueueServed
  NoSteering
CHECK_DEADLOCK FALSE
