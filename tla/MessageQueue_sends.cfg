SPECIFICATION Spec
CONSTANTS
  Sessions = {s1}
  Tasks = {k1}
  NoTask = noTask
  Ticks = {t1, t2}
  MaxItems = 3
  MaxSessions = 1
  StoredQueues <- OneStored
  Behaviours = {"probeFails", "sendFails", "responseLost", "reconnect", "abort", "slow", "hold", "holdExpiry", "userPrompt", "take"}
  MaxId = 3
  MaxRevision = 4
  MaxEvents = 2
  MaxAdmits = 1
SYMMETRY TickSymmetry
INVARIANTS
  TypeOK
  OneSendPerSession
  NoDuplicateDelivery
  DeliveryInv
PROPERTIES
  NoOvertaking
CHECK_DEADLOCK FALSE
