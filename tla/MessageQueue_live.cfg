SPECIFICATION LiveSpec
CONSTANTS
  Sessions = {s1}
  Tasks = {k1}
  NoTask = noTask
  Ticks = {t1}
  MaxItems = 2
  MaxSessions = 1
  StoredQueues <- OneStored
  Behaviours = {"sendFails", "probeFails", "reconnect", "abort", "subagent", "steps"}
  MaxId = 2
  MaxRevision = 4
  MaxEvents = 2
  MaxAdmits = 1
PROPERTIES
  EventuallyLeaves
CHECK_DEADLOCK FALSE
