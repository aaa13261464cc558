SPECIFICATION Spec
CONSTANTS
  Sessions = {s1, s2}
  Tasks = {k1}
  NoTask = noTask
  Ticks = {t1}
  MaxItems = 3
  MaxSessions = 1
  StoredQueues <- NothingStored
  Behaviours = {"cancel", "sendFails", "probeFails", "refuse", "delete", "takeAll", "remove", "reorder"}
  MaxId = 3
  MaxRevision = 4
  MaxEvents = 1
  MaxAdmits = 1
SYMMETRY SessionSymmetry
INVARIANTS
  OneEntryPerTask
  ScheduledResultOnce
  ScheduledResultTrue
PROPERTIES
  InFlightStaysQueued
  LastBroadcastNamesDirectory
  OnlyQueuedItemsPrompted
  RevisionCountsEdits
CHECK_DEADLOCK FALSE
