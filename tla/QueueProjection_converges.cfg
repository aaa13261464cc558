SPECIFICATION Spec
CONSTANTS
  Sessions = {s1}
  Behaviours = {"take", "sendFails", "replyLost", "requestLost", "clear", "hydrate", "evict", "delete", "disconnect", "gap", "restart"}
  MaxId = 2
  MaxRevision = 4
  MaxStream = 2
  MaxCalls = 2
  MaxFaults = 1
INVARIANTS
  TypeOK
  ShownConverges
  NoResurrection
CHECK_DEADLOCK FALSE
