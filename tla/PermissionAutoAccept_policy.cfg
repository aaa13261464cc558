SPECIFICATION LiveSpec
CONSTANTS
  root = root
  child = child
  Sessions = {root, child}
  Requests = {r1}
  Lineage <- Family
  SessionOf <- Asker
  DefaultMode = "auto"
  Behaviours = {"lookupFails", "replyFails", "responseLost", "listFails", "writeFails", "upstreamBreaks", "restart", "disconnect", "boot", "readFails", "staleStatus"}
  MAX_ATTEMPTS = 2
  MaxChanges = 1
  MaxFaults = 2
  MaxSteps = 2
INVARIANTS
  TypeOK
  NoHiddenRequest
  RepliesAuthorised
  ChosenModeKept
  AutoLeavesNothing
PROPERTIES
  EventuallyAttended
CHECK_DEADLOCK FALSE
