SPECIFICATION Spec
CONSTANTS
  root = root
  child = child
  Sessions = {root, child}
  Requests = {r1}
  Lineage <- Family
  SessionOf <- Asker
  DefaultMode = "ask"
  Behaviours = {"turnOff"}
  MAX_ATTEMPTS = 2
  MaxChanges = 1
  MaxFaults = 0
  MaxSteps = 1
INVARIANTS
  NoHiddenRequest
CHECK_DEADLOCK FALSE
