SPECIFICATION LiveSpec
CONSTANTS
  Clients = {c1}
  Streams = {a, b}
  Behaviours = {"boot", "socketCloses", "upstreamBreaks", "initialError", "rebind", "restart", "readFails", "staleStatus"}
  REPLAY_LIMIT = 2
  PENDING_LIMIT = 3
  MaxEvents = 3
  MaxFaults = 2
INVARIANTS
  TypeOK
  OrderKept
  IdsGrow
  ReplayContiguous
  ExactlyOnce
  NoSilentGap
PROPERTIES
  EventuallySeen
CHECK_DEADLOCK FALSE
