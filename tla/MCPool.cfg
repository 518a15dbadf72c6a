SPECIFICATION Spec
CONSTANTS
  Clients = {a, b, c}
  MAX_CLIENTS = 2
  QUEUE_ROOM = 1
  MaxLines = 1
  MaxConnections = 2
  Quitters = {a, b, c}
  Closers = {a, b, c}
  Notifies <- MCEverybody
  MaxNotices = 2
  Deaf = {}
  SOCKET_ROOM = 0
  DeafLines = 0
  NoClient = NoClient
INVARIANTS
  TypeOK
  LocksHeldInside
  OneAgentPerSlot
  RecordsOfOccupant
  NoCrossTalk
  NoLostWakeup
SYMMETRY MCSymmetry
CHECK_DEADLOCK FALSE
