SPECIFICATION FairSpec
CONSTANTS
  Clients = {a, b}
  MAX_CLIENTS = 1
  QUEUE_ROOM = 1
  MaxLines = 1
  MaxConnections = 1
  Quitters = {a, b}
  Closers = {}
  Notifies <- MCOnlySelf
  MaxNotices = 2
  Deaf = {}
  SOCKET_ROOM = 0
  DeafLines = 0
  NoClient = NoClient
PROPERTIES
  QuitCleansUp
CHECK_DEADLOCK FALSE
