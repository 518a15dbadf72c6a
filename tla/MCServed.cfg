SPECIFICATION FairSpec
CONSTANTS
  Clients = {a, b}
  MAX_CLIENTS = 2
  QUEUE_ROOM = 2
  MaxLines = 3
  MaxConnections = 2
  Quitters = {}
  Closers = {}
  Notifies <- MCEverybody
  MaxNotices = 3
  Deaf = {b}
  SOCKET_ROOM = 2
  DeafLines = 1
  NoClient = NoClient
PROPERTIES
  NoticesAreSent
  CommandIsAnswered
CHECK_DEADLOCK FALSE
