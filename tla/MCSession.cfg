SPECIFICATION FairSpec
CONSTANTS
  c1 = c1
  c2 = c2
  Conns = {c1, c2}
  First = c1
  BUFFER = 4
  NL = "n"
  Chars = {"q", "x", "y"}
  Q = "q"
  Unknown = "x"
  NoOne = NoOne
  ANSWER_ROOM = 2
  Launches <- MCLaunches
  SOCKET_ROOM = 2
INVARIANTS
  TypeOK
  LinesArriveWhole
  ReaderEndsForCause
  AnswersPrintedOnce
PROPERTIES
  SentLineIsRun
  EveryClientEnds
CHECK_DEADLOCK FALSE
