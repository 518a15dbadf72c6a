SPECIFICATION FairSpec
CONSTANTS
  Threads = {t1, t2}
  Layouts <- MCLayouts
  Addrs = {0, 1}
  Versions = {0, 1}
  CHANGES = 1
INVARIANTS
  TypeOK
  NothingLeftBehind
PROPERTIES
  CallIsAtomic
  EveryCallReturns
CHECK_DEADLOCK FALSE
