SPECIFICATION FairSpec
CONSTANTS
  MAX_NOTIFICATIONS = 4
  Messages = {m1, m2, m3}
  NoMessage = NoMessage
INVARIANTS
  TypeOK
  NoLostWakeup
PROPERTIES
  ImplementsFifo
  EverythingIsSent
