SPECIFICATION FairSpec
CONSTANTS
  Tabs = {t1}
  Sockets = {s1, s2}
  Requests = {q1}
  None = None
  SendBurst = 1
  BufferLimit = 1
  MaxSaid = 2
  MaxEvents = 1
INVARIANTS InputTruthful SlotEarned
PROPERTIES IsBroadcastSpec MessagesArrive
CHECK_DEADLOCK FALSE
