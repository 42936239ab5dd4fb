SPECIFICATION FairSpec
CONSTANTS
  k1 = k1
  k2 = k2
  u1 = u1
  u2 = u2
  c1 = c1
  r1 = r1
  r2 = r2
  None = None
  Sockets <- MCSockets
  Users <- MCUsers
  Channels <- MCChannels
  RoomIds <- MCRooms
  MaxTotal = 2
  MaxPerUser = 1
  MaxRooms = 1
  MaxFaults = 1
INVARIANTS
  CeilingsHold
  JoinedAreServed
  SubscriptionsOwned
  ViewersExact
PROPERTY VanishedReaped
VIEW Judged
CHECK_DEADLOCK FALSE
