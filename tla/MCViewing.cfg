SPECIFICATION ViewingFairSpec
CONSTANTS
  Paths = {p1, p2}
  NoPath = NoPath
  MaxTimers = 1
  MaxFaults = 1
INVARIANTS RouteServes
PROPERTIES WatchersAreFed ThumbnailFollows
CHECK_DEADLOCK FALSE
