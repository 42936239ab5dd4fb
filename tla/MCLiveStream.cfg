SPECIFICATION FairSpec
CONSTANTS
  p1 = p1
  p2 = p2
  Paths <- MCPaths
  LiveTtl = 2
  MaxPolls = 2
  MaxFaults = 1
INVARIANTS
  SingleSession
  SessionIsListed
VIEW Judged
PROPERTIES
  GhostsFade
  BroadcastersReturn
CHECK_DEADLOCK FALSE
