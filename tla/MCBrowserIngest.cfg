SPECIFICATION FairSpec
CONSTANTS
  p1 = p1
  p2 = p2
  s1 = s1
  s2 = s2
  None = None
  Panels = {p1, p2}
  Sockets = {s1, s2}
  Mobile = {p1}
  NoScreen = {p1}
  MaxConnections = 2
  BufferLimit = 1
  MaxEvents = 1
INVARIANTS PanelTruthful OneIngest
PROPERTIES AllReleased StartSettles
CHECK_DEADLOCK FALSE
