SPECIFICATION StudioFairSpec
CONSTANTS
  NoChannel = NoChannel
  Users = {u1, u2}
  Tabs = {t1, t2}
  Slugs = {a, b}
  MaxKeys = 2
  MaxRare = 1
INVARIANTS KeysResolve
PROPERTIES PrefixConverges
CHECK_DEADLOCK FALSE
