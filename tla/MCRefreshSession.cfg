SPECIFICATION Spec
CONSTANTS
  s1 = s1
  s2 = s2
  s3 = s3
  f1 = f1
  f2 = f2
  t1 = t1
  h1 = h1
  h2 = h2
  None = None
  Sids <- MCSids
  Families <- MCFamilies
  Tokens <- MCTokens
  Handlers <- MCHandlers
  Sliding = 3
  AbsMax = 3
  Grace = 1
  AccessTtl = 1
  Losses = {"sid", "fam", "usess", "famrev", "deny", "restart"}
  MaxTime = 100
  MaxFaults = 1
  MaxChanges = 1
VIEW Shifted
SYMMETRY PoolSymmetry
INVARIANTS
  OneLiveSid
  RevokedStaysDead
  RevokedTokensDie
  GraceHarmless
  IndexComplete
PROPERTIES
  CapHolds
CHECK_DEADLOCK FALSE
