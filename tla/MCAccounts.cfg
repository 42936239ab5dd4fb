SPECIFICATION FairSpec
CONSTANTS
  None = None
  Browsers = {b1, b2}
  Passwords = {p1, p2}
  Identities = {t1}
  Mailboxes = {m1}
  Flows = {f1, f2}
  Jobs = {j1, j2}
  MaxFaults = 1
PROPERTIES
  OwnersOnly
  IdentityGetsIn
VIEW Live
CHECK_DEADLOCK FALSE
