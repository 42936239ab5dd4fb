SPECIFICATION FairSpec
CONSTANTS
  Families = {f1, f2}
  Tabs = {t1, t2}
  Studios = {t1}
  None = None
  Keep = Keep
  Bare = Bare
  MaxForms = 2
  MaxMishaps = 1
INVARIANTS NoFalseAlarm LogoutEnds
PROPERTIES RefusedTokenGoes ReadyIfAnswered
CHECK_DEADLOCK FALSE
