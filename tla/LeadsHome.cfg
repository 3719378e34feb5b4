\* Two tabs of one browser, no token expires, nothing is lost.  The person may stop.
SPECIFICATION FairSpec
CONSTANTS
  None = None
  Blank = Blank
  Tabs = {t1, t2}
  Users = {u1}
  States = {s1, s2}
  MayLose = FALSE
  Lifetime = 1
  MaxTime = 1
  MaxClicks = 5
CHECK_DEADLOCK FALSE
PROPERTIES LoginLeadsHome PageComesUp
