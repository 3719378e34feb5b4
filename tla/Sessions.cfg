\* Two tabs of one browser, every token may expire.  The person may stop.
SPECIFICATION Spec
CONSTANTS
  None = None
  Blank = Blank
  Tabs = {t1, t2}
  Users = {u1, u2}
  States = {s1, s2}
  MayLose = TRUE
  Lifetime = 1
  MaxTime = 3
  MaxClicks = 5
SYMMETRY Symmetry
CHECK_DEADLOCK FALSE
INVARIANTS TypeOK SessionIsEarned PageIsTheSession LogoutHolds
