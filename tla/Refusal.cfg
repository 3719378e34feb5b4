\* One tab, tokens may expire.
SPECIFICATION Spec
CONSTANTS
  None = None
  Blank = Blank
  Tabs = {t1}
  Users = {u1}
  States = {s1, s2}
  MayLose = FALSE
  Lifetime = 1
  MaxTime = 2
  MaxClicks = 5
CHECK_DEADLOCK FALSE
INVARIANTS SocketRefusalIsAnError
