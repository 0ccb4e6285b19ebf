CONSTANTS
  w1 = w1
  w2 = w2
  t1 = t1
  t2 = t2
  Wakes = {w1, w2}
  Targets = {t1, t2}
  First = w1
  Themes = {"decides", "retells", "rivals"}
  Capacity = 1
  MaxReports = 2
SPECIFICATION ThemeSpec
CHECK_DEADLOCK FALSE
INVARIANTS NoSilentEnd ToldOnce
PROPERTIES FenceHolds EndsTold
