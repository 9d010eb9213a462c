\* Three tasks, added and removed at any time; time wraps after six ticks.
CONSTANTS
  t1 = t1
  t2 = t2
  t3 = t3
  Nobody = Nobody
  Tasks = {t1, t2, t3}
  Repeat = {t1, t3}
  Interval <- MCInterval
  Wrap = 6
  Builds = {"debug", "release"}
SPECIFICATION Spec
INVARIANTS
  NoneLost
  StuckOnlyAfterRefusal
  OnTime
CHECK_DEADLOCK FALSE
