SPECIFICATION CountersSpec
CONSTANTS
  Posts = {p1}
  TaskRuns = {t1}
  MaxCalls = 1
  Admins = {a1, a2}
  NoTime = NoTime
PROPERTY UpgradeKept
CHECK_DEADLOCK FALSE
