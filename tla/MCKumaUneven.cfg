SPECIFICATION Spec
CONSTANTS
  Cron = {"weekdays"}
  Given = {"weekdays"}
  Monitor = {m1, m2}
  Request = {r1, r2}
  NoMonitor = none
  Fires <- UnevenFires
  Nominal <- UnevenFires
  Broken = {}
  Early = 0
  SlackFloor = 1
  SlackCeiling = 2
  DstMargin = 1
  DefaultCadence = 1
  Samples = 1
  Edits = 1
  Horizon = 10
CHECK_DEADLOCK FALSE
SYMMETRY Alike
INVARIANT LapseMeansStale
