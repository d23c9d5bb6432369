SPECIFICATION Spec
CONSTANTS
  Cron <- MCCron
  Fires <- MCFires
  Broken <- MCBroken
  Early = 0
  Lateness = 1
  MaxRetries = 1
  BackoffInitial = 1
  BackoffCeiling = 2
  Horizon = 5
CHECK_DEADLOCK FALSE
INVARIANT CancelIsNoRerun
