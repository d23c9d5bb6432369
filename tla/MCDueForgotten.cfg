SPECIFICATION Spec
CONSTANTS
  Cron <- MCCron
  Fires <- MCFires
  Broken <- MCBroken
  Early = 1
  Lateness = 1
  MaxRetries = 1
  BackoffInitial = 1
  BackoffCeiling = 2
  Horizon = 7
CHECK_DEADLOCK FALSE
INVARIANT LaterStaysPromised
