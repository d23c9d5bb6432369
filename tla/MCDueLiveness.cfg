SPECIFICATION FairSpec
CONSTANTS
  Cron <- MCCron
  Fires <- MCFewFires
  Broken <- MCBroken
  Early = 1
  Lateness = 1
  MaxRetries = 1
  BackoffInitial = 1
  BackoffCeiling = 2
  Horizon = 2
CHECK_DEADLOCK FALSE
PROPERTY DebtSettles
